------------------------------- MODULE MCLink -------------------------------
(* Services and the network: a behaviour is one of the lookup of the        *)
(* uplink's host, of the connection to the uplink, or of the servers and    *)
(* users that services see through it.                                      *)
EXTENDS Uplink, TLC

CONSTANTS
  Queries, Ids, FirstTimeout,                                       \* Resolver
  Users, Servers, Names, LongNames, Hub, Me, Nowhere, MaxWire, MaxEvents   \* Network

MCScript == <<"server", "cmd", "short">>

VARIABLES part,
  host, open, request, result, questions, due, reused,   \* Resolver
  parent, at, fresh, wire, link, seen, hidden, session, jupes, unset, cut,
  astray, crossed, events   \* Network

rvars == <<host, open, request, result, questions, due, reused>>
nvars == <<parent, at, fresh, wire, link, seen, hidden, session, jupes, unset, cut,
           astray, crossed, events>>

R == INSTANCE Resolver
N == INSTANCE Network WITH known <- seen

ASSUME LookupAssumption == FirstTimeout \in Nat

\* The uplink, services and no server are none of the other servers, nor is no
\* user's name a name; servers and users are finitely many.
ASSUME NetworkAssumption ==
  /\ Hub \notin Servers /\ Me \notin Servers /\ Nowhere \notin Servers
  /\ Hub # Me /\ Hub # Nowhere /\ Me # Nowhere /\ Nowhere \notin Names
  /\ IsFiniteSet(Servers) /\ IsFiniteSet(Users)

\* The parts that do not move stay in an initial state.
MCInit ==
  /\ part \in {"lookups", "uplink", "network"}
  /\ Init /\ N!Init /\ R!Init
  /\ part # "lookups" => open /\ \A q \in Queries : host[q] = "name"

MCNext ==
  /\ part' = part
  /\ \/ part = "lookups" /\ R!Next /\ UNCHANGED <<vars, nvars>>
     \/ part = "uplink" /\ Next /\ UNCHANGED <<rvars, nvars>>
     \/ part = "network" /\ N!Next /\ UNCHANGED <<vars, rvars>>

\* The fairness of Resolver and Network; what is asked of Uplink needs none.
MCSpec ==
  /\ MCInit /\ [][MCNext]_<<part, vars, rvars, nvars>>
  /\ WF_rvars(part = "lookups" /\ R!Tick)
  /\ WF_rvars(part = "lookups" /\ \E q \in Queries : R!TimeoutQuery(q))
  /\ WF_nvars(part = "network" /\ N!Start)
  /\ WF_nvars(part = "network" /\ N!Receive)

-----------------------------------------------------------------------------
\* The address a lookup ends with is its own name's, unless an id came back
\* while an answer to it was under way (see Resolver).
AnswersAreOwn == part = "lookups" => R!AnswersAreOwn

\* The lines services handle are those the uplink sent, over a connection that
\* is open whenever me.uplink is set (see Uplink).
LinesAsSent == part = "uplink" => TypeOK /\ UplinkIsOpen /\ LinesHandled

\* Once nothing is under way services know the servers and users there are, and
\* the table of jupes shows what is juped (see Network).
ViewAgrees == part = "network" => N!TypeOK /\ N!JupesStand /\ N!ViewAgrees

\* Whatever is lost, services go on: every lookup of a resolver that has its
\* socket ends, and services come up again after every crash and split, unless
\* barred by what Network names (see Resolver and Network).
LinkRecovers ==
  R!LookupsEnd /\ (part = "network" /\ link = "down" ~> link = "up" \/ N!Barred)
=============================================================================
