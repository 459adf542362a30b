------------------------------ MODULE Network ------------------------------
(***************************************************************************)
(* The servers and users services know of, and the ones there are.         *)
(*                                                                         *)
(* What the network does reaches services over the wire from the uplink    *)
(* Hub, in order and late; what services send (KILL, SERVER and SQUIT of   *)
(* a jupe) takes effect at Hub at once, so it crosses what is under way.   *)
(* Services' side is client.c, hash.c, the server and user messages of     *)
(* irc.c and oftc.c, and jupe.c with OperServ's JUPE commands; a jupe is   *)
(* a server of services' own, remembered in the table jupes.               *)
(*                                                                         *)
(* A user is known by its UID, but KILL names it by its nickname.          *)
(***************************************************************************)
EXTENDS Naturals, Sequences, FiniteSets, SequencesExt

CONSTANTS Servers,    \* servers other than Hub and services
          Users,      \* UIDs; each connects at most once
          Names,      \* nicknames
          LongNames,  \* those of NICKLEN characters
          Hub, Me,    \* the uplink and services
          Nowhere,    \* no server, no user
          MaxWire,    \* what the network adds to the wire stops at this length
          MaxEvents   \* bound on what happens on the network

VARIABLES
  parent,   \* the network: what each server is linked to
  at,       \* the network: each user's server and nickname
  fresh,    \* users who have not connected yet
  wire,     \* messages from Hub to services
  link,     \* "down", "burst", "up"
  known,    \* services: Client.servptr of each server, or Nowhere
  hidden,   \* services: jupes beneath a server of the network of the same name
  session,  \* services: each user's servptr and name, or Absent
  jupes,    \* rows of the table jupes
  unset,    \* those whose setter is NULL, the account having been dropped
  cut,      \* history: servers services exited of their own accord
  astray,   \* history: users a KILL or a nickname parted the two sides over
  crossed,  \* history: jupes added while the SQUIT of the name was under way
  events

vars == <<parent, at, fresh, wire, link, known, hidden, session, jupes, unset, cut,
          astray, crossed, events>>
network == <<parent, at, fresh>>
services == <<known, hidden, session>>

None == [s \in Servers |-> Nowhere]
Absent == [server |-> Nowhere, name |-> Nowhere]
Nobody == [u \in Users |-> Absent]

\* A set of servers that has what each of them is linked to.
Upward(t, S) == \A x \in S : t[x] \in Servers => t[x] \in S
\* The servers of tree t that s is reached through, s itself among them: the
\* smallest such set that s is in.
Path(t, s) ==
  {p \in Servers : \A S \in SUBSET Servers : {s} \cap Servers \subseteq S /\ Upward(t, S) => p \in S}
\* The servers behind s, and s.
Behind(t, s) == {x \in Servers : t[x] # Nowhere /\ s \in Path(t, x)}
Linked == {s \in Servers : parent[s] \notin {Nowhere, Me}}
Online == {u \in Users : at[u] # Absent}
Wearer(w, n) == {u \in Users : w[u].name = n}

Without(t, S) == [s \in Servers |-> IF s \in S THEN Nowhere ELSE t[s]]
Emptied(w, S) == [u \in Users |-> IF w[u].server \in S THEN Absent ELSE w[u]]

-----------------------------------------------------------------------------
(* The network.  Nothing is sent to services while they are not linked. *)

Send(m) == wire' = IF link = "down" THEN wire ELSE Append(wire, m)
Event == events < MaxEvents /\ Len(wire) < MaxWire /\ events' = events + 1

Link(s, p) ==
  /\ Event
  /\ parent[s] = Nowhere /\ p \in Linked \cup {Hub}
  /\ parent' = [parent EXCEPT ![s] = p]
  /\ Send(<<"sid", p, s>>)
  /\ UNCHANGED <<at, fresh, link, services, jupes, unset, cut, astray, crossed>>

\* A server splits, or an operator squits a jupe.
Split(s) ==
  /\ Event
  /\ parent[s] # Nowhere
  /\ parent' = Without(parent, Behind(parent, s))
  /\ at' = Emptied(at, Behind(parent, s))
  /\ Send(<<"squit", s>>)
  /\ UNCHANGED <<fresh, link, services, jupes, unset, cut, astray, crossed>>

UserConnect(u, s, n) ==
  /\ Event
  /\ u \in fresh /\ s \in Linked \cup {Hub} /\ Wearer(at, n) = {}
  /\ fresh' = fresh \ {u}
  /\ at' = [at EXCEPT ![u] = [server |-> s, name |-> n]]
  /\ Send(<<"uid", s, u, n>>)
  /\ UNCHANGED <<parent, link, services, jupes, unset, cut, astray, crossed>>

UserNick(u, n) ==
  /\ Event
  /\ u \in Online /\ Wearer(at, n) = {}
  /\ at' = [at EXCEPT ![u].name = n]
  /\ Send(<<"nick", u, n>>)
  /\ UNCHANGED <<parent, fresh, link, services, jupes, unset, cut, astray, crossed>>

UserQuit(u) ==
  /\ Event
  /\ u \in Online
  /\ at' = [at EXCEPT ![u] = Absent]
  /\ Send(<<"quit", u>>)
  /\ UNCHANGED <<parent, fresh, link, services, jupes, unset, cut, astray, crossed>>

-----------------------------------------------------------------------------
(* Services come up, and go down with all they know; the rows stay. *)

\* The orders in which Hub may introduce servers: each after its own uplink.
Orders ==
  {o \in Bijection(1..Cardinality(Linked), Linked) :
     \A i \in DOMAIN o : parent[o[i]] # Hub => \E j \in 1..(i - 1) : o[j] = parent[o[i]]}

Burst(sids, uids) ==
  [i \in DOMAIN sids |-> <<"sid", parent[sids[i]], sids[i]>>]
  \o [i \in DOMAIN uids |-> <<"uid", at[uids[i]].server, uids[i], at[uids[i]].name>>]
  \o << <<"eob">> >>

Start ==
  /\ link = "down"
  /\ link' = "burst"
  /\ \E sids \in Orders, uids \in Bijection(1..Cardinality(Online), Online) :
       wire' = Burst(sids, uids)
  /\ UNCHANGED <<network, services, jupes, unset, cut, astray, crossed, events>>

\* The link is closed; Hub drops every server services had introduced.
Fallen ==
  /\ link' = "down" /\ wire' = <<>>
  /\ known' = None /\ hidden' = {} /\ session' = Nobody
  /\ cut' = {} /\ astray' = {} /\ crossed' = {}
  /\ parent' = Without(parent, {s \in Servers : parent[s] = Me})

Crash == Event /\ link # "down" /\ Fallen /\ UNCHANGED <<at, fresh, jupes, unset>>

-----------------------------------------------------------------------------
(* Exits *)

\* Mutant: only the server's own users are removed, not what is behind it.
DependentsMutant(s) == {s}

\* recurse_remove_clients: the servers that go with s.
Dependents(s) == Behind(known, s)

\* Mutant: os_on_quit forgets the row of a jupe.
OnQuitMutant(s) == UNCHANGED <<jupes, unset>>

\* os_on_quit, which exit_client runs for s alone and not for what is behind it.
OnQuit(s) ==
  IF known[s] = Me
  THEN jupes' = jupes \ {s} /\ unset' = unset \ {s}
  ELSE UNCHANGED <<jupes, unset>>

\* hash_del_client, hash_del_id: a jupe beneath an exited server of its name is
\* found again by that name.
Unhash(S) ==
  /\ known' = [x \in Servers |-> IF x \notin S THEN known[x]
                                 ELSE IF x \in hidden THEN Me ELSE Nowhere]
  /\ hidden' = hidden \ S

ExitServer(s) ==
  /\ Unhash(Dependents(s))
  /\ session' = Emptied(session, Dependents(s))
  /\ OnQuit(s)

\* jupe_list: row_to_jupe does not survive a setter that is NULL.
Readable == unset = {}
\* jupe_find, which reads one row.
Found(s) == s \in jupes

\* Services put the names S to Hub as servers: it closes the link over one
\* that is linked already.
Introduce(S, rows) ==
  IF \E s \in S : parent[s] # Nowhere
  THEN Fallen /\ jupes' = rows
  ELSE /\ known' = [s \in Servers |-> IF s \in S THEN Me ELSE known[s]]
       /\ parent' = [s \in Servers |-> IF s \in S THEN Me ELSE parent[s]]
       /\ crossed' = crossed \cup {s \in S : <<"squit", s>> \in ToSet(wire)}
       /\ jupes' = rows
       /\ UNCHANGED <<hidden, session, cut, astray>>

-----------------------------------------------------------------------------
(* Messages from Hub *)

Heads(kind) == link # "down" /\ wire # <<>> /\ Head(wire)[1] = kind
Take == wire' = Tail(wire)
Knows(s) == s \in {Hub} \cup {x \in Servers : known[x] # Nowhere}
\* A prefix parse takes: known, and behind the uplink.
Prefix(s) == s \in {Hub} \cup {x \in Servers : known[x] \notin {Nowhere, Me}}

\* m_sid, which does not look for the name; parse drops a message of a prefix
\* it does not know or that is a jupe.
RecvSid ==
  /\ Heads("sid")
  /\ Take
  /\ LET p == Head(wire)[2]  s == Head(wire)[3]
     IN  IF Prefix(p)
         THEN /\ known' = [known EXCEPT ![s] = p]
              /\ hidden' = IF known[s] = Me THEN hidden \cup {s} ELSE hidden
              /\ cut' = cut \ {s}
         ELSE UNCHANGED <<known, hidden, cut>>
  /\ UNCHANGED <<network, link, session, jupes, unset, astray, crossed, events>>

\* Mutant: m_squit exits nothing but what is linked to the uplink itself.
RecvSquitMutant ==
  /\ Heads("squit")
  /\ Take
  /\ LET s == Head(wire)[2]
     IN  IF known[s] \in {Hub, Me} THEN ExitServer(s) ELSE UNCHANGED <<services, jupes, unset>>
  /\ UNCHANGED <<network, link, cut, astray, crossed, events>>

\* m_squit
RecvSquit ==
  /\ Heads("squit")
  /\ Take
  /\ LET s == Head(wire)[2]
     IN  IF Knows(s) THEN ExitServer(s) ELSE UNCHANGED <<services, jupes, unset>>
  /\ UNCHANGED <<network, link, cut, astray, crossed, events>>

\* check_clean_nick: a nickname of NICKLEN characters does not fit nick[NICKLEN].
CleanNick(n) == n \notin LongNames
\* register_remote_user: the server is looked up again, by its name.
RegisterRemoteUser(s, n) == [server |-> s, name |-> n]
ClientFromServer(u, s, n) == session' = [session EXCEPT ![u] = RegisterRemoteUser(s, n)]
\* nick_from_server
NickFromServer(u, n) == session' = [session EXCEPT ![u].name = n]

\* m_uid: over a nickname that is not clean check_clean_nick exits the source of
\* the message, the user's server.
RecvUid ==
  /\ Heads("uid")
  /\ Take
  /\ LET s == Head(wire)[2]  u == Head(wire)[3]  n == Head(wire)[4]
     IN  \/ /\ Prefix(s) /\ CleanNick(n) /\ Wearer(session, n) = {}
            /\ ClientFromServer(u, s, n)
            /\ UNCHANGED <<known, hidden, jupes, unset, cut, astray>>
         \/ /\ Prefix(s) /\ CleanNick(n) /\ Wearer(session, n) # {}
            /\ astray' = astray \cup {u}
            /\ UNCHANGED <<services, jupes, unset, cut>>
         \/ /\ s = Hub /\ ~CleanNick(n)
            /\ astray' = astray \cup {u}
            /\ UNCHANGED <<services, jupes, unset, cut>>
         \/ /\ s # Hub /\ Prefix(s) /\ ~CleanNick(n)
            /\ ExitServer(s)
            /\ cut' = cut \cup {s}
            /\ UNCHANGED astray
         \/ /\ ~Prefix(s)
            /\ UNCHANGED <<services, jupes, unset, cut, astray>>
  /\ UNCHANGED <<network, link, crossed, events>>

\* m_nick: one of NICKLEN characters exits the user; one that is taken is ignored.
RecvNick ==
  /\ Heads("nick")
  /\ Take
  /\ LET u == Head(wire)[2]  n == Head(wire)[3]
     IN  \/ /\ session[u] # Absent /\ ~CleanNick(n)
            /\ session' = [session EXCEPT ![u] = Absent]
            /\ astray' = astray \cup {u}
         \/ /\ session[u] # Absent /\ CleanNick(n)
            /\ Wearer(session, n) \subseteq {u}
            /\ NickFromServer(u, n)
            /\ UNCHANGED astray
         \/ /\ session[u] # Absent /\ CleanNick(n)
            /\ ~(Wearer(session, n) \subseteq {u})
            /\ astray' = astray \cup {u}
            /\ UNCHANGED session
         \/ /\ session[u] = Absent
            /\ UNCHANGED <<session, astray>>
  /\ UNCHANGED <<network, link, known, hidden, jupes, unset, cut, crossed, events>>

\* m_quit
RecvQuit ==
  /\ Heads("quit")
  /\ Take
  /\ session' = [session EXCEPT ![Head(wire)[2]] = Absent]
  /\ UNCHANGED <<network, link, known, hidden, jupes, unset, cut, astray, crossed, events>>

\* Mutant: the row of a name that is a server is kept, and put to Hub again.
RecvEobMutant ==
  /\ Heads("eob")
  /\ IF ~Readable
     THEN Fallen /\ UNCHANGED jupes
     ELSE /\ Introduce(jupes, jupes)
          /\ link' = (IF \E s \in jupes : parent[s] # Nowhere THEN "down" ELSE "up")
          /\ wire' = (IF \E s \in jupes : parent[s] # Nowhere THEN <<>> ELSE Tail(wire))
  /\ UNCHANGED <<at, fresh, unset, events>>

\* m_eob and os_on_burst_done: the row of a name that is a server is deleted,
\* the others are introduced.
RecvEob ==
  /\ Heads("eob")
  /\ LET rest == {s \in jupes : known[s] = Nowhere}
         clash == \E s \in rest : parent[s] # Nowhere
     IN  IF ~Readable
         THEN Fallen /\ UNCHANGED jupes
         ELSE /\ Introduce(rest, rest)
              /\ link' = (IF clash THEN "down" ELSE "up")
              /\ wire' = (IF clash THEN <<>> ELSE Tail(wire))
  /\ UNCHANGED <<at, fresh, unset, events>>

Receive == RecvSid \/ RecvSquit \/ RecvUid \/ RecvNick \/ RecvQuit \/ RecvEob

-----------------------------------------------------------------------------
(* Commands, which users of an established link send *)

\* JUPE ADD: refused if there is a row (reading one without a setter kills
\* services) or a server of the name.
JupeAdd(s) ==
  /\ link = "up" /\ events < MaxEvents /\ events' = events + 1
  /\ known[s] = Nowhere
  /\ \/ ~Found(s) /\ Introduce({s}, jupes \cup {s})
        /\ IF parent[s] # Nowhere THEN TRUE ELSE UNCHANGED <<link, wire>>
     \/ Found(s) /\ s \in unset /\ Fallen /\ UNCHANGED jupes
  /\ UNCHANGED <<at, fresh, unset>>

\* squit_server; Hub ignores a name it does not know.
SquitServer(s) == parent' = [parent EXCEPT ![s] = IF @ = Me THEN Nowhere ELSE @]

\* JUPE DEL: squit_server, then exit_client.
JupeDel(s) ==
  /\ link = "up" /\ known[s] = Me
  /\ SquitServer(s)
  /\ ExitServer(s)
  /\ UNCHANGED <<at, fresh, wire, link, cut, astray, crossed, events>>

\* send_kill names the victim as services know it; Hub kills who wears the name.
KillUser(u) ==
  /\ link = "up" /\ events < MaxEvents /\ events' = events + 1
  /\ session[u] # Absent
  /\ LET hit == Wearer(at, session[u].name)
     IN  /\ at' = [v \in Users |-> IF v \in hit THEN Absent ELSE at[v]]
         /\ astray' = IF hit \subseteq {u} /\ (at[u] = Absent \/ u \in hit)
                      THEN astray ELSE astray \cup hit \cup {u}
  /\ session' = [session EXCEPT ![u] = Absent]
  /\ UNCHANGED <<parent, fresh, wire, link, known, hidden, jupes, unset, cut, crossed>>

\* DROP of the account that set the jupe: ON DELETE SET NULL.
SetterGone(s) ==
  /\ link = "up" /\ events < MaxEvents /\ events' = events + 1
  /\ s \in jupes \ unset
  /\ unset' = unset \cup {s}
  /\ UNCHANGED <<network, wire, link, services, jupes, cut, astray, crossed>>

\* JUPE LIST reads every row.
JupeList == link = "up" /\ ~Readable /\ Fallen /\ UNCHANGED <<at, fresh, jupes, unset, events>>

-----------------------------------------------------------------------------
Init ==
  /\ parent = None /\ at = Nobody /\ fresh = Users
  /\ wire = <<>> /\ link = "down"
  /\ known = None /\ hidden = {} /\ session = Nobody
  /\ jupes = {} /\ unset = {}
  /\ cut = {} /\ astray = {} /\ crossed = {}
  /\ events = 0

Next ==
  \/ \E s \in Servers : Split(s) \/ JupeAdd(s) \/ JupeDel(s) \/ SetterGone(s)
  \/ \E s \in Servers, p \in Servers \cup {Hub} : Link(s, p)
  \/ \E u \in Users, s \in Servers \cup {Hub}, n \in Names : UserConnect(u, s, n)
  \/ \E u \in Users, n \in Names : UserNick(u, n)
  \/ \E u \in Users : UserQuit(u) \/ KillUser(u)
  \/ Start \/ Crash \/ JupeList
  \/ RecvSid \/ RecvSquit \/ RecvUid \/ RecvNick \/ RecvQuit \/ RecvEob

\* Services are restarted by crond, and read what the uplink sends.
Fairness == WF_vars(Start) /\ WF_vars(Receive)
Spec == Init /\ [][Next]_vars /\ Fairness

-----------------------------------------------------------------------------
\* The tables are of their types and sound: no server or user hangs from a
\* server services have exited (exit_client, recurse_remove_clients).
TypeOK ==
  /\ parent \in [Servers -> Servers \cup {Hub, Me, Nowhere}]
  /\ known \in [Servers -> Servers \cup {Hub, Me, Nowhere}]
  /\ link \in {"down", "burst", "up"}
  /\ unset \subseteq jupes /\ jupes \subseteq Servers
  /\ \A s \in Servers : known[s] \in Servers => known[known[s]] \notin {Nowhere, Me}
  /\ \A u \in Users : session[u] # Absent =>
       Knows(session[u].server) /\ session[u].name \in Names
  /\ \A n \in Names : Cardinality(Wearer(session, n)) <= 1

\* While services are linked, the rows of jupes are the servers of their own:
\* JUPE LIST shows what is juped, and a restart jupes it again (jupe.c,
\* os_on_quit, os_on_burst_done).
JupesStand == link = "up" => jupes = {s \in Servers : known[s] = Me} \cup hidden

\* Once the wire is empty services know the servers, users, nicknames and
\* jupes there are, but for those behind a server they cut off themselves,
\* users a KILL by nickname or an unfit nickname parted them over, and jupes
\* added again while their SQUIT was under way.
ViewAgrees ==
  link = "up" /\ wire = <<>> =>
    /\ \A s \in Servers \ crossed :
         known[s] = parent[s] \/ (known[s] = Nowhere /\ Path(parent, s) \cap cut # {})
    /\ \A u \in Users \ astray :
         \/ session[u] = at[u]
         \/ session[u] = Absent /\ at[u] # Absent /\ Path(parent, at[u].server) \cap cut # {}

\* Services that are down come up again: a row whose name has become a server
\* does not stand in the way for ever.  It does if the server goes unnoticed,
\* cut off in the burst over a nickname of NICKLEN characters, and a jupe that
\* has lost its setter kills services in every burst.
Barred == unset # {} \/ \E u \in Online : at[u].name \in LongNames
ComesUp == link = "down" ~> (link = "up" \/ Barred)
=============================================================================
