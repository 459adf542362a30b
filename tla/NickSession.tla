----------------------------- MODULE NickSession -----------------------------
(***************************************************************************)
(* Nickname protection in NickServ.  A user on somebody else's nickname is *)
(* put on nick_enforce_list, later asked to change (SVSNICK), and when the *)
(* change comes back a client of services, the enforcer, takes the         *)
(* nickname and is put on nick_release_list.  IDENTIFY with a name and     *)
(* REGAIN take a nickname back from an enforcer or from the user on it.    *)
(*                                                                         *)
(* Services and the server they are linked to do not agree at every        *)
(* moment: what services send is in "out" until the server handles it.     *)
(* What the server sends is handled at once (a later handling is the same  *)
(* as a later event), so that "nick" is what services know and "real" what *)
(* the server knows.  A client structure that was freed may be used again, *)
(* so a client is identified with its structure.                           *)
(***************************************************************************)
EXTENDS Integers, FiniteSets, Sequences, Functions

CONSTANTS
  Users,        \* structures of remote users
  Enforcers,    \* structures of services' own clients that hold a nickname
  Nicks,        \* nicknames that are registered at the start
  Guests,       \* "Guest<n>", the nicknames of guest_user
  Protected,    \* nicknames with SET ENFORCE
  Account,      \* the account a nickname belongs to
  Off,          \* the nickname of a structure that is not in use
  NoOne,        \* the NULL client and the NULL nickname
  OperForbids,  \* whether operators use FORBID and UNFORBID
  MaxOut,       \* bound on the messages under way to the server
  MaxEntries    \* bound on the entries a list has for one client structure

Wearers == Users \cup Enforcers
Names   == Nicks \cup Guests

ASSUME SessionAssumption ==
  /\ Users \cap Enforcers = {} /\ Nicks \cap Guests = {}
  /\ Protected \subseteq Nicks
  /\ DOMAIN Account = Nicks
  /\ Off \notin Names /\ NoOne \notin Wearers \cup Names \cup {Off}
  /\ OperForbids \in BOOLEAN
  /\ MaxOut \in Nat /\ MaxEntries \in Nat

VARIABLES
  real,          \* the nickname of a client at the server
  nick,          \* client->name: its nickname as services know it
  status,        \* of a nickname: "registered", "forbidden" or "free"
  session,       \* client->nickname: the nickname the user identified for
  identified,    \* the users with umode +R
  enforce,       \* FLAGS_ENFORCE: asked to change, the change not seen yet
  enforce_list,  \* how often a client is on nick_enforce_list
  release_list,  \* how often a client is on nick_release_list
  release_to,    \* client->release_to: who gets the nickname of this client
  release_name,  \* client->release_name: the nickname it will get
  killing,       \* the clients that are on the kill list
  out,           \* messages under way to the server
  aborted        \* a freed client was taken off a list: undefined from here on

vars == <<real, nick, status, session, identified, enforce, enforce_list,
          release_list, release_to, release_name, killing, out, aborted>>

SvsNick(c, n)    == [type |-> "SVSNICK", client |-> c, name |-> n]
Introduce(c, n)  == [type |-> "UID", client |-> c, name |-> n]
Remove(c)        == [type |-> "QUIT", client |-> c, name |-> Off]

\* What services send for NickServ: users are asked to change, and clients of
\* services come and go.
Message ==
  [type : {"SVSNICK"}, client : Users, name : Names] \cup
  [type : {"UID"}, client : Enforcers, name : Names] \cup
  [type : {"QUIT"}, client : Wearers, name : {Off}]

Init ==
  /\ real = [c \in Wearers |-> Off]
  /\ nick = [c \in Wearers |-> Off]
  /\ status = [n \in Nicks |-> "registered"]
  /\ session = [u \in Users |-> NoOne]
  /\ identified = {}
  /\ enforce = {}
  /\ enforce_list = [c \in Wearers |-> 0]
  /\ release_list = [c \in Wearers |-> 0]
  /\ release_to = [u \in Users |-> NoOne]
  /\ release_name = [u \in Users |-> NoOne]
  /\ killing = {}
  /\ out = <<>>
  /\ aborted = FALSE

-----------------------------------------------------------------------------

Live(c) == nick[c] # Off

Registered(n) == n \in Nicks /\ status[n] = "registered"
Forbidden(n)  == n \in Nicks /\ status[n] = "forbidden"

\* find_client(n), in a given view of the nicknames.
Holders(view, n) == {c \in Wearers : view[c] = n}

\* dlinkFindDelete removes one entry of a client, if there is one.
Unlisted(list, c) == [list EXCEPT ![c] = IF @ = 0 THEN 0 ELSE @ - 1]

\* make_client and exit_one_client leave nothing of the old client behind in
\* the structure, but neither looks for it on NickServ's lists.
Cleared(f, u) == IF u \in Users THEN [f EXCEPT ![u] = NoOne] ELSE f

\* Mutant: nobody takes the user off nick_enforce_list.
ExitKeepsListed(c) ==
  /\ nick' = [nick EXCEPT ![c] = Off]
  /\ session' = Cleared(session, c)
  /\ release_to' = Cleared(release_to, c)
  /\ release_name' = Cleared(release_name, c)
  /\ identified' = identified \ {c}
  /\ enforce' = enforce \ {c}
  /\ killing' = killing \ {c}
  /\ UNCHANGED enforce_list

\* Mutant: exit_one_client does not call kill_remove_client.
ExitKeepsKill(c) ==
  /\ nick' = [nick EXCEPT ![c] = Off]
  /\ session' = Cleared(session, c)
  /\ release_to' = Cleared(release_to, c)
  /\ release_name' = Cleared(release_name, c)
  /\ identified' = identified \ {c}
  /\ enforce' = enforce \ {c}
  /\ enforce_list' = IF c \in Users THEN Unlisted(enforce_list, c) ELSE enforce_list
  /\ UNCHANGED killing

\* exit_client(c): on_quit runs for remote users only, and ns_on_quit takes
\* them off nick_enforce_list once; an enforcer is taken off no list here.
Exit(c) ==
  /\ nick' = [nick EXCEPT ![c] = Off]
  /\ session' = Cleared(session, c)
  /\ release_to' = Cleared(release_to, c)
  /\ release_name' = Cleared(release_name, c)
  /\ identified' = identified \ {c}
  /\ enforce' = enforce \ {c}
  /\ killing' = killing \ {c}
  /\ enforce_list' = IF c \in Users THEN Unlisted(enforce_list, c) ELSE enforce_list

\* guest_user: the counter never gives the same guest nickname twice.
GuestNames ==
  {g \in Guests : Holders(nick, g) = {} /\ \A i \in DOMAIN out : out[i].name # g}

-----------------------------------------------------------------------------
(* A user appears under a nickname, or changes to it.                      *)

\* What NickServ decides of a user u on nickname n: forbidden nicknames are
\* enforced, unregistered ones are anybody's, and a registered one is given
\* to its account, to whom the access list or certificate recognises, or
\* enforced if its owner wants that.  acc is the account u was identified for.
Verdicts(u, n, acc) ==
  IF Forbidden(n) THEN {"enforce"}
  ELSE IF ~Registered(n) THEN {"free"}
  ELSE IF acc = Account[n] THEN {"identify"}
  ELSE {"identify", "ask"} \cup (IF n \in Protected THEN {"enforce"} ELSE {})

\* ns_on_newuser; the structure is a new one.
OnNewUser(u, n) ==
  /\ nick' = [nick EXCEPT ![u] = n]
  /\ \E v \in Verdicts(u, n, NoOne) :
       /\ session' = [session EXCEPT ![u] = IF v = "identify" THEN n ELSE NoOne]
       /\ identified' = IF v = "identify" THEN identified \cup {u} ELSE identified
       /\ enforce_list' = IF v = "enforce" THEN [enforce_list EXCEPT ![u] = @ + 1]
                                           ELSE enforce_list
  /\ UNCHANGED <<status, enforce, release_list, release_to, release_name,
                 killing, out, aborted>>

\* The client that release_to names.  A structure that is not in use any more
\* is freed memory: it may by now hold the name of anyone, or of no one.
ReleaseTargets(u) ==
  IF release_to[u] = NoOne THEN {NoOne}
  ELSE IF Live(release_to[u]) THEN {release_to[u]}
  ELSE {c \in Users \ {u} : Live(c)} \cup {NoOne}

\* The enforcer that takes the nickname u gives up, if u was enforced.
Takers(u) ==
  IF u \in enforce THEN {f \in Enforcers : ~Live(f) /\ release_list[f] < MaxEntries} ELSE {NoOne}

\* The nicknames once u has changed to n and e has taken the one u had.
Renamed(u, n, e) ==
  LET named == [nick EXCEPT ![u] = n]
  IN  IF e = NoOne THEN named ELSE [named EXCEPT ![e] = nick[u]]

\* The waiting client c gets the nickname if it has identified for one; who
\* has it in this view, or the one c has identified for, is killed.
Granted(c)         == c # NoOne /\ session[c] # NoOne
Known(c)           == IF Granted(c) THEN identified \cup {c} ELSE identified
Wanted(u, c, view) ==
  IF c = NoOne THEN {}
  ELSE Holders(view, IF Granted(c) THEN session[c] ELSE release_name[u]) \ {c}

\* ns_on_nick_change, for a user that changed from nick[u] to n: an enforcer e
\* takes the old nickname if u was enforced, the waiting client c gets it if
\* u was asked to give it up, and then u is judged on the new nickname.  What
\* services send goes behind "queue".
OnNickChange(u, n, queue) ==
  \E e \in Takers(u), c \in ReleaseTargets(u) :
    /\ nick' = Renamed(u, n, e)
    /\ release_list' = IF e = NoOne THEN release_list ELSE [release_list EXCEPT ![e] = @ + 1]
    /\ enforce' = enforce \ {u}
    /\ killing' = killing \cup Wanted(u, c, Renamed(u, n, e))
    /\ out' = queue \o (IF e = NoOne THEN <<>> ELSE <<Introduce(e, nick[u])>>)
                    \o (IF Granted(c) THEN <<SvsNick(c, release_name[u])>> ELSE <<>>)
    /\ release_to' = IF Granted(c) THEN [release_to EXCEPT ![u] = NoOne] ELSE release_to
    /\ release_name' = IF Granted(c) THEN [release_name EXCEPT ![u] = NoOne] ELSE release_name
    /\ \E v \in Verdicts(u, n, IF u \in Known(c) /\ session[u] # NoOne THEN Account[session[u]] ELSE NoOne) :
         /\ session' = [session EXCEPT ![u] =
                          IF v = "identify" THEN n
                          ELSE IF v = "free" \/ u \in Known(c) THEN NoOne ELSE @]
         /\ identified' = IF v = "identify" THEN Known(c) \cup {u} ELSE Known(c) \ {u}
         /\ enforce_list' = IF v = "enforce" THEN [Unlisted(enforce_list, u) EXCEPT ![u] = @ + 1]
                                             ELSE Unlisted(enforce_list, u)
    /\ UNCHANGED <<status, aborted>>

\* m_nick: a change to a nickname that another client has, as services know
\* it, is not handled at all; nor is a change of a client they do not know.
NickMessage(u, n, queue) ==
  IF Live(u) /\ Holders(nick, n) = {}
    THEN OnNickChange(u, n, queue)
    ELSE /\ out' = queue
         /\ UNCHANGED <<nick, status, session, identified, enforce, enforce_list,
                        release_list, release_to, release_name, killing, aborted>>

\* Mutant: m_uid does not ask the hash table for the nickname.
ConnectUnchecked(u, n) ==
  /\ real[u] = Off /\ ~Live(u)
  /\ \A i \in DOMAIN out : out[i].client # u
  /\ Holders(real, n) = {}
  /\ real' = [real EXCEPT ![u] = n]
  /\ OnNewUser(u, n)

\* A user connects to the network; m_uid ignores it when services have
\* another client of that name.
Connect(u, n) ==
  /\ real[u] = Off /\ ~Live(u)
  /\ \A i \in DOMAIN out : out[i].client # u
  /\ Holders(real, n) = {}
  /\ real' = [real EXCEPT ![u] = n]
  /\ IF Holders(nick, n) = {}
       THEN OnNewUser(u, n)
       ELSE UNCHANGED <<nick, status, session, identified, enforce, enforce_list,
                        release_list, release_to, release_name, killing, out, aborted>>

\* The user changes nickname by itself.
UserNick(u, n) ==
  /\ real[u] # Off
  /\ Len(out) < MaxOut
  /\ Holders(real, n) = {}
  /\ real' = [real EXCEPT ![u] = n]
  /\ NickMessage(u, n, out)

Quit(u) ==
  /\ real[u] # Off
  /\ real' = [real EXCEPT ![u] = Off]
  /\ IF Live(u) THEN Exit(u)
     ELSE UNCHANGED <<nick, session, release_to, release_name, identified, enforce,
                      killing, enforce_list>>
  /\ UNCHANGED <<status, release_list, out, aborted>>

-----------------------------------------------------------------------------
(* Commands to NickServ.                                                   *)

\* IDENTIFY for the nickname the user is on.
Identify(u) ==
  /\ Live(u)
  /\ Registered(nick[u])
  /\ session' = [session EXCEPT ![u] = nick[u]]
  /\ identified' = identified \cup {u}
  /\ enforce_list' = Unlisted(enforce_list, u)
  /\ UNCHANGED <<real, nick, status, enforce, release_list, release_to, release_name,
                 killing, out, aborted>>

\* handle_nick_change: IDENTIFY for another nickname, and REGAIN.  The user is
\* marked identified before it has the nickname.
HandleNickChange(u, n) ==
  /\ Live(u)
  /\ Registered(n) /\ nick[u] # n
  /\ Len(out) < MaxOut
  /\ \/ /\ Holders(nick, n) = {}
        /\ out' = Append(out, SvsNick(u, n))
        /\ UNCHANGED <<nick, release_list, release_to, release_name, killing>>
     \/ \E e \in Holders(nick, n) \cap Enforcers :
          /\ nick' = [nick EXCEPT ![e] = Off]
          /\ release_list' = Unlisted(release_list, e)
          /\ killing' = killing \ {e}
          /\ out' = out \o <<Remove(e), SvsNick(u, n)>>
          /\ UNCHANGED <<release_to, release_name>>
     \/ \E t \in Holders(nick, n) \cap Users, g \in GuestNames :
          /\ release_to' = [release_to EXCEPT ![t] = u]
          /\ release_name' = [release_name EXCEPT ![t] = n]
          /\ out' = Append(out, SvsNick(t, g))
          /\ UNCHANGED <<nick, release_list, killing>>
  /\ session' = [session EXCEPT ![u] = n]
  /\ identified' = identified \cup {u}
  /\ enforce_list' = Unlisted(enforce_list, u)
  /\ UNCHANGED <<real, status, enforce, aborted>>

\* m_forbid: whoever is on the nickname is put on nick_enforce_list, again if
\* it is on it already; the nickname is deleted, sessions are left alone.
Forbid(n) ==
  /\ OperForbids
  /\ status[n] # "forbidden"
  /\ \A c \in Holders(nick, n) : enforce_list[c] < MaxEntries
  /\ status' = [status EXCEPT ![n] = "forbidden"]
  /\ enforce_list' = [c \in Wearers |-> IF nick[c] = n THEN enforce_list[c] + 1
                                                     ELSE enforce_list[c]]
  /\ UNCHANGED <<real, nick, session, identified, enforce, release_list, release_to,
                 release_name, killing, out, aborted>>

\* Mutant: the entry is deleted, the enforcer stays.
UnforbidKeepsEnforcer(n) ==
  /\ OperForbids
  /\ status[n] = "forbidden"
  /\ status' = [status EXCEPT ![n] = "free"]
  /\ release_list' = [c \in Wearers |-> IF nick[c] = n /\ release_list[c] > 0
                                           THEN release_list[c] - 1 ELSE release_list[c]]
  /\ UNCHANGED <<real, nick, session, identified, enforce, enforce_list, release_to,
                 release_name, killing, out, aborted>>

\* m_unforbid: an enforcer that holds the nickname goes.
Unforbid(n) ==
  /\ OperForbids
  /\ status[n] = "forbidden"
  /\ status' = [status EXCEPT ![n] = "free"]
  /\ \/ /\ \A c \in Holders(nick, n) : release_list[c] = 0
        /\ UNCHANGED <<nick, session, release_to, release_name, identified, enforce,
                       killing, enforce_list, release_list, out>>
     \/ \E c \in Holders(nick, n) :
          /\ release_list[c] > 0
          /\ Exit(c)
          /\ release_list' = Unlisted(release_list, c)
          /\ out' = Append(out, Remove(c))
  /\ UNCHANGED <<real, aborted>>

-----------------------------------------------------------------------------
(* The timers.                                                             *)

\* Mutant: the flag is set, the change is not asked for.
ProcessEnforceSilent(c) ==
  /\ enforce_list[c] > 0
  /\ enforce_list' = [enforce_list EXCEPT ![c] = @ - 1]
  /\ IF Live(c) THEN enforce' = enforce \cup {c} /\ UNCHANGED aborted
                ELSE aborted' = TRUE /\ UNCHANGED enforce
  /\ UNCHANGED <<real, nick, status, session, identified, release_list, release_to,
                 release_name, killing, out>>

\* process_enforce_list, one entry whose time has come.
ProcessEnforce(c) ==
  /\ enforce_list[c] > 0
  /\ enforce_list' = [enforce_list EXCEPT ![c] = @ - 1]
  /\ IF ~Live(c)
       THEN /\ aborted' = TRUE
            /\ UNCHANGED <<enforce, out>>
       ELSE /\ Len(out) < MaxOut
            /\ enforce' = enforce \cup {c}
            /\ IF c \in Users THEN \E g \in GuestNames : out' = Append(out, SvsNick(c, g))
                              ELSE UNCHANGED out
            /\ UNCHANGED aborted
  /\ UNCHANGED <<real, nick, status, session, identified, release_list, release_to,
                 release_name, killing>>

\* process_release_list, one entry whose hour is over.
ProcessRelease(c) ==
  /\ release_list[c] > 0
  /\ release_list' = [release_list EXCEPT ![c] = @ - 1]
  /\ IF ~Live(c)
       THEN /\ aborted' = TRUE
            /\ UNCHANGED <<nick, session, release_to, release_name, identified,
                           enforce, killing, enforce_list, out>>
       ELSE /\ Exit(c)
            /\ out' = Append(out, Remove(c))
            /\ UNCHANGED aborted
  /\ UNCHANGED <<real, status>>

\* check_kills.
Kill(c) ==
  /\ c \in killing
  /\ Exit(c)
  /\ out' = Append(out, Remove(c))
  /\ UNCHANGED <<real, status, release_list, aborted>>

-----------------------------------------------------------------------------
(* The server handles the next message.                                    *)

NickServUnchanged ==
  UNCHANGED <<nick, status, session, identified, enforce, enforce_list, release_list,
              release_to, release_name, killing, aborted>>

\* SVSNICK is refused when the nickname is in use; otherwise the change comes
\* back as a NICK message.
DeliverSvsNick(c, n, queue) ==
  IF real[c] # Off /\ Holders(real, n) = {}
    THEN /\ real' = [real EXCEPT ![c] = n]
         /\ NickMessage(c, n, queue)
    ELSE /\ out' = queue
         /\ UNCHANGED real
         /\ NickServUnchanged

\* An enforcer whose nickname somebody has taken at the server meanwhile is
\* killed; m_kill exits it here, unless services have removed it already.
DeliverIntroduce(e, n, queue) ==
  /\ out' = queue
  /\ IF Holders(real, n) = {}
       THEN /\ real' = [real EXCEPT ![e] = n]
            /\ NickServUnchanged
       ELSE /\ UNCHANGED real
            /\ IF Remove(e) \in Range(queue)
                 THEN NickServUnchanged
                 ELSE /\ Exit(e)
                      /\ UNCHANGED <<status, release_list, aborted>>

Deliver ==
  /\ out # <<>>
  /\ LET m == Head(out) IN
     \/ m.type = "SVSNICK" /\ DeliverSvsNick(m.client, m.name, Tail(out))
     \/ m.type = "UID" /\ DeliverIntroduce(m.client, m.name, Tail(out))
     \/ /\ m.type = "QUIT"
        /\ out' = Tail(out)
        /\ real' = [real EXCEPT ![m.client] = Off]
        /\ NickServUnchanged

-----------------------------------------------------------------------------

UserStep ==
  \/ \E u \in Users, n \in Nicks : Connect(u, n) \/ UserNick(u, n) \/ HandleNickChange(u, n)
  \/ \E u \in Users : Quit(u) \/ Identify(u)

OperatorStep == \E n \in Nicks : Forbid(n) \/ Unforbid(n)

TimerStep == \E c \in Wearers : ProcessEnforce(c) \/ ProcessRelease(c) \/ Kill(c)

Next == ~aborted /\ (UserStep \/ OperatorStep \/ TimerStep \/ Deliver)

Spec == Init /\ [][Next]_vars

\* The main loop runs the two timers and check_kills for as long as there is
\* something to do, and the server handles what it is sent.
Fairness ==
  /\ WF_vars(~aborted /\ Deliver)
  /\ \A c \in Wearers : /\ SF_vars(~aborted /\ ProcessEnforce(c))
                       /\ WF_vars(~aborted /\ ProcessRelease(c))
                       /\ WF_vars(~aborted /\ Kill(c))

FairSpec == Spec /\ Fairness

-----------------------------------------------------------------------------
(* Properties.                                                             *)

\* Every variable has its type: a client structure has one nickname or none,
\* and the lists count entries.
TypeOK ==
  /\ real \in [Wearers -> Names \cup {Off}]
  /\ nick \in [Wearers -> Names \cup {Off}]
  /\ status \in [Nicks -> {"registered", "forbidden", "free"}]
  /\ session \in [Users -> Nicks \cup {NoOne}]
  /\ identified \subseteq Users
  /\ enforce \subseteq Wearers
  /\ enforce_list \in [Wearers -> Nat] /\ release_list \in [Wearers -> Nat]
  /\ release_to \in [Users -> Users \cup {NoOne}]
  /\ release_name \in [Users -> Nicks \cup {NoOne}]
  /\ killing \subseteq Wearers
  /\ out \in Seq(Message)
  /\ aborted \in BOOLEAN

\* What nick_enforce_list points at are clients that are still there: the one
\* removal that exit_client's callback makes when a user leaves is enough, as
\* long as no FORBID has listed somebody twice (a nickname that was forbidden is
\* not "registered" again).
EnforceListValid ==
  (\A n \in Nicks : status[n] = "registered") => \A c \in Wearers : enforce_list[c] > 0 => Live(c)

\* No two clients of the hash table have one nickname: introducing an enforcer
\* never shadows somebody, however services and the server disagree.
NamesUnique ==
  \A c, d \in Wearers : Live(c) /\ nick[c] = nick[d] => c = d

\* Every enforcer that holds a nickname is on nick_release_list: the nickname
\* is not held for ever.
EnforcersAreReleased ==
  \A e \in Enforcers : Live(e) => release_list[e] > 0

\* A client on nick_release_list is one of services' clients.
ReleaseListValid == \A c \in Wearers : release_list[c] > 0 => Live(c)

\* Who is on nick_enforce_list for a nickname loses it in the end, unless
\* it identifies.
EnforcementActs ==
  \A u \in Users, n \in Nicks :
    (enforce_list[u] > 0 /\ nick[u] = n /\ real[u] = n)
      ~> (real[u] # n \/ nick[u] # n \/ session[u] # NoOne \/ aborted)

Promise == INSTANCE KillPromise WITH Clients <- Wearers, live <- {c \in Wearers : Live(c)}, doomed <- killing

\* What the nickname services take for granted of kills is what the kill queue
\* promises: a client REGAIN or a release has killed stays so until it exits,
\* also when it exits as an enforcer, by a collision or by its own QUIT.
KillsAsPromised == Promise!Spec
=============================================================================
