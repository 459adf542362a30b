----------------------------- MODULE OperAccess -----------------------------
(***************************************************************************)
(* Who may do what: Client.access of every session, which handle_services_ *)
(* command compares with a command's level.  It follows from two things    *)
(* that arrive separately, the operator mode (a MODE of the uplink) and    *)
(* the account (IDENTIFY, a nickname change), and from the admin flag of   *)
(* the account's row, of which each session has a copy.                    *)
(* set_user_mode of src/client.c, identify_user of src/interface.c, ADMIN  *)
(* of modules/operserv.c, and what else assigns to access.                 *)
(***************************************************************************)
EXTENDS Naturals

CONSTANTS
  Sessions,
  Accounts,
  Nicks, Owner,    \* [Nicks -> Accounts \cup {None}]
  None             \* no account: NULL

VARIABLES
  name,       \* the nickname each session wears
  oper,       \* IsOper
  service,    \* umode P: services of other servers
  acct,       \* Client.nickname: the account, or None
  cached,     \* its admin flag in Client.nickname
  access,     \* Client.access
  admin,      \* account.flag_admin
  moving,     \* history: identified for a nickname still to be changed to
  untold      \* history: sessions that were not told that their account's flag was taken

vars == <<name, oper, service, acct, cached, access, admin, moving, untold>>

\* include/msg.h
USER == 0
IDENTIFIED == 1
OPER == 2
ADMIN == 3

TypeOK ==
  /\ name \in [Sessions -> Nicks] /\ oper \in [Sessions -> BOOLEAN] /\ service \in [Sessions -> BOOLEAN]
  /\ acct \in [Sessions -> Accounts \cup {None}] /\ cached \in [Sessions -> BOOLEAN]
  /\ access \in [Sessions -> USER..ADMIN]
  /\ admin \in [Accounts -> BOOLEAN] /\ moving \cup untold \subseteq Sessions

\* One account has been made administrator in the database, as INSTALL says.
Init ==
  /\ name \in {w \in [Sessions -> Nicks] : \A s, t \in Sessions : w[s] = w[t] => s = t}
  /\ oper = [s \in Sessions |-> FALSE] /\ service = [s \in Sessions |-> FALSE]
  /\ acct = [s \in Sessions |-> None] /\ cached = [s \in Sessions |-> FALSE]
  /\ access = [s \in Sessions |-> USER]
  /\ \E a \in Accounts : admin = [b \in Accounts |-> b = a]
  /\ moving = {} /\ untold = {}

-----------------------------------------------------------------------------
\* What an identified session with the admin flag f may do.
Rank(s, f) == IF ~oper[s] THEN IDENTIFIED ELSE IF f THEN ADMIN ELSE OPER

\* identify_user
IdentifyUser(s, a) ==
  /\ acct' = [acct EXCEPT ![s] = a]
  /\ cached' = [cached EXCEPT ![s] = admin[a]]
  /\ access' = [access EXCEPT ![s] = Rank(s, admin[a])]
  /\ moving' = moving \ {s} /\ untold' = untold \ {s}

\* What a nickname change and DROP leave.
Forget(s) ==
  /\ acct' = [acct EXCEPT ![s] = None]
  /\ cached' = [cached EXCEPT ![s] = FALSE]
  /\ access' = [access EXCEPT ![s] = USER]
  /\ moving' = moving \ {s} /\ untold' = untold \ {s}

\* IDENTIFY without a nickname, or CERT and access list
Identify(s) ==
  /\ Owner[name[s]] # None
  /\ IdentifyUser(s, Owner[name[s]])
  /\ UNCHANGED <<name, oper, service, admin>>

\* IDENTIFY for another nickname: access is left as it is until services have
\* changed the nickname (handle_nick_change).
IdentifyAs(s, n) ==
  /\ n # name[s] /\ Owner[n] # None
  /\ acct' = [acct EXCEPT ![s] = Owner[n]]
  /\ cached' = [cached EXCEPT ![s] = admin[Owner[n]]]
  /\ moving' = moving \cup {s} /\ untold' = untold \ {s}
  /\ UNCHANGED <<name, oper, service, access, admin>>

\* ns_on_nick_change: a nickname of the same account identifies again.
NickChange(s, n) ==
  /\ n \notin {name[t] : t \in Sessions}
  /\ name' = [name EXCEPT ![s] = n]
  /\ IF acct[s] # None /\ acct[s] = Owner[n] THEN IdentifyUser(s, acct[s])
     ELSE IF acct[s] # None THEN Forget(s)
     ELSE UNCHANGED <<acct, cached, access, moving, untold>>
  /\ UNCHANGED <<oper, service, admin>>

-----------------------------------------------------------------------------
(* set_user_mode, one letter at a time *)

SetOper(s) ==
  /\ ~oper[s] /\ oper' = [oper EXCEPT ![s] = TRUE]
  /\ access' = [access EXCEPT ![s] = IF acct[s] = None THEN @ ELSE IF cached[s] THEN ADMIN ELSE OPER]
  /\ UNCHANGED <<name, service, acct, cached, admin, moving, untold>>

\* Mutant: the access of an operator who is identified is kept.
ClearOperMutant(s) ==
  /\ oper[s] /\ oper' = [oper EXCEPT ![s] = FALSE]
  /\ access' = [access EXCEPT ![s] = IF acct[s] = None THEN USER ELSE @]
  /\ UNCHANGED <<name, service, acct, cached, admin, moving, untold>>

ClearOper(s) ==
  /\ oper[s] /\ oper' = [oper EXCEPT ![s] = FALSE]
  /\ access' = [access EXCEPT ![s] = IF acct[s] = None THEN USER ELSE IDENTIFIED]
  /\ UNCHANGED <<name, service, acct, cached, admin, moving, untold>>

\* +P and -P
SetService(s, on) ==
  /\ service' = [service EXCEPT ![s] = on]
  /\ access' = [access EXCEPT ![s] = IF on THEN ADMIN ELSE USER]
  /\ UNCHANGED <<name, oper, acct, cached, admin, moving, untold>>

\* QUIT; another user takes the session's place.
Quit(s) ==
  /\ Forget(s)
  /\ oper' = [oper EXCEPT ![s] = FALSE]
  /\ service' = [service EXCEPT ![s] = FALSE]
  /\ UNCHANGED <<name, admin>>

-----------------------------------------------------------------------------
(* Commands of administrators; the session that wears the nickname is told, *)
(* whatever account it is identified for.                                   *)

Target(n) == {t \in Sessions : name[t] = n /\ acct[t] # None}
Untold(as) == {t \in Sessions : acct[t] \in as /\ cached[t]}

\* m_admin_add
AdminAdd(s, n) ==
  LET changed == {Owner[n]} \cup {acct[t] : t \in Target(n)}
  IN  /\ access[s] >= ADMIN
      /\ Owner[n] # None
      /\ admin' = [a \in Accounts |-> a \in changed \/ admin[a]]
      /\ cached' = [t \in Sessions |-> t \in Target(n) \/ cached[t]]
      /\ access' = [t \in Sessions |-> IF t \in Target(n) THEN Rank(t, TRUE) ELSE access[t]]
      /\ untold' = {t \in untold : acct[t] \notin changed}
      /\ UNCHANGED <<name, oper, service, acct, moving>>

\* Mutant: the session is demoted, its copy of the account is not.
AdminDelMutant(s, n) ==
  LET changed == {Owner[n]} \cup {acct[t] : t \in Target(n)}
  IN  /\ access[s] >= ADMIN
      /\ Owner[n] # None /\ admin[Owner[n]]
      /\ admin' = [a \in Accounts |-> admin[a] /\ a \notin changed]
      /\ access' = [t \in Sessions |-> IF t \in Target(n) THEN Rank(t, FALSE) ELSE access[t]]
      /\ untold' = (untold \cup Untold(changed)) \ Target(n)
      /\ UNCHANGED <<name, oper, service, acct, cached, moving>>

\* m_admin_del
AdminDel(s, n) ==
  LET changed == {Owner[n]} \cup {acct[t] : t \in Target(n)}
  IN  /\ access[s] >= ADMIN
      /\ Owner[n] # None /\ admin[Owner[n]]
      /\ admin' = [a \in Accounts |-> admin[a] /\ a \notin changed]
      /\ cached' = [t \in Sessions |-> t \notin Target(n) /\ cached[t]]
      /\ access' = [t \in Sessions |-> IF t \in Target(n) THEN Rank(t, FALSE) ELSE access[t]]
      /\ untold' = (untold \cup Untold(changed)) \ Target(n)
      /\ UNCHANGED <<name, oper, service, acct, moving>>

\* SUDO of ChanServ and GroupServ ends with ADMIN; that of NickServ puts back
\* what was there.
Sudo(s) ==
  /\ access[s] >= ADMIN
  /\ access' = [access EXCEPT ![s] = ADMIN]
  /\ UNCHANGED <<name, oper, service, acct, cached, admin, moving, untold>>

\* m_drop, of one's own nickname or through DROPNICK: who wears the nickname is
\* logged out, whatever account it is identified for; the account's other
\* sessions are not.
DropNick(s, n) ==
  LET out == {t \in Sessions : name[t] = n}
  IN  /\ Owner[n] # None
      /\ (n = name[s] /\ acct[s] = Owner[n]) \/ access[s] >= ADMIN
      /\ admin' = [admin EXCEPT ![Owner[n]] = FALSE]
      /\ acct' = [t \in Sessions |-> IF t \in out THEN None ELSE acct[t]]
      /\ cached' = [t \in Sessions |-> t \notin out /\ cached[t]]
      /\ access' = [t \in Sessions |-> IF t \in out THEN USER ELSE access[t]]
      /\ moving' = moving \ out
      /\ untold' = (untold \cup Untold({Owner[n]})) \ out
      /\ UNCHANGED <<name, oper, service>>

Next ==
  \E s \in Sessions :
    \/ Identify(s) \/ Quit(s) \/ SetOper(s) \/ ClearOper(s) \/ Sudo(s)
    \/ \E on \in BOOLEAN : SetService(s, on)
    \/ \E n \in Nicks : IdentifyAs(s, n) \/ NickChange(s, n) \/ AdminAdd(s, n) \/ AdminDel(s, n)
                     \/ DropNick(s, n)

Spec == Init /\ [][Next]_vars

-----------------------------------------------------------------------------
\* No session has the access of an operator unless it has both the operator
\* mode and an account, in whatever order they came and went; only services
\* have it without.  (set_user_mode, identify_user, ns_on_nick_change, m_drop)
OperHasGrounds ==
  \A s \in Sessions : access[s] >= OPER => service[s] \/ (oper[s] /\ acct[s] # None)

\* A session with the access of an administrator has an account that says so,
\* unless it is about to change its nickname to one of another account; and its
\* copy of the account says so only if the row does, unless the flag was taken
\* under a nickname the session does not wear.
\* (m_admin_add, m_admin_del, identify_user, handle_nick_change, m_drop)
AdminHasGrounds ==
  \A s \in Sessions :
    /\ access[s] = ADMIN => service[s] \/ cached[s] \/ s \in moving
    /\ cached[s] => admin[acct[s]] \/ s \in untold

\* Nobody has access above a user's without grounds for it, in whatever order
\* modes, accounts, flags and nicknames were gained and lost.
AccessHasGrounds == TypeOK /\ OperHasGrounds /\ AdminHasGrounds
=============================================================================
