----------------------------- MODULE Disclosure -----------------------------
(***************************************************************************)
(* What services tell, and whom: INFO, LIST and the lists of access of      *)
(* NickServ, ChanServ and GroupServ, over accounts, channels and groups     *)
(* that their owners may have set PRIVATE, and SUDO, which lets an          *)
(* administrator ask as somebody else.  A handler replies and changes       *)
(* nothing: it is an operator, from the client's record as the handler      *)
(* finds it to the set of facts it sends.  What anybody is told of what he  *)
(* named himself (times, options, masters, homepages) is left out.          *)
(***************************************************************************)
EXTENDS Naturals, FiniteSets

CONSTANTS
  Sessions, Wears,      \* [Sessions -> Nicks]
  Nicks, Owner,         \* registered nicknames; [Nicks -> Accounts]
  Accounts, Admins,     \* Admins: accounts with flag_admin
  Chans, Groups,
  BadNicks, BadChans,   \* names that operators forbid; none of them is registered
  None,                 \* NULL
  ListMax               \* the 50 of the three m_list

VARIABLES
  oper,        \* IsOper
  acct,        \* Client.nickname: the account, or None
  access,      \* Client.access
  private,     \* flag_private of accounts, channels and groups
  rights,      \* channel_access: [Chans -> [Accounts \cup Groups -> level]]
  member,      \* group_access: [Groups -> [Accounts -> level]]
  forbidden    \* forbidden_nickname and forbidden_channel

vars == <<oper, acct, access, private, rights, member, forbidden>>

\* include/msg.h
USER == 0
IDENTIFIED == 1
OPER == 2
ADMIN == 3
SUDO == 4
MEMBER == 2
MASTER == 4
GRPMEMBER == 2
GRPMASTER == 3

Holders == Accounts \cup Groups

\* Access lists as AccessLists keeps them: a channel and a group have a master.
Init ==
  /\ oper = [s \in Sessions |-> FALSE]
  /\ acct = [s \in Sessions |-> None]
  /\ access = [s \in Sessions |-> USER]
  /\ private \in SUBSET (Chans \cup Groups) /\ forbidden \in {{}, BadNicks \cup BadChans}
  /\ rights \in [Chans -> {r \in [Holders -> {0, MEMBER, MASTER}] : \E h \in Holders : r[h] = MASTER}]
  /\ member \in [Groups -> {m \in [Accounts -> {0, GRPMEMBER, GRPMASTER}] :
                                                 \E a \in Accounts : m[a] = GRPMASTER}]

TypeOK ==
  /\ oper \in [Sessions -> BOOLEAN] /\ acct \in [Sessions -> Accounts \cup {None}]
  /\ access \in [Sessions -> USER..SUDO]
  /\ private \subseteq Holders \cup Chans /\ forbidden \subseteq BadNicks \cup BadChans

-----------------------------------------------------------------------------
(* The client as a handler finds it.                                       *)

Rank(a, op) == IF a = None THEN USER ELSE IF ~op THEN IDENTIFIED
               ELSE IF a \in Admins THEN ADMIN ELSE OPER

Self(s) == [acct |-> acct[s], access |-> access[s], oper |-> oper[s]]

\* NickServ's SUDO: the account and its access, while the command runs
SudoNick(s, a) ==
  [acct |-> a, access |-> IF a \in Admins THEN ADMIN ELSE IDENTIFIED, oper |-> oper[s]]

\* that of ChanServ and GroupServ
SudoOver(s) == [Self(s) EXCEPT !.access = SUDO]

\* GET_CHAN_ACCESS: the highest entry of the account and of its groups
LevelOf(ch, a) ==
  LET entries == {rights[ch][h] : h \in {a} \cup {g \in Groups : member[g][a] # 0}}
  IN  CHOOSE l \in entries : \A k \in entries : k <= l

\* chanaccess_find and groupaccess_find in the INFO commands
ChanLevel(c, ch) == IF c.acct = None THEN 0 ELSE LevelOf(ch, c.acct)
GroupLevel(c, g) == IF c.acct = None THEN 0 ELSE member[g][c.acct]

\* handle_services_command for SFLG_CHANARG and SFLG_GROUPARG
MayOnChan(c, ch, level) ==
  level <= IF c.acct # None /\ c.access = SUDO THEN MASTER ELSE ChanLevel(c, ch)
MayOnGroup(c, g, level) ==
  level <= IF c.acct # None /\ c.access = SUDO THEN GRPMASTER ELSE GroupLevel(c, g)

-----------------------------------------------------------------------------
(* The replies.                                                            *)

LinksOf(n) == {m \in Nicks \ {n} : Owner[m] = Owner[n]}

\* find_client(link) that is identified
InUse(m) == \E t \in Sessions : Wears[t] = m /\ acct[t] # None

\* Mutant: operators' and the owner's share goes to whoever is identified.
OwnMutant(c, a) == c.acct # None \/ c.access >= OPER

\* whose settings INFO of NickServ shows
Own(c, a) == c.acct = a \/ c.access >= OPER

\* nickname_chan_list and nickname_group_list, and group_chan_list
ChansOf(h) == {<<"chan", ch>> : ch \in {k \in Chans : rights[k][h] # 0}}
GroupsOf(a) == {<<"group", g>> : g \in {k \in Groups : member[k][a] # 0}}

\* Mutant: PRIVATE is forgotten.
EmailForAllMutant(a) == {<<"email", a>>}

EmailForAll(a) == IF a \in private THEN {} ELSE {<<"email", a>>}

\* m_info of NickServ.  Everybody learns that a linked nickname is in use.
NickInfo(c, n) ==
  LET a == Owner[n]
  IN  {<<"link", m>> : m \in {k \in LinksOf(n) : InUse(k)}}
      \cup IF Own(c, a)
           THEN {<<"email", a>>, <<"settings", a>>} \cup {<<"link", m>> : m \in LinksOf(n)}
                \cup GroupsOf(a) \cup ChansOf(a)
           ELSE EmailForAll(a)

\* m_access_list, m_cert_list and m_ajoin_list of NickServ
OwnLists(c) == IF c.access < IDENTIFIED THEN {} ELSE {<<"settings", c.acct>>}

\* Mutant: members only of what concerns operators.
ForMembersMutant(c, level) == TRUE

\* what INFO keeps for members and operators
ForMembers(c, level) == c.oper \/ level >= MEMBER

\* m_info of ChanServ
ChanInfo(c, ch) ==
  (IF ForMembers(c, ChanLevel(c, ch)) THEN {<<"inside", ch>>} ELSE {})
  \cup {<<"holder", ch, h>> : h \in {k \in Holders : rights[ch][k] = MASTER}}

\* Mutant: accounts only, as chanaccess_list leaves it when the second query fails.
ChanAccessMutant(ch) == {<<"holder", ch, a>> : a \in {k \in Accounts : rights[ch][k] # 0}}

\* m_access_list of ChanServ, for anybody
ChanAccess(ch) == {<<"holder", ch, h>> : h \in {k \in Holders : rights[ch][k] # 0}}

\* m_info of GroupServ, row_to_group and group_chan_list
GroupInfo(c, g) ==
  (IF ForMembers(c, GroupLevel(c, g)) THEN {<<"inside", g>>} \cup ChansOf(g) ELSE {})
  \cup {<<"holder", g, a>> : a \in {k \in Accounts : member[g][k] = GRPMASTER}}

\* m_access_list of GroupServ, for anybody
GroupAccess(g) == {<<"holder", g, a>> : a \in {k \in Accounts : member[g][k] # 0}}

\* The three m_list stop after ListMax names.
FirstOf(kind, names) ==
  {{<<kind, n>> : n \in some} : some \in
     {x \in SUBSET names : Cardinality(x) = ListMax \/ (x = names /\ Cardinality(x) < ListMax)}}

\* Mutant: LIST with FORBID for everybody
WhichMutant(c, forbid, all, regular, bad) == IF forbid /\ bad # {} THEN bad ELSE regular

\* Operators may ask for what is forbidden, and get everything if nothing is;
\* for others the option is ignored.
Which(c, forbid, all, regular, bad) ==
  IF c.access < OPER THEN regular ELSE IF forbid /\ bad # {} THEN bad ELSE all

\* GET_NICKS, GET_CHANNELS and GET_GROUPS
Public(all) == {x \in all : x \notin private}

\* m_list of NickServ, ChanServ and GroupServ; the last takes no option
NickList(c, forbid) ==
  FirstOf("nick", Which(c, forbid, Nicks, {n \in Nicks : Owner[n] \notin private}, forbidden \cap BadNicks))
ChanList(c, forbid) ==
  FirstOf("chan", Which(c, forbid, Chans, Public(Chans), forbidden \cap BadChans))
GroupList(c) == FirstOf("group", IF c.access >= OPER THEN Groups ELSE Public(Groups))

\* Every fact that a command can tell the client c
Told(c) ==
  UNION ({NickInfo(c, n) : n \in Nicks} \cup {OwnLists(c)}
         \cup {ChanInfo(c, ch) : ch \in Chans} \cup {ChanAccess(ch) : ch \in Chans}
         \cup {GroupInfo(c, g) : g \in Groups} \cup {GroupAccess(g) : g \in Groups}
         \cup NickList(c, TRUE) \cup NickList(c, FALSE)
         \cup ChanList(c, TRUE) \cup ChanList(c, FALSE) \cup GroupList(c))

-----------------------------------------------------------------------------
(* The steps.                                                              *)

\* identify_user, for the nickname the session wears
Identify(s) ==
  /\ acct' = [acct EXCEPT ![s] = Owner[Wears[s]]]
  /\ access' = [access EXCEPT ![s] = Rank(Owner[Wears[s]], oper[s])]
  /\ UNCHANGED <<oper, private, rights, member, forbidden>>

\* ns_on_nick_change, to a guest's nickname and back
Leave(s) ==
  /\ acct' = [acct EXCEPT ![s] = None]
  /\ access' = [access EXCEPT ![s] = USER]
  /\ UNCHANGED <<oper, private, rights, member, forbidden>>

\* set_user_mode
OperMode(s, on) ==
  /\ oper' = [oper EXCEPT ![s] = on]
  /\ access' = [access EXCEPT ![s] = Rank(acct[s], on)]
  /\ UNCHANGED <<acct, private, rights, member, forbidden>>

\* SET PRIVATE by the client c: m_set_flag of the three services
SetPrivate(c, x) ==
  /\ \/ x \in Accounts /\ x = c.acct /\ c.access >= IDENTIFIED
     \/ x \in Chans /\ MayOnChan(c, x, MASTER)
     \/ x \in Groups /\ MayOnGroup(c, x, GRPMASTER)
  /\ private' \in {private \cup {x}, private \ {x}}
  /\ UNCHANGED <<oper, rights, member, forbidden>>

SetOwn(s, x) == SetPrivate(Self(s), x) /\ UNCHANGED <<acct, access>>

\* Mutant: the account is put back, the access is not.
NickSudoMutant(s, a, x) ==
  /\ access[s] >= ADMIN
  /\ SetPrivate(SudoNick(s, a), x)
  /\ access' = [access EXCEPT ![s] = SudoNick(s, a).access]
  /\ UNCHANGED acct

\* m_sudo of NickServ with a SET: nickname and access are put back.
NickSudo(s, a, x) ==
  /\ access[s] >= ADMIN
  /\ SetPrivate(SudoNick(s, a), x)
  /\ UNCHANGED <<acct, access>>

\* Mutant: the access stays.
OverSudoMutant(s, x) ==
  /\ access[s] >= ADMIN
  /\ SetPrivate(SudoOver(s), x)
  /\ access' = [access EXCEPT ![s] = SUDO]
  /\ UNCHANGED acct

\* m_sudo of ChanServ and GroupServ
OverSudo(s, x) ==
  /\ access[s] >= ADMIN
  /\ SetPrivate(SudoOver(s), x)
  /\ access' = [access EXCEPT ![s] = ADMIN]
  /\ UNCHANGED acct

Next ==
  \E s \in Sessions :
    \/ Identify(s) \/ Leave(s)
    \/ \E on \in BOOLEAN : OperMode(s, on)
    \/ \E x \in Holders \cup Chans : SetOwn(s, x) \/ \E a \in Accounts : NickSudo(s, a, x)
    \/ \E x \in Chans \cup Groups : OverSudo(s, x)

-----------------------------------------------------------------------------
(* Properties.                                                             *)

Within(s, ch) == acct[s] # None /\ LevelOf(ch, acct[s]) >= MEMBER
Inside(s, g) == acct[s] # None /\ member[g][acct[s]] >= GRPMEMBER

\* Who the session really is and what it may know.  A PRIVATE account keeps its
\* e-mail address and its nicknames, a PRIVATE channel and group its name from
\* those who have no right on it; a group that a channel lists is known.
MayKnow(s, f) ==
  \/ oper[s]
  \/ f[1] = "email" /\ (f[2] \notin private \/ f[2] = acct[s])
  \/ f[1] = "settings" /\ f[2] = acct[s]
  \/ f[1] = "link" /\ (Owner[f[2]] = acct[s] \/ InUse(f[2]))
  \/ f[1] = "nick" /\ f[2] \in Nicks /\ (Owner[f[2]] \notin private \/ Owner[f[2]] = acct[s])
  \/ f[1] = "chan" /\ f[2] \in Chans /\ (f[2] \notin private \/ Within(s, f[2]))
  \/ f[1] = "group" /\ (f[2] \notin private \/ Inside(s, f[2]))
  \/ f[1] = "inside" /\ (IF f[2] \in Chans THEN Within(s, f[2]) ELSE Inside(s, f[2]))
  \/ f[1] = "holder"

\* Nobody is told what he has no grounds to know, whichever command he asks, and
\* with SUDO an administrator is told nothing he could not ask as himself
\* (m_info, m_list and m_access_list of the three services, with their queries).
PrivateIsKept ==
  \A s \in Sessions :
    /\ \A f \in Told(Self(s)) : MayKnow(s, f)
    /\ access[s] >= ADMIN =>
         \A c \in {SudoNick(s, a) : a \in Accounts} \cup {SudoOver(s)} :
           \A f \in Told(c) : MayKnow(s, f)

\* Who has a right on a channel can be found: he is on its ACCESS LIST, or on
\* that of a group there; and its INFO names a master (chanaccess_list).
ListsTellAll ==
  \A ch \in Chans :
    /\ \A a \in Accounts :
         LevelOf(ch, a) >= MEMBER =>
           \/ <<"holder", ch, a>> \in ChanAccess(ch)
           \/ \E g \in Groups : <<"holder", ch, g>> \in ChanAccess(ch)
                             /\ <<"holder", g, a>> \in GroupAccess(g)
    /\ \A s \in Sessions : \E h \in Holders : <<"holder", ch, h>> \in ChanInfo(Self(s), ch)

\* No right that SUDO lent outlives the command (the three m_sudo).
SudoIsOver == \A s \in Sessions : access[s] = Rank(acct[s], oper[s])

\* What services tell keeps to what users keep private.
TellsRightly == TypeOK /\ PrivateIsKept /\ ListsTellAll /\ SudoIsOver
=============================================================================
