----------------------------- MODULE AccessLists -----------------------------
(***************************************************************************)
(* Who may do what on a registered channel: the tables channel_access and  *)
(* group_access, and every command that writes them.  ChanServ and         *)
(* GroupServ edit the lists entry by entry and refuse to remove the last   *)
(* MASTER; NickServ removes or merges all the entries of an account at     *)
(* once, when its last nickname is dropped or forbidden and when it is     *)
(* linked to another account.  The hazards are between the two.            *)
(*                                                                         *)
(* An account is identified with its row: a row freed by DROP may stand    *)
(* for a new account later.  A nickname is counted, not named.             *)
(***************************************************************************)
EXTENDS Integers, FiniteSets, FiniteSetsExt

CONSTANTS
  Accounts,     \* rows of account
  Groups,       \* names of groups, with their '@'
  Chans,        \* names of channels, numbers in the order of irc_lower(channel)
  Levels,       \* the levels ACCESS ADD can give
  Sudoers,      \* accounts of administrators, who may prefix a command with SUDO
  DbErrors,     \* whether an INSERT may fail after a DELETE succeeded
  MaxNicks      \* bound on the nicknames of one account

NONE       == 0     \* no entry: CHUSER_FLAG and GRPUSER_FLAG
MEMBER     == 2
CHANOP     == 3
MASTER     == 4
GRPMEMBER  == 2
GRPMASTER  == 3

ASSUME AccessAssumption ==
  /\ IsFiniteSet(Accounts) /\ IsFiniteSet(Groups)
  /\ Accounts \cap Groups = {}
  /\ Chans \subseteq Nat /\ IsFiniteSet(Chans)
  /\ Levels \subseteq {MEMBER, CHANOP, MASTER}
  /\ Sudoers \subseteq Accounts
  /\ DbErrors \in BOOLEAN
  /\ MaxNicks \in Nat \ {0}

Holders == Accounts \cup Groups

VARIABLES
  nicks,      \* how many rows of nickname an account has, 0: no such account
  channels,   \* the rows of channel
  entry,      \* channel_access: the level of a holder on a channel
  groups,     \* the rows of "group"
  gaccess,    \* group_access: the level of an account in a group
  forbidden   \* the rows of forbidden_channel

vars == <<nicks, channels, entry, groups, gaccess, forbidden>>

NoEntries == [h \in Holders |-> NONE]
NoMembers == [a \in Accounts |-> NONE]

Init ==
  /\ nicks = [a \in Accounts |-> 0]
  /\ channels = {}
  /\ entry = [ch \in Chans |-> NoEntries]
  /\ groups = {}
  /\ gaccess = [g \in Groups |-> NoMembers]
  /\ forbidden = {}

-----------------------------------------------------------------------------
(* The queries.                                                            *)

Registered(a) == nicks[a] > 0

\* GET_CHAN_MASTER_COUNT counts the MASTER entries of accounts and groups.
Masters(ch) == {h \in Holders : entry[ch][h] = MASTER}

GroupMasters(g) == {a \in Accounts : gaccess[g][a] = GRPMASTER}

\* The holder's entry is the MASTER entry that must not go.
LastMaster(ch, h) == entry[ch][h] = MASTER /\ Cardinality(Masters(ch)) <= 1

LastGroupMaster(g, a) == gaccess[g][a] = GRPMASTER /\ Cardinality(GroupMasters(g)) <= 1

GroupsOf(a) == {g \in Groups : gaccess[g][a] # NONE}

\* GET_CHAN_ACCESS takes the highest of the account's entry and its groups'.
Effective(ch, a) == Max({entry[ch][h] : h \in {a} \cup GroupsOf(a)})

\* handle_services_command: an identified user with enough access, or SUDO.
MayOnChan(by, ch, level) ==
  Registered(by) /\ ch \in channels /\ (by \in Sudoers \/ Effective(ch, by) >= level)

MayOnGroup(by, g, level) ==
  Registered(by) /\ g \in groups /\ (by \in Sudoers \/ gaccess[g][by] >= level)

\* group_id_from_name or nickname_id_from_nick finds the target of ACCESS.
Exists(h) == IF h \in Groups THEN h \in groups ELSE Registered(h)

\* Mutant: a channel counts as the account's alone with two accounts on it.
OnlyEntryOffByOne(ch) == Cardinality({a \in Accounts : entry[ch][a] # NONE}) <= 2

\* COUNT_CHANNEL_ACCESS_LIST joins account: the entries of groups do not count.
AccountEntries(ch) == {a \in Accounts : entry[ch][a] # NONE}
OnlyEntry(ch) == Cardinality(AccountEntries(ch)) = 1

\* nickname_chan_list: the channels that have an entry of the account itself.
OwnChannels(a) == {ch \in channels : entry[ch][a] # NONE}

-----------------------------------------------------------------------------
(* NickServ.                                                               *)

\* nickname_delete: the last nickname takes the account with it, after
\* DELETE_ACCOUNT_CHACCESS and DELETE_ACCOUNT_GROUPACCESS; e is the channel
\* access as it stands when the deletion starts.
DeleteNick(a, e) ==
  /\ nicks' = [nicks EXCEPT ![a] = @ - 1]
  /\ entry' = IF nicks[a] = 1 THEN [ch \in Chans |-> [e[ch] EXCEPT ![a] = NONE]] ELSE e
  /\ gaccess' = IF nicks[a] = 1 THEN [g \in Groups |-> [gaccess[g] EXCEPT ![a] = NONE]]
                               ELSE gaccess
  /\ UNCHANGED <<groups, forbidden>>

RegisterNick(a) ==
  /\ ~Registered(a)
  /\ nicks' = [nicks EXCEPT ![a] = 1]
  /\ UNCHANGED <<channels, entry, groups, gaccess, forbidden>>

\* check_masterless_channels visits the account's channels in order.  One that
\* has no other account on its list is deleted; the first other one whose last
\* MASTER the account is stops the walk, and with it the DROP.
Blocking(a) == {ch \in OwnChannels(a) : ~OnlyEntry(ch) /\ LastMaster(ch, a)}

EmptiedBy(a) == {ch \in OwnChannels(a) : OnlyEntry(ch) /\ \A b \in Blocking(a) : ch < b}

\* dbchannel_delete of each: ON DELETE CASCADE clears its access list.
Without(gone) == [ch \in Chans |-> IF ch \in gone THEN NoEntries ELSE entry[ch]]

\* DROP by the user and DROPNICK by an operator.  The nickname stays when
\* a channel would lose its last MASTER; what the walk deleted is gone.
DropRefused(a) ==
  /\ Registered(a)
  /\ Blocking(a) # {}
  /\ channels' = channels \ EmptiedBy(a)
  /\ entry' = Without(EmptiedBy(a))
  /\ UNCHANGED <<nicks, groups, gaccess, forbidden>>

Drop(a) ==
  /\ Registered(a)
  /\ Blocking(a) = {}
  /\ channels' = channels \ EmptiedBy(a)
  /\ DeleteNick(a, Without(EmptiedBy(a)))

\* NickServ FORBID of a registered nickname deletes it without that walk.
ForbidNick(a) ==
  /\ Registered(a)
  /\ DeleteNick(a, entry)
  /\ UNCHANGED channels

\* Mutant: the child's entry goes whatever its level.
DeleteDuplicatesOfChild(e, m, c) ==
  [ch \in Chans |-> IF e[ch][m] = NONE THEN e[ch] ELSE [e[ch] EXCEPT ![c] = NONE]]

\* DELETE_DUPLICATE_CHACCESS: of two entries on one channel the lower goes,
\* the child's when they are equal.
DeleteDuplicates(e, m, c) ==
  [ch \in Chans |->
     IF e[ch][m] = NONE \/ e[ch][c] = NONE THEN e[ch]
     ELSE IF e[ch][c] <= e[ch][m] THEN [e[ch] EXCEPT ![c] = NONE]
     ELSE [e[ch] EXCEPT ![m] = NONE]]

\* MERGE_CHACCESS: what the child still has becomes the master's.
MergeAccess(e, m, c) ==
  [ch \in Chans |->
     IF e[ch][c] = NONE THEN e[ch]
     ELSE [e[ch] EXCEPT ![m] = e[ch][c], ![c] = NONE]]

\* nickname_link, for LINK and GROUP: the nicknames and the channel access of
\* account c go to account m.  The foreign key of group_access makes
\* DELETE_ACCOUNT fail, and the transaction roll back, when c is in a group.
LinkAccounts(m, c) ==
  /\ m # c /\ Registered(m) /\ Registered(c)
  /\ nicks[m] + nicks[c] <= MaxNicks
  /\ GroupsOf(c) = {}
  /\ nicks' = [nicks EXCEPT ![m] = nicks[m] + nicks[c], ![c] = 0]
  /\ entry' = MergeAccess(DeleteDuplicates(entry, m, c), m, c)
  /\ UNCHANGED <<channels, groups, gaccess, forbidden>>

-----------------------------------------------------------------------------
(* ChanServ.                                                               *)

\* m_register and dbchannel_register: the founder gets the first MASTER entry.
ChanRegister(by, ch) ==
  /\ Registered(by)
  /\ ch \notin channels \cup forbidden
  /\ channels' = channels \cup {ch}
  /\ entry' = [entry EXCEPT ![ch][by] = MASTER]
  /\ UNCHANGED <<nicks, groups, gaccess, forbidden>>

ChanDrop(by, ch) ==
  /\ MayOnChan(by, ch, MASTER)
  /\ channels' = channels \ {ch}
  /\ entry' = Without({ch})
  /\ UNCHANGED <<nicks, groups, gaccess, forbidden>>

\* dbchannel_forbid, one transaction; a second FORBID fails on the primary key.
ChanForbid(ch) ==
  /\ ch \notin forbidden
  /\ channels' = channels \ {ch}
  /\ entry' = Without({ch})
  /\ forbidden' = forbidden \cup {ch}
  /\ UNCHANGED <<nicks, groups, gaccess>>

ChanUnforbid(ch) ==
  /\ ch \in forbidden
  /\ forbidden' = forbidden \ {ch}
  /\ UNCHANGED <<nicks, channels, entry, groups, gaccess>>

\* Mutant: the last MASTER can be given a lower level.
AccessAddDemotes(by, ch, h, level) ==
  /\ MayOnChan(by, ch, MASTER)
  /\ Exists(h)
  /\ entry' = [entry EXCEPT ![ch][h] = level]
  /\ UNCHANGED <<nicks, channels, groups, gaccess, forbidden>>

\* m_access_add removes the old entry and then inserts the new one, without a
\* transaction: when the INSERT fails the holder is left with no entry.
AccessAdd(by, ch, h, level) ==
  /\ MayOnChan(by, ch, MASTER)
  /\ Exists(h)
  /\ entry[ch][h] # level
  /\ ~LastMaster(ch, h)
  /\ \/ entry' = [entry EXCEPT ![ch][h] = level]
     \/ /\ DbErrors
        /\ entry' = [entry EXCEPT ![ch][h] = NONE]
  /\ UNCHANGED <<nicks, channels, groups, gaccess, forbidden>>

\* m_access_del: removing another account asks for MASTER.
AccessDel(by, ch, h) ==
  /\ MayOnChan(by, ch, MEMBER)
  /\ entry[ch][h] # NONE
  /\ h \in Groups \cup {by} \/ MayOnChan(by, ch, MASTER)
  /\ ~LastMaster(ch, h)
  /\ entry' = [entry EXCEPT ![ch][h] = NONE]
  /\ UNCHANGED <<nicks, channels, groups, gaccess, forbidden>>

-----------------------------------------------------------------------------
(* GroupServ.                                                              *)

GroupRegister(by, g) ==
  /\ Registered(by)
  /\ g \notin groups
  /\ groups' = groups \cup {g}
  /\ gaccess' = [gaccess EXCEPT ![g][by] = GRPMASTER]
  /\ UNCHANGED <<nicks, channels, entry, forbidden>>

\* Mutant: a group goes although a channel lists it.
GroupDropListed(by, g) ==
  /\ MayOnGroup(by, g, GRPMASTER)
  /\ groups' = groups \ {g}
  /\ gaccess' = [gaccess EXCEPT ![g] = NoMembers]
  /\ UNCHANGED <<nicks, channels, entry, forbidden>>

\* group_delete fails on the foreign key while a channel lists the group.
GroupDrop(by, g) ==
  /\ MayOnGroup(by, g, GRPMASTER)
  /\ \A ch \in Chans : entry[ch][g] = NONE
  /\ groups' = groups \ {g}
  /\ gaccess' = [gaccess EXCEPT ![g] = NoMembers]
  /\ UNCHANGED <<nicks, channels, entry, forbidden>>

\* Mutant: the last master of a group can be given a lower level.
GroupAccessAddDemotes(by, g, a, level) ==
  /\ MayOnGroup(by, g, GRPMASTER)
  /\ Registered(a)
  /\ gaccess' = [gaccess EXCEPT ![g][a] = level]
  /\ UNCHANGED <<nicks, channels, entry, groups, forbidden>>

\* m_access_add of GroupServ, with the same gap between its two statements.
GroupAccessAdd(by, g, a, level) ==
  /\ MayOnGroup(by, g, GRPMASTER)
  /\ Registered(a)
  /\ gaccess[g][a] # level
  /\ ~LastGroupMaster(g, a)
  /\ \/ gaccess' = [gaccess EXCEPT ![g][a] = level]
     \/ /\ DbErrors
        /\ gaccess' = [gaccess EXCEPT ![g][a] = NONE]
  /\ UNCHANGED <<nicks, channels, entry, groups, forbidden>>

GroupAccessDel(by, g, a) ==
  /\ MayOnGroup(by, g, GRPMEMBER)
  /\ gaccess[g][a] # NONE
  /\ a = by \/ MayOnGroup(by, g, GRPMASTER)
  /\ ~LastGroupMaster(g, a)
  /\ gaccess' = [gaccess EXCEPT ![g][a] = NONE]
  /\ UNCHANGED <<nicks, channels, entry, groups, forbidden>>

-----------------------------------------------------------------------------

\* Every command but NickServ's FORBID.
Commands ==
  \/ \E a \in Accounts : RegisterNick(a) \/ Drop(a) \/ DropRefused(a)
  \/ \E m, c \in Accounts : LinkAccounts(m, c)
  \/ \E ch \in Chans : ChanForbid(ch) \/ ChanUnforbid(ch)
  \/ \E by \in Accounts, ch \in Chans :
       \/ ChanRegister(by, ch)
       \/ ChanDrop(by, ch)
       \/ \E h \in Holders : \/ AccessDel(by, ch, h)
                             \/ \E level \in Levels : AccessAdd(by, ch, h, level)
  \/ \E by \in Accounts, g \in Groups :
       \/ GroupRegister(by, g)
       \/ GroupDrop(by, g)
       \/ \E a \in Accounts :
            \/ GroupAccessDel(by, g, a)
            \/ \E level \in {GRPMEMBER, GRPMASTER} : GroupAccessAdd(by, g, a, level)

Next == Commands \/ \E a \in Accounts : ForbidNick(a)

Spec == Init /\ [][Next]_vars

-----------------------------------------------------------------------------
(* Properties.                                                             *)

\* The tables are well formed: a row of an access table refers to a channel
\* and a holder that exist, across every command that deletes one of them.
TypeOK ==
  /\ nicks \in [Accounts -> 0..MaxNicks]
  /\ channels \subseteq Chans
  /\ entry \in [Chans -> [Holders -> {NONE} \cup {MEMBER, CHANOP, MASTER}]]
  /\ groups \subseteq Groups
  /\ gaccess \in [Groups -> [Accounts -> {NONE, GRPMEMBER, GRPMASTER}]]
  /\ forbidden \subseteq Chans
  /\ \A ch \in Chans, h \in Holders : entry[ch][h] # NONE => ch \in channels /\ Exists(h)
  /\ \A g \in Groups, a \in Accounts : gaccess[g][a] # NONE => g \in groups /\ Registered(a)

\* A registered channel always has a MASTER entry, whatever users and
\* administrators do with the access lists, groups, drops and links, and even
\* when ACCESS ADD fails half way (the guards of m_access_add, m_access_del
\* and check_masterless_channels together; FORBID of a nickname breaks it).
ChannelsHaveMaster == \A ch \in channels : Masters(ch) # {}

\* A group loses its last master only when the account of that master is
\* deleted: the GroupServ commands themselves never do it.
GroupMastersStay ==
  [][\A g \in groups \cap groups' :
       (GroupMasters(g) # {} /\ GroupMasters(g)' = {})
         => \E a \in GroupMasters(g) : ~Registered(a)']_vars

\* LINK and GROUP merge two access lists and nobody loses by it: on every
\* channel the merged account may do what either account could do, and
\* no other account's rights change (nickname_link; an account in no group).
LinkKeepsRights ==
  [][\A m, c \in Accounts :
       LinkAccounts(m, c) =>
         \A ch \in channels :
           /\ Effective(ch, m)' = Max({Effective(ch, m), Effective(ch, c)})
           /\ \A b \in Accounts \ {m, c} : Effective(ch, b)' = Effective(ch, b)]_vars

\* DROP of a nickname, refused or not, costs nobody else anything: another
\* account keeps every channel it has an entry on, and what it may do on every
\* channel that is left (check_masterless_channels, nickname_delete).
DropSparesOthers ==
  [][\A a \in Accounts :
       (Drop(a) \/ DropRefused(a)) =>
         \A b \in Accounts \ {a}, ch \in channels :
           IF ch \in channels' THEN Effective(ch, b)' = Effective(ch, b)
                               ELSE entry[ch][b] = NONE]_vars

\* No command costs anybody a right but its giver and whom it names: groups keep
\* their masters, LINK and GROUP merge, DROP takes what was the dropped account's.
RightsAreKept == GroupMastersStay /\ LinkKeepsRights /\ DropSparesOthers
=============================================================================
