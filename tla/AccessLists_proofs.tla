-------------------------- MODULE AccessLists_proofs --------------------------
(***************************************************************************)
(* For any accounts, groups, channels and levels: the tables stay well     *)
(* formed, without nickname FORBID no registered channel loses its last    *)
(* MASTER entry, and what merging and dropping accounts costs whom.  For   *)
(* any users, masks and durations: whom an AKILL matches is checked, and   *)
(* gone.                                                                   *)
(***************************************************************************)
EXTENDS MCAccess, FiniteSetTheorems, SequenceTheorems, WellFoundedInduction, TLAPS

Level == {NONE, MEMBER, CHANOP, MASTER}

-----------------------------------------------------------------------------
(* The operators that change whole lists.                                  *)

\* A channel with a MASTER entry that is not the last one has another MASTER.
LEMMA OtherMaster ==
  ASSUME NEW ch \in Chans, NEW h \in Holders, Masters(ch) # {}, ~LastMaster(ch, h)
  PROVE  \E k \in Masters(ch) : k # h
<1>1. CASE h \notin Masters(ch)
  BY <1>1
<1>2. CASE h \in Masters(ch)
  <2>1. Cardinality(Masters(ch)) > 1
    <3>1. IsFiniteSet(Masters(ch))
      BY AccessAssumption, FS_Subset, FS_Union DEF Masters, Holders
    <3>2. Cardinality(Masters(ch)) \in Nat
      BY <3>1, FS_CardinalityType
    <3> QED BY <3>2, <1>2 DEF LastMaster, Masters
  <2>2. SUFFICES ASSUME Masters(ch) = {h} PROVE FALSE
    BY <1>2
  <2>3. Cardinality({h}) = 1
    BY FS_Singleton
  <2> QED BY <2>1, <2>2, <2>3
<1> QED BY <1>1, <1>2

\* What LINK makes of the lists: the child has no entry left, the master has
\* the higher of the two, and everyone else keeps theirs.
LEMMA MergeOutcome ==
  ASSUME NEW e \in [Chans -> [Holders -> Level]],
         NEW m \in Accounts, NEW c \in Accounts, m # c
  PROVE  LET f == MergeAccess(DeleteDuplicates(e, m, c), m, c) IN
         /\ f \in [Chans -> [Holders -> Level]]
         /\ \A ch \in Chans :
              /\ f[ch][c] = NONE
              /\ f[ch][m] = IF e[ch][c] <= e[ch][m] THEN e[ch][m] ELSE e[ch][c]
              /\ \A h \in Holders \ {m, c} : f[ch][h] = e[ch][h]
<1> DEFINE d == DeleteDuplicates(e, m, c)
           f == MergeAccess(d, m, c)
<1>1. m \in Holders /\ c \in Holders
  BY DEF Holders
<1>2. \A ch \in Chans : e[ch] \in [Holders -> Level]
  OBVIOUS
<1>3. d \in [Chans -> [Holders -> Level]]
  BY <1>1, <1>2 DEF DeleteDuplicates, Level
<1>4. \A ch \in Chans : f[ch] \in [Holders -> Level]
  BY <1>1, <1>3 DEF MergeAccess, Level
<1>5. f \in [Chans -> [Holders -> Level]]
  BY <1>4 DEF MergeAccess
<1>6. ASSUME NEW ch \in Chans
      PROVE  /\ f[ch][c] = NONE
             /\ f[ch][m] = IF e[ch][c] <= e[ch][m] THEN e[ch][m] ELSE e[ch][c]
             /\ \A h \in Holders \ {m, c} : f[ch][h] = e[ch][h]
  <2>1. e[ch][c] \in Level /\ e[ch][m] \in Level
    BY <1>1, <1>2
  <2>2. CASE e[ch][m] = NONE
    <3>1. d[ch] = e[ch]
      BY <2>2 DEF DeleteDuplicates
    <3> QED BY <1>1, <1>2, <2>1, <2>2, <3>1 DEF MergeAccess, Level, NONE, MEMBER, CHANOP, MASTER
  <2>3. CASE e[ch][c] = NONE
    <3>1. d[ch] = e[ch]
      BY <2>3 DEF DeleteDuplicates
    <3> QED BY <1>1, <1>2, <2>1, <2>3, <3>1 DEF MergeAccess, Level, NONE, MEMBER, CHANOP, MASTER
  <2>4. CASE e[ch][m] # NONE /\ e[ch][c] # NONE /\ e[ch][c] <= e[ch][m]
    <3>1. d[ch] = [e[ch] EXCEPT ![c] = NONE]
      BY <2>4 DEF DeleteDuplicates
    <3> QED BY <1>1, <1>2, <2>1, <2>4, <3>1 DEF MergeAccess
  <2>5. CASE e[ch][m] # NONE /\ e[ch][c] # NONE /\ ~(e[ch][c] <= e[ch][m])
    <3>1. d[ch] = [e[ch] EXCEPT ![m] = NONE]
      BY <2>5 DEF DeleteDuplicates
    <3> QED BY <1>1, <1>2, <2>1, <2>5, <3>1 DEF MergeAccess
  <2> QED BY <2>2, <2>3, <2>4, <2>5
<1> QED BY <1>5, <1>6
-----------------------------------------------------------------------------
(* The tables stay well formed.                                            *)

\* What the invariants need to know of the constants, without the definitions.
LEMMA HolderFacts ==
  /\ Accounts \subseteq Holders /\ Groups \subseteq Holders
  /\ \A h \in Holders : h \in Groups <=> h \notin Accounts
  /\ Levels \subseteq Level /\ NONE \in Level /\ MASTER \in Level /\ MASTER # NONE
BY AccessAssumption DEF Holders, Level, NONE, MEMBER, CHANOP, MASTER

\* Deleting a nickname keeps the tables well formed, from lists e in which some
\* channels have been emptied (DROP and FORBID of a nickname).
LEMMA DeleteNickTypes ==
  ASSUME TypeOK, NEW a \in Accounts, Registered(a),
         NEW gone \in SUBSET Chans, channels' = channels \ gone,
         DeleteNick(a, Without(gone))
  PROVE  TypeOK'
<1> USE HolderFacts
<1> DEFINE e == Without(gone)
<1>1. nicks' \in [Accounts -> 0..MaxNicks]
  BY AccessAssumption DEF TypeOK, DeleteNick, Registered
<1>2. e \in [Chans -> [Holders -> Level]]
  BY DEF TypeOK, Without, NoEntries, Level
<1>3. entry' \in [Chans -> [Holders -> Level]]
  <2>1. ASSUME NEW ch \in Chans PROVE [e[ch] EXCEPT ![a] = NONE] \in [Holders -> Level]
    BY <1>2
  <2> QED BY <1>2, <2>1 DEF DeleteNick
<1>4. gaccess' \in [Groups -> [Accounts -> {NONE, GRPMEMBER, GRPMASTER}]]
  <2>1. ASSUME NEW g \in Groups
        PROVE  [gaccess[g] EXCEPT ![a] = NONE] \in [Accounts -> {NONE, GRPMEMBER, GRPMASTER}]
    BY DEF TypeOK
  <2> QED BY <2>1 DEF TypeOK, DeleteNick
<1>5. \A b \in Accounts : b # a \/ nicks[a] # 1 => (Registered(b) => Registered(b)')
  BY <1>1 DEF TypeOK, DeleteNick, Registered
<1>6. ASSUME NEW ch \in Chans, NEW h \in Holders, entry'[ch][h] # NONE
      PROVE  ch \in channels' /\ Exists(h)'
  <2>1. e[ch][h] # NONE /\ (nicks[a] = 1 => h # a)
    BY <1>2, <1>6 DEF DeleteNick
  <2>2. ch \notin gone /\ entry[ch][h] # NONE
    BY <2>1 DEF Without, NoEntries
  <2>3. ch \in channels /\ Exists(h)
    BY <2>2 DEF TypeOK
  <2>4. CASE h \in Groups
    BY <2>2, <2>3, <2>4 DEF Exists, DeleteNick
  <2>5. CASE h \in Accounts
    BY <2>1, <2>2, <2>3, <2>5, <1>5 DEF Exists
  <2> QED BY <2>4, <2>5 DEF Holders
<1>7. ASSUME NEW g \in Groups, NEW b \in Accounts, gaccess'[g][b] # NONE
      PROVE  g \in groups' /\ Registered(b)'
  <2>1. gaccess[g][b] # NONE /\ (nicks[a] = 1 => b # a)
    BY <1>7 DEF DeleteNick, TypeOK
  <2> QED BY <2>1, <1>5 DEF TypeOK, DeleteNick
<1> QED
  BY <1>1, <1>3, <1>4, <1>6, <1>7 DEF TypeOK, DeleteNick, Level

\* Deleting channels with their lists keeps the tables well formed.
LEMMA DropChannelsTypes ==
  ASSUME TypeOK, NEW gone \in SUBSET Chans,
         channels' = channels \ gone, entry' = Without(gone),
         forbidden' \subseteq Chans, UNCHANGED <<nicks, groups, gaccess>>
  PROVE  TypeOK'
<1>1. entry' \in [Chans -> [Holders -> Level]]
  BY HolderFacts DEF TypeOK, Without, NoEntries, Level
<1>2. \A ch \in Chans, h \in Holders : entry'[ch][h] # NONE => ch \notin gone /\ entry[ch][h] # NONE
  BY DEF Without, NoEntries
<1> QED
  BY <1>1, <1>2 DEF TypeOK, Level, Exists, Registered

\* Changing one entry of one channel, to a level for a holder that exists.
LEMMA SetEntryTypes ==
  ASSUME TypeOK, NEW ch \in Chans, NEW h \in Holders, NEW level \in Level,
         entry' = [entry EXCEPT ![ch][h] = level],
         level # NONE => ch \in channels' /\ Exists(h),
         channels \subseteq channels', channels' \subseteq Chans,
         UNCHANGED <<nicks, groups, gaccess, forbidden>>
  PROVE  TypeOK'
<1>1. entry' \in [Chans -> [Holders -> Level]]
  BY DEF TypeOK, Level
<1>2. \A k \in Chans, j \in Holders :
        entry'[k][j] # NONE => (k = ch /\ j = h /\ level # NONE) \/ entry[k][j] # NONE
  BY DEF TypeOK
<1> QED
  BY <1>1, <1>2 DEF TypeOK, Level, Exists, Registered

\* Changing one membership of one group, for an account that exists.
LEMMA SetMemberTypes ==
  ASSUME TypeOK, NEW g \in Groups, NEW a \in Accounts,
         NEW level \in {NONE, GRPMEMBER, GRPMASTER},
         gaccess' = [gaccess EXCEPT ![g][a] = level],
         level # NONE => g \in groups' /\ Registered(a),
         groups \subseteq groups', groups' \subseteq Groups,
         UNCHANGED <<nicks, channels, entry, forbidden>>
  PROVE  TypeOK'
<1>1. gaccess' \in [Groups -> [Accounts -> {NONE, GRPMEMBER, GRPMASTER}]]
  BY DEF TypeOK
<1>2. \A k \in Groups, b \in Accounts :
        gaccess'[k][b] # NONE => (k = g /\ b = a /\ level # NONE) \/ gaccess[k][b] # NONE
  BY DEF TypeOK
<1> QED
  BY <1>1, <1>2 DEF TypeOK, Exists, Registered

LEMMA InitTables == Init => TypeOK
BY AccessAssumption DEF Init, TypeOK, NoEntries, NoMembers

\* One step.
LEMMA TablesStay ==
  ASSUME TypeOK, [Next]_vars
  PROVE  TypeOK'
<1> USE HolderFacts
<1>1. ASSUME NEW a \in Accounts, RegisterNick(a) PROVE TypeOK'
  <2>1. \A b \in Accounts : Registered(b) => Registered(b)'
    BY <1>1 DEF RegisterNick, Registered, TypeOK
  <2>2. nicks' \in [Accounts -> 0..MaxNicks]
    BY <1>1, AccessAssumption DEF RegisterNick, TypeOK
  <2> QED BY <1>1, <2>1, <2>2 DEF RegisterNick, TypeOK, Exists, Holders
<1>2. ASSUME NEW a \in Accounts, Drop(a) PROVE TypeOK'
  <2>1. EmptiedBy(a) \subseteq Chans
    BY DEF EmptiedBy, OwnChannels, TypeOK
  <2> QED BY <1>2, <2>1, DeleteNickTypes DEF Drop
<1>3. ASSUME NEW a \in Accounts, DropRefused(a) PROVE TypeOK'
  <2>1. EmptiedBy(a) \subseteq Chans
    BY DEF EmptiedBy, OwnChannels, TypeOK
  <2> QED BY <1>3, <2>1, DropChannelsTypes DEF DropRefused, TypeOK
<1>4. ASSUME NEW a \in Accounts, ForbidNick(a) PROVE TypeOK'
  <2>1. Without({}) = entry
    BY DEF Without, TypeOK
  <2>2. channels' = channels \ {} /\ DeleteNick(a, Without({}))
    BY <1>4, <2>1 DEF ForbidNick
  <2> HIDE DEF Without
  <2> QED BY <1>4, <2>2, DeleteNickTypes DEF ForbidNick
<1>5. ASSUME NEW m \in Accounts, NEW c \in Accounts, LinkAccounts(m, c) PROVE TypeOK'
  <2> DEFINE f == MergeAccess(DeleteDuplicates(entry, m, c), m, c)
  <2>1. entry \in [Chans -> [Holders -> Level]] /\ m # c /\ entry' = f
    BY <1>5 DEF LinkAccounts, TypeOK, Level
  <2>2. /\ entry' \in [Chans -> [Holders -> Level]]
        /\ \A ch \in Chans :
             /\ entry'[ch][c] = NONE
             /\ entry'[ch][m] = IF entry[ch][c] <= entry[ch][m] THEN entry[ch][m] ELSE entry[ch][c]
             /\ \A h \in Holders \ {m, c} : entry'[ch][h] = entry[ch][h]
    BY <2>1, MergeOutcome
  <2>3. nicks' \in [Accounts -> 0..MaxNicks]
    BY <1>5, AccessAssumption DEF LinkAccounts, TypeOK
  <2>4. Registered(m) /\ Registered(m)' /\ Registered(c)
    BY <1>5, <2>3 DEF LinkAccounts, TypeOK, Registered
  <2>5. \A b \in Accounts \ {c} : Registered(b) => Registered(b)'
    BY <1>5, <2>4 DEF LinkAccounts, TypeOK, Registered
  <2>6. ASSUME NEW ch \in Chans, NEW h \in Holders, entry'[ch][h] # NONE
        PROVE  ch \in channels' /\ Exists(h)'
    <3>1. h # c
      BY <2>2, <2>6
    <3>2. ch \in channels
      <4>1. CASE h = m
        BY <2>2, <2>6, <4>1 DEF TypeOK
      <4>2. CASE h # m
        BY <2>2, <2>6, <3>1, <4>2 DEF TypeOK
      <4> QED BY <4>1, <4>2
    <3>3. CASE h = m
      BY <1>5, <2>4, <3>2, <3>3 DEF Exists, LinkAccounts
    <3>4. CASE h # m
      <4>1. Exists(h)
        BY <2>2, <2>6, <3>1, <3>4 DEF TypeOK
      <4> QED BY <1>5, <2>5, <3>1, <3>2, <4>1 DEF Exists, LinkAccounts
    <3> QED BY <3>3, <3>4
  <2>7. ASSUME NEW g \in Groups, NEW b \in Accounts, gaccess'[g][b] # NONE
        PROVE  g \in groups' /\ Registered(b)'
    BY <1>5, <2>5, <2>7 DEF LinkAccounts, GroupsOf, TypeOK
  <2> QED BY <1>5, <2>2, <2>3, <2>6, <2>7 DEF TypeOK, LinkAccounts, Level
<1>6. ASSUME NEW ch \in Chans, ChanForbid(ch) PROVE TypeOK'
  BY <1>6, DropChannelsTypes DEF ChanForbid, TypeOK
<1>7. ASSUME NEW ch \in Chans, ChanUnforbid(ch) PROVE TypeOK'
  BY <1>7 DEF ChanUnforbid, TypeOK, Exists, Registered
<1>8. ASSUME NEW by \in Accounts, NEW ch \in Chans, ChanRegister(by, ch) PROVE TypeOK'
  BY <1>8, SetEntryTypes DEF ChanRegister, Exists, TypeOK
<1>9. ASSUME NEW by \in Accounts, NEW ch \in Chans, ChanDrop(by, ch) PROVE TypeOK'
  BY <1>9, DropChannelsTypes DEF ChanDrop, TypeOK
<1>10. ASSUME NEW by \in Accounts, NEW ch \in Chans, NEW h \in Holders, AccessDel(by, ch, h)
       PROVE  TypeOK'
  BY <1>10, SetEntryTypes DEF AccessDel, TypeOK
<1>11. ASSUME NEW by \in Accounts, NEW ch \in Chans, NEW h \in Holders,
              NEW level \in Levels, AccessAdd(by, ch, h, level)
       PROVE  TypeOK'
  <2>1. ch \in channels /\ Exists(h)
    BY <1>11 DEF AccessAdd, MayOnChan
  <2>2. CASE entry' = [entry EXCEPT ![ch][h] = level]
    BY <1>11, <2>1, <2>2, SetEntryTypes DEF AccessAdd, TypeOK
  <2>3. CASE entry' = [entry EXCEPT ![ch][h] = NONE]
    BY <1>11, <2>1, <2>3, SetEntryTypes DEF AccessAdd, TypeOK
  <2> QED BY <1>11, <2>2, <2>3 DEF AccessAdd
<1>12. ASSUME NEW by \in Accounts, NEW g \in Groups, GroupRegister(by, g) PROVE TypeOK'
  BY <1>12, SetMemberTypes DEF GroupRegister, TypeOK
<1>13. ASSUME NEW by \in Accounts, NEW g \in Groups, GroupDrop(by, g) PROVE TypeOK'
  <2>1. gaccess' \in [Groups -> [Accounts -> {NONE, GRPMEMBER, GRPMASTER}]]
    BY <1>13 DEF GroupDrop, TypeOK, NoMembers
  <2>2. \A k \in Groups, b \in Accounts : gaccess'[k][b] # NONE => k # g /\ gaccess[k][b] # NONE
    BY <1>13 DEF GroupDrop, TypeOK, NoMembers
  <2> QED BY <1>13, <2>1, <2>2 DEF GroupDrop, TypeOK, Exists, Registered
<1>14. ASSUME NEW by \in Accounts, NEW g \in Groups, NEW a \in Accounts, GroupAccessDel(by, g, a)
       PROVE  TypeOK'
  BY <1>14, SetMemberTypes DEF GroupAccessDel, TypeOK
<1>15. ASSUME NEW by \in Accounts, NEW g \in Groups, NEW a \in Accounts,
              NEW level \in {GRPMEMBER, GRPMASTER}, GroupAccessAdd(by, g, a, level)
       PROVE  TypeOK'
  <2>1. g \in groups /\ Registered(a)
    BY <1>15 DEF GroupAccessAdd, MayOnGroup
  <2>2. CASE gaccess' = [gaccess EXCEPT ![g][a] = level]
    BY <1>15, <2>1, <2>2, SetMemberTypes DEF GroupAccessAdd, TypeOK
  <2>3. CASE gaccess' = [gaccess EXCEPT ![g][a] = NONE]
    BY <1>15, <2>1, <2>3, SetMemberTypes DEF GroupAccessAdd, TypeOK
  <2> QED BY <1>15, <2>2, <2>3 DEF GroupAccessAdd
<1>16. CASE UNCHANGED vars
  BY <1>16 DEF vars, TypeOK, Exists, Registered
<1> QED
  BY <1>1, <1>2, <1>3, <1>4, <1>5, <1>6, <1>7, <1>8, <1>9, <1>10, <1>11, <1>12,
     <1>13, <1>14, <1>15, <1>16 DEF Next, Commands

\* The tables are well formed in every reachable state: rows refer to rows
\* that exist, so no cascade is missing in DROP, FORBID, LINK and group DROP.
THEOREM TablesWellFormed == Spec => []TypeOK
<1>1. Init => TypeOK
  BY InitTables
<1>2. TypeOK /\ [Next]_vars => TypeOK'
  BY TablesStay
<1> QED BY <1>1, <1>2, PTL DEF Spec
-----------------------------------------------------------------------------
(* Without nickname FORBID every registered channel keeps a MASTER.        *)

\* A list in which one entry was changed still has a MASTER when that entry
\* was not the last one (ACCESS ADD and DEL, and a deleted account).
LEMMA MasterRemains ==
  ASSUME TypeOK, NEW ch \in Chans, NEW h \in Holders,
         Masters(ch) # {}, ~LastMaster(ch, h),
         \A k \in Holders \ {h} : entry'[ch][k] = entry[ch][k]
  PROVE  Masters(ch)' # {}
<1>1. PICK k \in Masters(ch) : k # h
  BY OtherMaster
<1>2. entry'[ch][k] = MASTER /\ k \in Holders
  BY <1>1 DEF Masters
<1> QED BY <1>2 DEF Masters

\* A successful DROP leaves a MASTER on every channel it does not delete: a
\* channel of the account either goes with it or has another MASTER.
LEMMA DropKeepsMaster ==
  ASSUME TypeOK, ChannelsHaveMaster, NEW a \in Accounts, Drop(a)
  PROVE  ChannelsHaveMaster'
<1> SUFFICES ASSUME NEW ch \in channels' PROVE Masters(ch)' # {}
  BY DEF ChannelsHaveMaster
<1>1. ch \in channels /\ ch \in Chans /\ ch \notin EmptiedBy(a)
  BY DEF Drop, TypeOK
<1>2. Masters(ch) # {} /\ a \in Holders
  BY <1>1 DEF ChannelsHaveMaster, Holders
<1>3. Without(EmptiedBy(a))[ch] = entry[ch] /\ entry[ch] \in [Holders -> Level]
  BY <1>1 DEF Without, TypeOK, Level
<1>4. \A k \in Holders \ {a} : entry'[ch][k] = entry[ch][k]
  BY <1>1, <1>2, <1>3 DEF Drop, DeleteNick
<1>5. CASE entry[ch][a] = NONE
  <2>1. ~LastMaster(ch, a)
    BY <1>5, HolderFacts DEF LastMaster
  <2> QED BY <1>1, <1>2, <1>4, <2>1, MasterRemains
<1>6. CASE entry[ch][a] # NONE
  <2>1. ch \in OwnChannels(a)
    BY <1>1, <1>6 DEF OwnChannels
  <2>2. ~OnlyEntry(ch)
    BY <1>1, <2>1 DEF EmptiedBy, Drop
  <2>3. ~LastMaster(ch, a)
    BY <2>1, <2>2 DEF Drop, Blocking
  <2> QED BY <1>1, <1>2, <1>4, <2>3, MasterRemains
<1> QED BY <1>5, <1>6

\* Merging two lists keeps a MASTER: the master account inherits the child's.
LEMMA LinkKeepsMaster ==
  ASSUME TypeOK, ChannelsHaveMaster, NEW m \in Accounts, NEW c \in Accounts, LinkAccounts(m, c)
  PROVE  ChannelsHaveMaster'
<1> SUFFICES ASSUME NEW ch \in channels' PROVE Masters(ch)' # {}
  BY DEF ChannelsHaveMaster
<1>1. ch \in channels /\ ch \in Chans /\ m # c
  BY DEF LinkAccounts, TypeOK
<1>2. PICK k \in Masters(ch) : TRUE
  BY <1>1 DEF ChannelsHaveMaster
<1>3. k \in Holders /\ entry[ch][k] = MASTER /\ m \in Holders /\ c \in Holders
  BY <1>2 DEF Masters, Holders
<1>4. entry \in [Chans -> [Holders -> Level]]
      /\ entry' = MergeAccess(DeleteDuplicates(entry, m, c), m, c)
  BY DEF LinkAccounts, TypeOK, Level
<1>5. /\ entry'[ch][m] = IF entry[ch][c] <= entry[ch][m] THEN entry[ch][m] ELSE entry[ch][c]
      /\ \A h \in Holders \ {m, c} : entry'[ch][h] = entry[ch][h]
  BY <1>1, <1>4, MergeOutcome
<1>6. entry[ch][m] \in Level /\ entry[ch][c] \in Level
  BY <1>1, <1>3, <1>4
<1>7. CASE k \in {m, c}
  <2>1. entry'[ch][m] = MASTER
    BY <1>3, <1>5, <1>6, <1>7 DEF Level, NONE, MEMBER, CHANOP, MASTER
  <2> QED BY <1>3, <2>1 DEF Masters
<1>8. CASE k \notin {m, c}
  BY <1>3, <1>5, <1>8 DEF Masters
<1> QED BY <1>7, <1>8

\* One command.
LEMMA CommandsKeepMaster ==
  ASSUME TypeOK, ChannelsHaveMaster, [Commands]_vars
  PROVE  ChannelsHaveMaster'
<1> USE HolderFacts
<1>1. CASE channels' \subseteq channels /\ UNCHANGED entry
  BY <1>1 DEF ChannelsHaveMaster, Masters
<1>2. ASSUME NEW a \in Accounts, RegisterNick(a) PROVE ChannelsHaveMaster'
  BY <1>1, <1>2 DEF RegisterNick
<1>3. ASSUME NEW a \in Accounts, Drop(a) PROVE ChannelsHaveMaster'
  BY <1>3, DropKeepsMaster
<1>4. ASSUME NEW gone \in SUBSET Chans, channels' = channels \ gone, entry' = Without(gone)
      PROVE  ChannelsHaveMaster'
  <2>1. \A ch \in channels' : ch \in channels /\ entry'[ch] = entry[ch]
    BY <1>4 DEF Without, TypeOK
  <2> QED BY <2>1 DEF ChannelsHaveMaster, Masters
<1>5. ASSUME NEW a \in Accounts, DropRefused(a) PROVE ChannelsHaveMaster'
  <2>1. EmptiedBy(a) \in SUBSET Chans
    BY DEF EmptiedBy, OwnChannels, TypeOK
  <2> QED BY <1>4, <1>5, <2>1 DEF DropRefused
<1>6. ASSUME NEW m \in Accounts, NEW c \in Accounts, LinkAccounts(m, c) PROVE ChannelsHaveMaster'
  BY <1>6, LinkKeepsMaster
<1>7. ASSUME NEW ch \in Chans, ChanForbid(ch) PROVE ChannelsHaveMaster'
  BY <1>4, <1>7 DEF ChanForbid
<1>8. ASSUME NEW ch \in Chans, ChanUnforbid(ch) PROVE ChannelsHaveMaster'
  BY <1>1, <1>8 DEF ChanUnforbid
<1>9. ASSUME NEW by \in Accounts, NEW ch \in Chans, ChanRegister(by, ch) PROVE ChannelsHaveMaster'
  <2>1. entry'[ch][by] = MASTER
    BY <1>9 DEF ChanRegister, TypeOK
  <2>2. \A k \in channels : k # ch => entry'[k] = entry[k]
    BY <1>9 DEF ChanRegister, TypeOK
  <2> QED BY <1>9, <2>1, <2>2 DEF ChanRegister, ChannelsHaveMaster, Masters
<1>10. ASSUME NEW by \in Accounts, NEW ch \in Chans, ChanDrop(by, ch) PROVE ChannelsHaveMaster'
  BY <1>4, <1>10 DEF ChanDrop
<1>11. ASSUME NEW ch \in Chans, NEW h \in Holders, NEW level \in Level,
              ~LastMaster(ch, h), entry' = [entry EXCEPT ![ch][h] = level], UNCHANGED channels
       PROVE  ChannelsHaveMaster'
  <2> SUFFICES ASSUME NEW k \in channels' PROVE Masters(k)' # {}
    BY DEF ChannelsHaveMaster
  <2>1. k \in Chans /\ Masters(k) # {}
    BY <1>11 DEF ChannelsHaveMaster, TypeOK
  <2>2. CASE k = ch
    <3>1. \A j \in Holders \ {h} : entry'[k][j] = entry[k][j]
      BY <1>11, <2>1, <2>2 DEF TypeOK
    <3> QED BY <1>11, <2>1, <2>2, <3>1, MasterRemains
  <2>3. CASE k # ch
    <3>1. entry'[k] = entry[k]
      BY <1>11, <2>1, <2>3 DEF TypeOK
    <3> QED BY <2>1, <3>1 DEF Masters
  <2> QED BY <2>2, <2>3
<1>12. ASSUME NEW by \in Accounts, NEW ch \in Chans, NEW h \in Holders, AccessDel(by, ch, h)
       PROVE  ChannelsHaveMaster'
  BY <1>11, <1>12 DEF AccessDel
<1>13. ASSUME NEW by \in Accounts, NEW ch \in Chans, NEW h \in Holders,
              NEW level \in Levels, AccessAdd(by, ch, h, level)
       PROVE  ChannelsHaveMaster'
  BY <1>11, <1>13 DEF AccessAdd
<1>14. ASSUME NEW by \in Accounts, NEW g \in Groups,
              \/ GroupRegister(by, g)
              \/ GroupDrop(by, g)
              \/ \E a \in Accounts :
                   \/ GroupAccessDel(by, g, a)
                   \/ \E level \in {GRPMEMBER, GRPMASTER} : GroupAccessAdd(by, g, a, level)
       PROVE  ChannelsHaveMaster'
  BY <1>1, <1>14 DEF GroupRegister, GroupDrop, GroupAccessDel, GroupAccessAdd
<1>15. CASE UNCHANGED vars
  BY <1>1, <1>15 DEF vars
<1> QED
  BY <1>2, <1>3, <1>5, <1>6, <1>7, <1>8, <1>9, <1>10, <1>12, <1>13, <1>14, <1>15 DEF Commands

\* While operators do not FORBID nicknames, a registered channel has a MASTER
\* entry in every reachable state, for any number of accounts, groups and
\* channels and whether or not INSERTs fail: the checks of m_access_add,
\* m_access_del and check_masterless_channels are together enough.
THEOREM NoMasterlessChannel == Init /\ [][Commands]_vars => []ChannelsHaveMaster
<1>1. Init => ChannelsHaveMaster
  BY DEF Init, ChannelsHaveMaster
<1>2. [Commands]_vars => [Next]_vars
  BY DEF Next
<1>3. TypeOK /\ ChannelsHaveMaster /\ [Commands]_vars => ChannelsHaveMaster'
  BY CommandsKeepMaster
<1> QED BY <1>1, <1>2, <1>3, TablesWellFormed, PTL DEF Spec

\* So it is with everything else that services do at the same time, and with
\* owners who register, link, drop and give away in any order.
THEOREM OwnersKeepMasters == MCSpec => []MastersRemain
<1> DEFINE Kept == part = "owners" => TypeOK /\ ChannelsHaveMaster
<1>1. MCInit => TypeOK /\ ChannelsHaveMaster
  BY InitTables DEF MCInit, Init, ChannelsHaveMaster
<1>2. Kept /\ [MCNext]_<<part, vars, avars, dvars>> => Kept'
  <2> SUFFICES ASSUME Kept, part' = "owners", [MCNext]_<<part, vars, avars, dvars>>
               PROVE  TypeOK' /\ ChannelsHaveMaster'
    OBVIOUS
  <2>1. part = "owners" /\ [Commands]_vars
    BY DEF MCNext, OwnersNext
  <2>2. TypeOK /\ ChannelsHaveMaster /\ [Next]_vars
    BY <2>1 DEF Next
  <2> QED BY <2>1, <2>2, TablesStay, CommandsKeepMaster
<1>3. Kept => MastersRemain
  BY DEF MastersRemain
<1> QED BY <1>1, <1>2, <1>3, PTL DEF MCSpec
-----------------------------------------------------------------------------
(* What a step may never do to rights.                                     *)

\* A group with a master that is not the last one has another master.
LEMMA OtherGroupMaster ==
  ASSUME NEW g \in Groups, NEW a \in Accounts, GroupMasters(g) # {}, ~LastGroupMaster(g, a)
  PROVE  \E b \in GroupMasters(g) : b # a
<1>1. CASE a \notin GroupMasters(g)
  BY <1>1
<1>2. CASE a \in GroupMasters(g)
  <2>1. IsFiniteSet(GroupMasters(g))
    BY AccessAssumption, FS_Subset DEF GroupMasters
  <2>2. Cardinality(GroupMasters(g)) \in Nat /\ ~(Cardinality(GroupMasters(g)) <= 1)
    BY <1>2, <2>1, FS_CardinalityType DEF LastGroupMaster, GroupMasters
  <2>3. SUFFICES ASSUME GroupMasters(g) = {a} PROVE FALSE
    BY <1>2
  <2>4. Cardinality({a}) = 1
    BY FS_Singleton
  <2> QED BY <2>2, <2>3, <2>4
<1> QED BY <1>1, <1>2

\* The highest of some levels is one of them and not below any other.
LEMMA HighestLevel ==
  ASSUME NEW S \in SUBSET Level, S # {}
  PROVE  Max(S) \in S /\ \A l \in S : l <= Max(S)
<1> USE DEF Level, NONE, MEMBER, CHANOP, MASTER
<1>1. PICK x \in S : \A y \in S : x >= y
  <2>1. CASE MASTER \in S
    BY <2>1
  <2>2. CASE MASTER \notin S /\ CHANOP \in S
    BY <2>2
  <2>3. CASE MASTER \notin S /\ CHANOP \notin S /\ MEMBER \in S
    BY <2>3
  <2>4. CASE S = {NONE}
    BY <2>4
  <2> QED BY <2>1, <2>2, <2>3, <2>4
<1>2. Max(S) \in S /\ \A y \in S : Max(S) >= y
  BY <1>1 DEF Max
<1> QED BY <1>2

\* The account a leaves the master list of a group only when it is deleted,
\* unless somebody changes an entry of that very group.
LEMMA DeletedMaster ==
  ASSUME TypeOK, NEW a \in Accounts, NEW e, DeleteNick(a, e), Registered(a),
         NEW g \in Groups, GroupMasters(g) # {}, GroupMasters(g)' = {}
  PROVE  \E b \in GroupMasters(g) : ~Registered(b)'
<1>1. PICK b \in GroupMasters(g) : TRUE
  OBVIOUS
<1>2. b \in Accounts /\ gaccess[g][b] = GRPMASTER /\ gaccess'[g][b] # GRPMASTER
  BY <1>1 DEF GroupMasters
<1>3. nicks[a] = 1 /\ b = a
  BY <1>2 DEF DeleteNick, TypeOK
<1>4. nicks'[a] = 0
  BY <1>3 DEF DeleteNick, TypeOK
<1> QED BY <1>1, <1>3, <1>4 DEF Registered

\* A group loses its last master only when that master's account is deleted,
\* for any number of groups, accounts and administrators, and also when the
\* INSERT of ACCESS ADD fails (m_access_add, m_access_del of GroupServ).
THEOREM GroupsKeepMasters == Spec => GroupMastersStay
<1> DEFINE Stays ==
      \A g \in groups \cap groups' :
        (GroupMasters(g) # {} /\ GroupMasters(g)' = {})
          => \E a \in GroupMasters(g) : ~Registered(a)'
<1>1. TypeOK /\ [Next]_vars => [Stays]_vars
  <2> SUFFICES ASSUME TypeOK, Next, NEW g \in groups \cap groups',
                      GroupMasters(g) # {}, GroupMasters(g)' = {}
               PROVE  \E a \in GroupMasters(g) : ~Registered(a)'
    OBVIOUS
  <2>1. g \in Groups /\ gaccess'[g] # gaccess[g]
    BY DEF TypeOK, GroupMasters
  <2>2. ASSUME NEW k \in Groups, NEW a \in Accounts, NEW level \in {NONE, GRPMEMBER, GRPMASTER},
               gaccess' = [gaccess EXCEPT ![k][a] = level], ~LastGroupMaster(k, a) \/ level = GRPMASTER
        PROVE  FALSE
    <3>1. k = g
      BY <2>1, <2>2 DEF TypeOK
    <3>2. \A b \in Accounts \ {a} : gaccess'[g][b] = gaccess[g][b]
      BY <2>2, <3>1 DEF TypeOK
    <3>3. CASE level = GRPMASTER
      <4>1. gaccess'[g][a] = GRPMASTER
        BY <2>2, <3>1, <3>3 DEF TypeOK
      <4> QED BY <4>1 DEF GroupMasters
    <3>4. CASE ~LastGroupMaster(k, a)
      <4>1. PICK b \in GroupMasters(g) : b # a
        BY <2>1, <3>1, <3>4, OtherGroupMaster
      <4>2. b \in Accounts /\ gaccess'[g][b] = GRPMASTER
        BY <3>2, <4>1 DEF GroupMasters
      <4> QED BY <4>2 DEF GroupMasters
    <3> QED BY <2>2, <3>3, <3>4
  <2>3. ASSUME NEW a \in Accounts, NEW e, Registered(a), DeleteNick(a, e)
        PROVE  \E b \in GroupMasters(g) : ~Registered(b)'
    BY <2>1, <2>3, DeletedMaster
  <2>4. ASSUME NEW a \in Accounts, Drop(a) \/ ForbidNick(a)
        PROVE  \E b \in GroupMasters(g) : ~Registered(b)'
    BY <2>3, <2>4 DEF Drop, ForbidNick
  <2>5. ASSUME NEW by \in Accounts, NEW k \in Groups, GroupRegister(by, k) PROVE FALSE
    BY <2>2, <2>5 DEF GroupRegister
  <2>6. ASSUME NEW by \in Accounts, NEW k \in Groups, GroupDrop(by, k) PROVE FALSE
    BY <2>1, <2>6 DEF GroupDrop, TypeOK
  <2>7. ASSUME NEW by \in Accounts, NEW k \in Groups, NEW a \in Accounts, GroupAccessDel(by, k, a)
        PROVE  FALSE
    BY <2>2, <2>7 DEF GroupAccessDel
  <2>8. ASSUME NEW by \in Accounts, NEW k \in Groups, NEW a \in Accounts,
               NEW level \in {GRPMEMBER, GRPMASTER}, GroupAccessAdd(by, k, a, level)
        PROVE  FALSE
    BY <2>2, <2>8 DEF GroupAccessAdd
  <2>9. CASE UNCHANGED gaccess
    BY <2>1, <2>9
  <2> QED
    BY <2>4, <2>5, <2>6, <2>7, <2>8, <2>9
       DEF Next, Commands, RegisterNick, DropRefused, LinkAccounts, ChanForbid, ChanUnforbid,
           ChanRegister, ChanDrop, AccessDel, AccessAdd
<1> QED BY <1>1, TablesWellFormed, PTL DEF Spec, GroupMastersStay

\* LINK and GROUP lose nobody a right: the merged account may do on every channel
\* what either account could, and all others what they could, for any lists.
THEOREM LinksLoseNothing == Spec => LinkKeepsRights
<1> DEFINE Keeps ==
      \A m, c \in Accounts :
        LinkAccounts(m, c) =>
          \A ch \in channels :
            /\ Effective(ch, m)' = Max({Effective(ch, m), Effective(ch, c)})
            /\ \A b \in Accounts \ {m, c} : Effective(ch, b)' = Effective(ch, b)
<1>1. TypeOK /\ [Next]_vars => [Keeps]_vars
  <2> SUFFICES ASSUME TypeOK, NEW m \in Accounts, NEW c \in Accounts, LinkAccounts(m, c),
                      NEW ch \in channels
               PROVE  /\ Effective(ch, m)' = Max({Effective(ch, m), Effective(ch, c)})
                      /\ \A b \in Accounts \ {m, c} : Effective(ch, b)' = Effective(ch, b)
    OBVIOUS
  <2> USE HolderFacts
  <2>1. ch \in Chans /\ m # c /\ GroupsOf(c) = {} /\ UNCHANGED gaccess
    BY DEF TypeOK, LinkAccounts
  <2>2. \A a \in Accounts : GroupsOf(a)' = GroupsOf(a) /\ GroupsOf(a) \subseteq Holders \ Accounts
    BY <2>1 DEF GroupsOf
  <2>3. entry \in [Chans -> [Holders -> Level]]
        /\ entry' = MergeAccess(DeleteDuplicates(entry, m, c), m, c)
    BY DEF LinkAccounts, TypeOK, Level
  <2>4. /\ entry'[ch][m] = IF entry[ch][c] <= entry[ch][m] THEN entry[ch][m] ELSE entry[ch][c]
        /\ \A h \in Holders \ {m, c} : entry'[ch][h] = entry[ch][h]
    BY <2>1, <2>3, MergeOutcome
  <2>5. ASSUME NEW b \in Accounts \ {m, c} PROVE Effective(ch, b)' = Effective(ch, b)
    <3>1. \A h \in {b} \cup GroupsOf(b) : entry'[ch][h] = entry[ch][h]
      BY <2>2, <2>4
    <3>2. {entry'[ch][h] : h \in {b} \cup GroupsOf(b)'} = {entry[ch][h] : h \in {b} \cup GroupsOf(b)}
      BY <2>2, <3>1
    <3> QED BY <3>2 DEF Effective
  <2> DEFINE old == {entry[ch][h] : h \in {m} \cup GroupsOf(m)}
             new == {entry'[ch][h] : h \in {m} \cup GroupsOf(m)}
             top == Max(old)
             two == {top, entry[ch][c]}
  <2>6. Effective(ch, m) = top /\ Effective(ch, c) = Max({entry[ch][c]})
    BY <2>1 DEF Effective
  <2>7. entry[ch] \in [Holders -> Level] /\ entry[ch][m] \in Level /\ entry[ch][c] \in Level
    BY <2>1, <2>3
  <2>8. Max({entry[ch][c]}) = entry[ch][c]
    <3> HIDE DEF Level
    <3> QED BY <2>7, HighestLevel
  <2>9. old \in SUBSET Level /\ old # {}
    BY <2>2, <2>7
  <2>10. top \in old /\ \A l \in old : l <= top
    BY <2>9, HighestLevel
  <2>11. /\ \A h \in GroupsOf(m) : entry'[ch][h] = entry[ch][h]
         /\ \A h \in GroupsOf(m) : entry[ch][h] \in Level
    BY <2>1, <2>2, <2>4, <2>7
  <2>12. new \in SUBSET Level /\ new # {}
    BY <2>4, <2>7, <2>11
  <2>13. Max(new) \in new /\ \A l \in new : l <= Max(new)
    BY <2>12, HighestLevel
  <2>14. top \in Level /\ two \in SUBSET Level /\ two # {}
    BY <2>7, <2>9, <2>10
  <2>15. Max(two) \in two /\ \A l \in two : l <= Max(two)
    BY <2>14, HighestLevel
  <2>16. Max(new) <= Max(two)
    <3>1. \A l \in new : l <= Max(two)
      <4>1. entry'[ch][m] <= Max(two)
        <5>1. entry[ch][m] <= top
          BY <2>10
        <5> QED BY <5>1, <2>4, <2>7, <2>14, <2>15 DEF Level, NONE, MEMBER, CHANOP, MASTER
      <4>2. ASSUME NEW h \in GroupsOf(m) PROVE entry'[ch][h] <= Max(two)
        <5>1. entry[ch][h] <= top
          BY <2>10
        <5> QED BY <5>1, <2>11, <2>14, <2>15 DEF Level, NONE, MEMBER, CHANOP, MASTER
      <4> QED BY <4>1, <4>2
    <3> QED BY <2>13, <3>1
  <2>17. Max(two) <= Max(new)
    <3>1. \A l \in two : l <= Max(new)
      <4>1. entry[ch][m] <= entry'[ch][m] /\ entry[ch][c] <= entry'[ch][m] /\ entry'[ch][m] \in Level
        BY <2>4, <2>7 DEF Level, NONE, MEMBER, CHANOP, MASTER
      <4>2. entry'[ch][m] <= Max(new) /\ Max(new) \in Level
        BY <2>12, <2>13
      <4>3. PICK h \in {m} \cup GroupsOf(m) : top = entry[ch][h]
        BY <2>10
      <4>4. top <= Max(new)
        <5>1. CASE h = m
          BY <4>1, <4>2, <4>3, <5>1, <2>7, <2>14 DEF Level, NONE, MEMBER, CHANOP, MASTER
        <5>2. CASE h \in GroupsOf(m)
          <6>1. top \in new
            BY <2>11, <4>3, <5>2
          <6> QED BY <2>13, <6>1
        <5> QED BY <4>3, <5>1, <5>2
      <4>5. entry[ch][c] <= Max(new)
        BY <4>1, <4>2, <2>7 DEF Level, NONE, MEMBER, CHANOP, MASTER
      <4> QED BY <4>4, <4>5
    <3> QED BY <2>15, <3>1
  <2>18. Max(new) = Max(two)
    <3>1. Max(new) \in Level /\ Max(two) \in Level
      BY <2>12, <2>13, <2>14, <2>15
    <3> QED BY <2>16, <2>17, <3>1 DEF Level, NONE, MEMBER, CHANOP, MASTER
  <2>19. Effective(ch, m)' = Max(new)
    BY <2>2 DEF Effective
  <2> QED BY <2>5, <2>6, <2>8, <2>18, <2>19
<1> QED BY <1>1, TablesWellFormed, PTL DEF Spec, LinkKeepsRights

\* DROP, refused or not, costs no other account anything: check_masterless_channels
\* deletes only channels that no other account has an entry on, and
\* nickname_delete takes away only entries of the account that goes.
THEOREM DropsSpareOthers == Spec => DropSparesOthers
<1> DEFINE Spares ==
      \A a \in Accounts :
        (Drop(a) \/ DropRefused(a)) =>
          \A b \in Accounts \ {a}, ch \in channels :
            IF ch \in channels' THEN Effective(ch, b)' = Effective(ch, b)
                                ELSE entry[ch][b] = NONE
<1>1. TypeOK /\ [Next]_vars => [Spares]_vars
  <2> SUFFICES ASSUME TypeOK, NEW a \in Accounts, Drop(a) \/ DropRefused(a),
                      NEW b \in Accounts \ {a}, NEW ch \in channels
               PROVE  IF ch \in channels' THEN Effective(ch, b)' = Effective(ch, b)
                                           ELSE entry[ch][b] = NONE
    OBVIOUS
  <2> USE HolderFacts
  <2>1. ch \in Chans /\ channels' = channels \ EmptiedBy(a)
    BY DEF TypeOK, Drop, DropRefused
  <2>2. CASE ch \in channels'
    <3>1. Without(EmptiedBy(a))[ch] = entry[ch] /\ entry[ch] \in [Holders -> Level]
      BY <2>1, <2>2 DEF Without, TypeOK, Level
    <3>2. \A h \in Holders \ {a} : entry'[ch][h] = entry[ch][h]
      BY <2>1, <3>1 DEF Drop, DropRefused, DeleteNick
    <3>3. \A g \in Groups : gaccess'[g][b] = gaccess[g][b]
      BY DEF Drop, DropRefused, DeleteNick, TypeOK
    <3>4. GroupsOf(b)' = GroupsOf(b)
      BY <3>3 DEF GroupsOf
    <3>5. \A h \in {b} \cup GroupsOf(b) : entry'[ch][h] = entry[ch][h]
      BY <3>2 DEF GroupsOf
    <3>6. {entry'[ch][h] : h \in {b} \cup GroupsOf(b)'} = {entry[ch][h] : h \in {b} \cup GroupsOf(b)}
      BY <3>4, <3>5
    <3> QED BY <2>2, <3>6 DEF Effective
  <2>3. CASE ch \notin channels'
    <3>1. OnlyEntry(ch) /\ entry[ch][a] # NONE
      BY <2>1, <2>3 DEF EmptiedBy, OwnChannels
    <3>2. IsFiniteSet(AccountEntries(ch)) /\ a \in AccountEntries(ch)
      BY <3>1, AccessAssumption, FS_Subset DEF AccountEntries
    <3>3. PICK x : AccountEntries(ch) = {x}
      BY <3>1, <3>2, FS_Singleton DEF OnlyEntry
    <3>4. b \notin AccountEntries(ch)
      BY <3>2, <3>3
    <3> QED BY <2>3, <3>4 DEF AccountEntries
  <2> QED BY <2>2, <2>3
<1> QED BY <1>1, TablesWellFormed, PTL DEF Spec, DropSparesOthers

\* No command of ChanServ, GroupServ or NickServ takes a right from anybody but
\* its giver and whom it names (RightsAreKept).
THEOREM NobodyLosesRights == Spec => RightsAreKept
BY GroupsKeepMasters, LinksLoseNothing, DropsSpareOthers DEF RightsAreKept

-----------------------------------------------------------------------------
(* OperServ's AKILLs.                                                      *)

Durations == -IntSize .. IntSize - 1

\* Of the rows that match somebody there is a newest one.
LEMMA NewestExists ==
  ASSUME NEW list \in [AkillMasks -> K!Akill \cup {K!NoRow}],
         NEW S \in SUBSET AkillMasks, S # {}, \A m \in S : list[m] # K!NoRow
  PROVE  \E m \in S : \A x \in S : list[x].time <= list[m].time
<1> DEFINE T == {End - list[m].time : m \in S}
<1>1. \A m \in S : list[m].time \in Start .. End
  BY DEF K!Akill
<1>2. T \subseteq Nat /\ T # {}
  BY <1>1, AkillAssumption
<1>3. PICK t \in T : \A y \in T : ~ (<<y, t>> \in OpToRel(<, Nat))
  BY <1>2, NatLessThanWellFounded, WFMin
<1>4. \A y \in T : ~ (y < t)
  BY <1>2, <1>3 DEF OpToRel
<1>5. PICK m \in S : t = End - list[m].time
  BY <1>3
<1>6. ASSUME NEW x \in S PROVE list[x].time <= list[m].time
  <2>1. ~ (End - list[x].time < End - list[m].time)
    BY <1>4, <1>5
  <2> QED BY <2>1, <1>1, AkillAssumption
<1> QED BY <1>6

\* An int is one.
LEMMA WrapFits == ASSUME NEW n \in Int PROVE K!Wrap(n) \in Durations
<1>1. 2 * IntSize \in Nat \ {0} /\ n + IntSize \in Int
  BY AkillAssumption
<1>2. (n + IntSize) % (2 * IntSize) \in 0 .. 2 * IntSize - 1
  BY <1>1
<1> QED BY <1>2, AkillAssumption DEF K!Wrap, Durations

LEMMA DurationFits == ASSUME NEW t \in Tokens PROVE K!Duration(t) \in Durations
<1>1. CASE t[2] = ""
  BY <1>1, AkillAssumption DEF K!Duration, Durations
<1>2. CASE t[2] # ""
  <2>1. t[1] \in Int /\ Minutes[t[2]] \in Int
    BY <1>2, TokensAssumption, Zenon
  <2>2. \A i, j \in Int : i * j \in Int
    OBVIOUS
  <2>3. t[1] * Minutes[t[2]] \in Int
    BY <2>1, <2>2, Zenon
  <2> QED BY <1>2, <2>3, WrapFits DEF K!Duration
<1> QED BY <1>1, <1>2

\* A K-line of an AKILL lasts longer than now, if the AKILL has not ended, and
\* no longer than the clock and an int allow.
LEMMA KlineEnds ==
  ASSUME NEW k \in [AkillMasks -> 0 .. End + IntSize], NEW m \in AkillMasks,
         NEW r \in K!Akill, now \in Start .. End
  PROVE  /\ K!SendAkill(k, m, r) \in [AkillMasks -> 0 .. End + IntSize]
         /\ r.time + r.dur - now >= 0 => K!SendAkill(k, m, r)[m] > now
         /\ r.time + r.dur - now < 0 => K!SendAkill(k, m, r) = k
<1> DEFINE left == r.time + r.dur - now
<1>1. /\ r.time \in Start .. End /\ r.dur \in Durations
      /\ left \in Int /\ left <= End + IntSize - 1 - now
  BY AkillAssumption DEF K!Akill, Durations
<1>2. CASE left < 0
  BY <1>1, <1>2 DEF K!SendAkill
<1>3. CASE left >= 0
  <2> DEFINE end == now + (IF left < 1 THEN 1 ELSE left)
  <2>1. end \in 0 .. End + IntSize /\ end > now
    BY <1>1, <1>3, AkillAssumption
  <2>2. K!SendAkill(k, m, r) = [k EXCEPT ![m] = end]
    BY <1>1, <1>3 DEF K!SendAkill
  <2> HIDE DEF end
  <2>3. [k EXCEPT ![m] = end] \in [AkillMasks -> 0 .. End + IntSize] /\ [k EXCEPT ![m] = end][m] = end
    BY <2>1
  <2> QED BY <1>1, <1>3, <2>1, <2>2, <2>3
<1> QED BY <1>1, <1>2, <1>3

\* RemoveFirst takes a user off a list on which it is once.
LEMMA RemovedOnce ==
  ASSUME NEW S, NEW s \in Seq(S), K!IsInjective(s), NEW e
  PROVE  /\ K!RemoveFirst(s, e) \in Seq(S)
         /\ K!IsInjective(K!RemoveFirst(s, e))
         /\ K!ToSet(K!RemoveFirst(s, e)) = K!ToSet(s) \ {e}
<1>1. Len(s) \in Nat /\ DOMAIN s = 1 .. Len(s) /\ \A i \in 1 .. Len(s) : s[i] \in S
  BY LenProperties, ElementOfSeq
<1>2. CASE ~ \E i \in 1 .. Len(s) : s[i] = e
  BY <1>1, <1>2 DEF K!RemoveFirst, K!ToSet
<1>3. CASE \E i \in 1 .. Len(s) : s[i] = e
  <2>1. PICK i \in 1 .. Len(s) : s[i] = e
    BY <1>3
  <2>2. \A j \in 1 .. Len(s) : s[j] = e => j = i
    BY <1>1, <2>1 DEF K!IsInjective
  <2>3. {j \in 1 .. Len(s) : s[j] = e} = {i}
    BY <2>1, <2>2
  <2>4. K!Min({i}) = i
    BY <2>1 DEF K!Min
  <2>5. K!SelectInSeq(s, LAMBDA v : v = e) = i
    BY <2>3, <2>4 DEF K!SelectInSeq
  <2> DEFINE a == SubSeq(s, 1, i - 1)
             b == SubSeq(s, i + 1, Len(s))
             r == a \o b
  <2>6. K!RemoveFirst(s, e) = r
    BY <1>3, <2>5 DEF K!RemoveFirst, K!RemoveAt
  <2>7. a \in Seq(S) /\ Len(a) = i - 1 /\ \A j \in 1 .. i - 1 : a[j] = s[j]
    BY <1>1, <2>1, SubSeqProperties
  <2>8. b \in Seq(S) /\ Len(b) = Len(s) - i /\ \A j \in 1 .. Len(s) - i : b[j] = s[i + j]
    <3> DEFINE m == i + 1
               n == Len(s)
    <3>0. i \in Int /\ n \in Int /\ 1 <= i /\ i <= n
      BY <1>1, <2>1
    <3>1. /\ m \in Int /\ n \in Int /\ m >= 1
          /\ (IF m <= n THEN n - m + 1 ELSE 0) = n - i
      <4> HIDE DEF n
      <4> QED BY <3>0
    <3>2. ASSUME NEW j \in m .. n PROVE s[j] \in S
      <4>1. j \in 1 .. Len(s)
        <5> HIDE DEF m
        <5> QED BY <3>1
      <4> QED BY <1>1, <4>1
    <3>3. /\ SubSeq(s, m, n) \in Seq(S)
          /\ Len(SubSeq(s, m, n)) = IF m <= n THEN n - m + 1 ELSE 0
          /\ \A j \in 1 .. n - m + 1 : SubSeq(s, m, n)[j] = s[m + j - 1]
      <4> HIDE DEF m, n
      <4> QED BY <3>1, <3>2, SubSeqProperties
    <3> HIDE DEF b
    <3>4. ASSUME NEW j \in 1 .. Len(s) - i PROVE SubSeq(s, m, n)[j] = s[i + j]
      <4>1. j \in 1 .. n - m + 1 /\ m + j - 1 = i + j
        BY <1>1, <2>1
      <4>2. SubSeq(s, m, n)[j] = s[m + j - 1]
        BY <3>3, <4>1
      <4> QED BY <4>1, <4>2
    <3> QED BY <3>1, <3>3, <3>4 DEF b
  <2> HIDE DEF a, b
  <2>9. /\ r \in Seq(S) /\ Len(r) = Len(s) - 1 /\ DOMAIN r = 1 .. Len(s) - 1
        /\ \A j \in 1 .. Len(s) - 1 : r[j] = IF j < i THEN s[j] ELSE s[j + 1]
    <3>1. /\ r \in Seq(S) /\ Len(r) = Len(a) + Len(b)
          /\ \A j \in 1 .. Len(a) + Len(b) : r[j] = IF j <= Len(a) THEN a[j] ELSE b[j - Len(a)]
      BY <2>7, <2>8, ConcatProperties
    <3>2. DOMAIN r = 1 .. Len(r)
      BY <3>1, LenProperties
    <3> HIDE DEF r
    <3>3. Len(r) = Len(s) - 1
      BY <1>1, <2>1, <2>7, <2>8, <3>1
    <3>4. ASSUME NEW j \in 1 .. Len(s) - 1 PROVE r[j] = IF j < i THEN s[j] ELSE s[j + 1]
      <4>1. CASE j < i
        <5>1. j \in 1 .. i - 1 /\ j \in 1 .. Len(a) + Len(b) /\ j <= Len(a)
          BY <1>1, <2>1, <2>7, <2>8, <4>1
        <5>2. r[j] = a[j] /\ a[j] = s[j]
          BY <2>7, <3>1, <5>1
        <5> QED BY <4>1, <5>2
      <4>2. CASE ~ (j < i)
        <5>1. j - (i - 1) \in 1 .. Len(s) - i /\ i + (j - (i - 1)) = j + 1
          BY <1>1, <2>1, <4>2
        <5>2. r[j] = b[j - (i - 1)]
          BY <1>1, <2>1, <2>7, <2>8, <3>1, <4>2, SMTT(30)
        <5> QED BY <2>8, <4>2, <5>1, <5>2
      <4> QED BY <4>1, <4>2
    <3> QED BY <3>1, <3>2, <3>3, <3>4
  <2> HIDE DEF r
  <2>10. K!IsInjective(r)
    BY <1>1, <2>1, <2>9 DEF K!IsInjective
  <2>11. \A j \in 1 .. Len(s) - 1 : r[j] \in K!ToSet(s) /\ r[j] # e
    BY <1>1, <2>1, <2>2, <2>9, SMTT(30) DEF K!ToSet
  <2>12. ASSUME NEW j \in 1 .. Len(s), s[j] # e PROVE \E k \in 1 .. Len(s) - 1 : r[k] = s[j]
    <3>1. CASE j < i
      BY <1>1, <2>1, <2>9, <3>1
    <3>2. CASE j > i
      <4>1. j - 1 \in 1 .. Len(s) - 1 /\ r[j - 1] = s[j]
        BY <1>1, <2>1, <2>9, <3>2
      <4> QED BY <4>1
    <3> QED BY <2>1, <2>12, <3>1, <3>2
  <2>13. K!ToSet(r) \subseteq K!ToSet(s) \ {e}
    BY <2>9, <2>11 DEF K!ToSet
  <2>14. K!ToSet(s) \ {e} \subseteq K!ToSet(r)
    BY <1>1, <2>9, <2>12 DEF K!ToSet
  <2> QED BY <2>6, <2>9, <2>10, <2>13, <2>14
<1> QED BY <1>2, <1>3

\* After a restart everybody is on the list once.
LEMMA EverybodyListed ==
  ASSUME NEW S, IsFiniteSet(S), NEW s \in K!SetToSeqs(S)
  PROVE  s \in Seq(S) /\ K!IsInjective(s) /\ K!ToSet(s) = S
<1> DEFINE n == Cardinality(S)
<1>1. n \in Nat
  BY FS_CardinalityType
<1>0. K!Cardinality(S) = n
  BY DEF K!Cardinality, Cardinality
<1>2. s \in [1 .. n -> S] /\ \A i, j \in 1 .. n : i # j => s[i] # s[j]
  BY <1>0 DEF K!SetToSeqs
<1>3. s \in Injection(1 .. n, S) /\ K!IsInjective(s)
  BY <1>2 DEF Injection, IsInjective, K!IsInjective
<1>4. Cardinality(1 .. n) = n
  BY <1>1, FS_Interval
<1>5. s \in Surjection(1 .. n, S)
  BY <1>3, <1>4, FS_Injection
<1>6. \A t \in S : \E i \in 1 .. n : s[i] = t
  BY <1>5 DEF Surjection
<1>7. s \in Seq(S) /\ DOMAIN s = 1 .. n
  BY <1>1, <1>2, SeqDef
<1> QED BY <1>2, <1>3, <1>6, <1>7 DEF K!ToSet

AkillsSound == K!TypeOK /\ delayed \in Seq(Users) /\ K!CheckedAreClean

\* What AKILL ADD and FloodServ do.
LEMMA InsertSound ==
  ASSUME AkillsSound, NEW m \in AkillMasks, NEW dur \in Durations, K!Insert(m, dur)
  PROVE  AkillsSound'
<1> DEFINE new == [time |-> now, dur |-> dur]
           k == K!SendAkill(kline, m, new)
<1>1. /\ now' = now /\ delayed' = delayed /\ known' = known /\ spared' = spared
      /\ row' = [row EXCEPT ![m] = new] /\ cache' = K!EmptyList
      /\ kline' = K!SendAkill(kline, m, row'[m])
      /\ online' = online \ K!Covered(kline')
  BY DEF K!Insert, K!Place
<1>2. new \in K!Akill /\ new # K!NoRow
  <2>1. now \in Start .. End /\ now # -1
    BY AkillAssumption DEF AkillsSound, K!TypeOK
  <2> QED BY <2>1 DEF K!Akill, K!NoRow, Durations
<1>3. row' \in [AkillMasks -> K!Akill \cup {K!NoRow}] /\ row'[m] = new
      /\ \A x \in AkillMasks \ {m} : row'[x] = row[x]
  BY <1>1, <1>2 DEF AkillsSound, K!TypeOK
<1>4. /\ kline' = k /\ k \in [AkillMasks -> 0 .. End + IntSize]
      /\ now + dur - now >= 0 => k[m] > now
  <2>1. kline \in [AkillMasks -> 0 .. End + IntSize] /\ now \in Start .. End
    BY DEF AkillsSound, K!TypeOK
  <2>2. new.time = now /\ new.dur = dur
    OBVIOUS
  <2> HIDE DEF new
  <2> QED BY <1>1, <1>2, <1>3, <2>1, <2>2, KlineEnds
<1>5. K!TypeOK' /\ delayed' \in Seq(Users)
  <2>1. K!EmptyList' = K!EmptyList
    BY DEF K!EmptyList
  <2> HIDE DEF k, new
  <2>2. kline' \in [AkillMasks -> 0 .. End + IntSize] /\ online' \subseteq known'
    BY <1>1, <1>4 DEF AkillsSound, K!TypeOK
  <2> QED BY <1>1, <1>3, <2>1, <2>2 DEF AkillsSound, K!TypeOK, K!ToSet, K!IsInjective
<1>6. ASSUME NEW u \in online' \ (K!ToSet(delayed') \cup spared'), NEW x \in AkillMasks, u \in Victims[x]
      PROVE  ~ K!Lasts(row[x])'
  <2>1. u \in online \ (K!ToSet(delayed) \cup spared)
    BY <1>1, <1>6
  <2>2. CASE x # m
    <3>1. ~ K!Lasts(row[x])
      BY <1>6, <2>1 DEF AkillsSound, K!CheckedAreClean
    <3> QED BY <1>1, <1>3, <2>2, <3>1 DEF K!Lasts
  <2>3. CASE x = m /\ now + dur > now
    <3>1. now \in Int /\ dur \in Int
      BY AkillAssumption DEF AkillsSound, K!TypeOK, Durations
    <3>2. now + dur - now >= 0
      BY <2>3, <3>1
    <3>3. kline'[m] > now'
      <4> HIDE DEF k
      <4> QED BY <1>1, <1>4, <3>2
    <3>4. u \in K!Covered(kline)'
      BY <1>1, <1>6, <2>3, <3>3 DEF K!Covered
    <3>5. K!Covered(kline)' = K!Covered(kline')
      BY <1>1 DEF K!Covered
    <3> QED BY <1>1, <1>6, <3>4, <3>5
  <2>4. CASE x = m /\ ~ (now + dur > now)
    BY <1>1, <1>3, <2>4 DEF K!Lasts
  <2> QED BY <2>2, <2>3, <2>4
<1>7. K!CheckedAreClean'
  BY <1>6, <1>1 DEF K!CheckedAreClean, K!ToSet
<1> QED BY <1>5, <1>7 DEF AkillsSound

\* A second passes, or fewer rows, users and K-lines are left.
LEMMA LessSound ==
  ASSUME AkillsSound, now' \in now .. End, kline' \in [AkillMasks -> 0 .. End + IntSize],
         row' \in [AkillMasks -> K!Akill \cup {K!NoRow}],
         \A m \in AkillMasks : row'[m] \in {row[m], K!NoRow},
         cache' \in {K!EmptyList, row'}, delayed' = delayed, known' = known,
         online' \subseteq online, spared' = spared
  PROVE  AkillsSound'
<1>1. now' \in Start .. End /\ now \in Int /\ now' >= now
  BY AkillAssumption DEF AkillsSound, K!TypeOK
<1>2. K!TypeOK' /\ delayed' \in Seq(Users)
  <2>1. K!EmptyList' = K!EmptyList
    BY DEF K!EmptyList
  <2> QED BY <1>1, <2>1 DEF AkillsSound, K!TypeOK, K!ToSet, K!IsInjective
<1>3. ASSUME NEW u \in online' \ (K!ToSet(delayed') \cup spared'), NEW x \in AkillMasks, u \in Victims[x]
      PROVE  ~ K!Lasts(row[x])'
  <2>1. u \in online \ (K!ToSet(delayed) \cup spared)
    BY <1>3
  <2>2. ~ K!Lasts(row[x])
    BY <1>3, <2>1 DEF AkillsSound, K!CheckedAreClean
  <2>3. CASE row'[x] = K!NoRow
    BY <2>3 DEF K!Lasts
  <2>4. CASE row'[x] = row[x] /\ row[x] # K!NoRow
    <3>1. row[x].time + row[x].dur \in Int
      BY <2>4, AkillAssumption DEF AkillsSound, K!TypeOK, K!Akill
    <3>2. ~ (row[x].time + row[x].dur > now)
      BY <2>2, <2>4 DEF K!Lasts
    <3>3. ~ (row[x].time + row[x].dur > now')
      <4> DEFINE end == row[x].time + row[x].dur
      <4> HIDE DEF end
      <4> QED BY <1>1, <3>1, <3>2 DEF end
    <3> QED BY <2>4, <3>3 DEF K!Lasts
  <2> QED BY <2>3, <2>4
<1>4. K!CheckedAreClean'
  BY <1>3 DEF K!CheckedAreClean, K!ToSet
<1> QED BY <1>2, <1>4 DEF AkillsSound

\* Users come, and go, and come again when services are restarted.
LEMMA UsersSound ==
  ASSUME AkillsSound,
         K!Restart \/ \E u \in Users : K!Connect(u) \/ K!Quit(u)
  PROVE  AkillsSound'
<1>1. ASSUME now' = now, row' = row, cache' = cache \/ cache' = K!EmptyList, kline' = kline,
             known' \subseteq Users, online' \subseteq known', spared' \subseteq known',
             delayed' \in Seq(Users), K!IsInjective(delayed'), K!ToSet(delayed') \subseteq known',
             \A u \in online' \ (K!ToSet(delayed') \cup spared') :
               u \in online \ (K!ToSet(delayed) \cup spared)
      PROVE  AkillsSound'
  <2>1. K!EmptyList' = K!EmptyList
    BY DEF K!EmptyList
  <2>2. /\ K!ToSet(delayed)' = K!ToSet(delayed') /\ K!IsInjective(delayed)' = K!IsInjective(delayed')
        /\ \A r : K!Lasts(r)' <=> K!Lasts(r)
    BY <1>1 DEF K!ToSet, K!IsInjective, K!Lasts
  <2>3. K!TypeOK'
    BY <1>1, <2>1, <2>2 DEF AkillsSound, K!TypeOK
  <2>4. ASSUME NEW u \in online' \ (K!ToSet(delayed') \cup spared'), NEW m \in AkillMasks, u \in Victims[m]
        PROVE  ~ K!Lasts(row[m])
    BY <1>1, <2>4 DEF AkillsSound, K!CheckedAreClean
  <2>5. K!CheckedAreClean'
    BY <1>1, <2>2, <2>4 DEF K!CheckedAreClean, K!Lasts
  <2> QED BY <1>1, <2>3, <2>5 DEF AkillsSound
<1>2. ASSUME NEW u \in Users, K!Connect(u) PROVE AkillsSound'
  <2>1. /\ u \notin online \cup known
        /\ online' = online \cup {u} /\ known' = known \cup {u}
        /\ delayed' = << u >> \o delayed
        /\ UNCHANGED << now, row, cache, kline, spared >>
    BY <1>2 DEF K!Connect, K!OnNewUser
  <2> DEFINE n == Len(delayed)
             s == << u >> \o delayed
  <2>2. /\ delayed \in Seq(Users) /\ n \in Nat /\ DOMAIN delayed = 1 .. n
        /\ \A i, j \in 1 .. n : delayed[i] = delayed[j] => i = j
        /\ \A i \in 1 .. n : delayed[i] \in known
    BY LenProperties DEF AkillsSound, K!TypeOK, K!IsInjective, K!ToSet
  <2>3. << u >> \in Seq(Users) /\ Len(<< u >>) = 1 /\ << u >>[1] = u
    OBVIOUS
  <2>4. /\ s \in Seq(Users) /\ Len(s) = 1 + n
        /\ \A i \in 1 .. 1 + n : s[i] = IF i <= 1 THEN << u >>[i] ELSE delayed[i - 1]
    BY <2>2, <2>3, ConcatProperties
  <2>5. DOMAIN s = 1 .. 1 + n
    BY <2>4, LenProperties
  <2> HIDE DEF s, n
  <2>6. s[1] = u /\ \A i \in 2 .. 1 + n : s[i] = delayed[i - 1] /\ i - 1 \in 1 .. n
    BY <2>2, <2>3, <2>4
  <2>7. K!IsInjective(s)
    <3>1. ASSUME NEW i \in 1 .. 1 + n, NEW j \in 1 .. 1 + n, s[i] = s[j] PROVE i = j
      <4>1. CASE i = 1 /\ j = 1
        BY <4>1
      <4>2. CASE i = 1 /\ j \in 2 .. 1 + n
        BY <2>1, <2>2, <2>6, <3>1, <4>2
      <4>3. CASE i \in 2 .. 1 + n /\ j = 1
        BY <2>1, <2>2, <2>6, <3>1, <4>3
      <4>4. CASE i \in 2 .. 1 + n /\ j \in 2 .. 1 + n
        <5>1. i - 1 = j - 1
          BY <2>2, <2>6, <3>1, <4>4
        <5> QED BY <2>2, <4>4, <5>1
      <4> QED BY <2>2, <4>1, <4>2, <4>3, <4>4
    <3> QED BY <2>5, <3>1 DEF K!IsInjective
  <2>8. K!ToSet(s) = K!ToSet(delayed) \cup {u}
    <3>1. \A i \in 1 .. n : i + 1 \in 2 .. 1 + n /\ s[i + 1] = delayed[i]
      BY <2>2, <2>6
    <3>2. 1 \in 1 .. 1 + n /\ 2 .. 1 + n \subseteq 1 .. 1 + n
      BY <2>2
    <3>3. \A i \in 1 .. 1 + n : s[i] \in K!ToSet(delayed) \cup {u}
      <4>1. ASSUME NEW i \in 1 .. 1 + n PROVE i = 1 \/ i \in 2 .. 1 + n
        BY <2>2
      <4>2. \A i \in 2 .. 1 + n : s[i] \in K!ToSet(delayed)
        BY <2>2, <2>6 DEF K!ToSet
      <4> QED BY <2>6, <4>1, <4>2
    <3>4. K!ToSet(delayed) \subseteq K!ToSet(s)
      BY <2>2, <2>5, <3>1, <3>2 DEF K!ToSet
    <3>5. u \in K!ToSet(s)
      BY <2>5, <2>6, <3>2 DEF K!ToSet
    <3> QED BY <2>5, <3>3, <3>4, <3>5 DEF K!ToSet
  <2>9. K!ToSet(delayed) \subseteq known /\ known \subseteq Users /\ online \subseteq known /\ spared \subseteq known
    BY DEF AkillsSound, K!TypeOK
  <2>10. delayed' = s
    BY <2>1 DEF s
  <2> HIDE <1>2
  <2> QED BY <1>1, <2>1, <2>4, <2>7, <2>8, <2>9, <2>10
<1>3. ASSUME NEW u \in Users, K!Quit(u) PROVE AkillsSound'
  <2>1. /\ known' = known \ {u} /\ online' = online \ {u} /\ spared' = spared \ {u}
        /\ delayed' = K!RemoveFirst(delayed, u)
        /\ UNCHANGED << now, row, cache, kline >>
    BY <1>3 DEF K!Quit
  <2>2. /\ delayed' \in Seq(Users) /\ K!IsInjective(delayed')
        /\ K!ToSet(delayed') = K!ToSet(delayed) \ {u}
    BY <2>1, RemovedOnce DEF AkillsSound, K!TypeOK
  <2>3. K!ToSet(delayed) \subseteq known /\ known \subseteq Users /\ online \subseteq known /\ spared \subseteq known
    BY DEF AkillsSound, K!TypeOK
  <2> QED BY <1>1, <2>1, <2>2, <2>3
<1>4. CASE K!Restart
  <2>1. /\ cache' = K!EmptyList /\ known' = online /\ delayed' \in K!SetToSeqs(online)
        /\ spared' = {} /\ UNCHANGED << now, row, online, kline >>
    BY <1>4 DEF K!Restart
  <2>2. online \subseteq Users /\ IsFiniteSet(online)
    BY VictimsAssumption, FS_Subset DEF AkillsSound, K!TypeOK
  <2>3. delayed' \in Seq(online) /\ K!IsInjective(delayed') /\ K!ToSet(delayed') = online
    BY <2>1, <2>2, EverybodyListed
  <2>4. delayed' \in Seq(Users)
    BY <2>2, <2>3, SeqMonotonic
  <2> QED BY <1>1, <2>1, <2>2, <2>3, <2>4
<1> QED BY <1>2, <1>3, <1>4

\* What is cut off a list, and what is left, are all there was.
LEMMA SplitList ==
  ASSUME NEW S, NEW s \in Seq(S), K!IsInjective(s), NEW n \in 0 .. Len(s)
  PROVE  LET first == SubSeq(s, 1, n)
             rest == SubSeq(s, n + 1, Len(s))
         IN  /\ rest \in Seq(S) /\ K!IsInjective(rest)
             /\ K!ToSet(s) = K!ToSet(first) \cup K!ToSet(rest)
<1> DEFINE l == Len(s)
           first == SubSeq(s, 1, n)
           rest == SubSeq(s, n + 1, l)
<1>1. l \in Nat /\ DOMAIN s = 1 .. l /\ \A i \in 1 .. l : s[i] \in S
  BY LenProperties, ElementOfSeq
<1> HIDE DEF l
<1>2. n \in Int /\ 0 <= n /\ n <= l /\ n + 1 \in Int /\ l \in Int
  BY <1>1 DEF l
<1>3. (\A i \in 1 .. n : s[i] \in S) /\ (\A i \in n + 1 .. l : s[i] \in S)
  <2>1. 1 .. n \subseteq 1 .. l /\ n + 1 .. l \subseteq 1 .. l
    BY <1>2
  <2> QED BY <1>1, <2>1
<1>4. /\ first \in Seq(S) /\ Len(first) = IF 1 <= n THEN n - 1 + 1 ELSE 0
      /\ \A i \in 1 .. n - 1 + 1 : first[i] = s[1 + i - 1]
  BY <1>2, <1>3, SubSeqProperties
<1>5. /\ rest \in Seq(S) /\ Len(rest) = IF n + 1 <= l THEN l - (n + 1) + 1 ELSE 0
      /\ \A i \in 1 .. l - (n + 1) + 1 : rest[i] = s[n + 1 + i - 1]
  BY <1>2, <1>3, SubSeqProperties
<1>6. DOMAIN first = 1 .. Len(first) /\ DOMAIN rest = 1 .. Len(rest)
  BY <1>4, <1>5, LenProperties
<1> HIDE DEF first, rest
<1>7. DOMAIN first = 1 .. n /\ \A i \in 1 .. n : first[i] = s[i]
  <2>1. Len(first) = n
    BY <1>2, <1>4
  <2>2. \A i \in 1 .. n : i \in 1 .. n - 1 + 1 /\ 1 + i - 1 = i
    BY <1>2
  <2> QED BY <1>4, <1>6, <2>1, <2>2
<1>8. DOMAIN rest = 1 .. l - n /\ \A i \in 1 .. l - n : rest[i] = s[n + i]
  <2>1. Len(rest) = l - n
    BY <1>2, <1>5
  <2>2. \A i \in 1 .. l - n : i \in 1 .. l - (n + 1) + 1 /\ n + 1 + i - 1 = n + i
    BY <1>2
  <2> QED BY <1>5, <1>6, <2>1, <2>2
<1>9. /\ \A i \in 1 .. l : i \in 1 .. n \/ (i - n \in 1 .. l - n /\ n + (i - n) = i)
      /\ \A i \in 1 .. l - n : n + i \in 1 .. l
      /\ \A i, j \in 1 .. l - n : n + i = n + j => i = j
      /\ \A i \in 1 .. n : i \in 1 .. l
  BY <1>2
<1>10. K!IsInjective(rest)
  <2> SUFFICES ASSUME NEW i \in 1 .. l - n, NEW j \in 1 .. l - n, rest[i] = rest[j] PROVE i = j
    BY <1>8 DEF K!IsInjective
  <2>1. s[n + i] = s[n + j] /\ n + i \in 1 .. l /\ n + j \in 1 .. l
    BY <1>8, <1>9
  <2>2. n + i = n + j
    BY <1>1, <2>1 DEF K!IsInjective
  <2> QED BY <1>9, <2>2
<1>11. K!ToSet(s) \subseteq K!ToSet(first) \cup K!ToSet(rest)
  <2> SUFFICES ASSUME NEW i \in 1 .. l PROVE s[i] \in K!ToSet(first) \cup K!ToSet(rest)
    BY <1>1 DEF K!ToSet
  <2>1. CASE i \in 1 .. n
    BY <1>7, <2>1 DEF K!ToSet
  <2>2. CASE i - n \in 1 .. l - n /\ n + (i - n) = i
    <3>1. rest[i - n] = s[i]
      BY <1>8, <2>2
    <3> QED BY <1>8, <2>2, <3>1 DEF K!ToSet
  <2> QED BY <1>9, <2>1, <2>2
<1>12. K!ToSet(first) \subseteq K!ToSet(s) /\ K!ToSet(rest) \subseteq K!ToSet(s)
  BY <1>1, <1>7, <1>8, <1>9, SMTT(30) DEF K!ToSet
<1> QED BY <1>5, <1>10, <1>11, <1>12 DEF first, rest, l

\* check_akills: who leaves the list matches no row, or is gone, or the first row
\* that matched had ended.
LEMMA CheckSound == ASSUME AkillsSound, K!CheckAkills PROVE AkillsSound'
<1> DEFINE n == IF Len(delayed) < CheckCnt THEN Len(delayed) ELSE CheckCnt
           first == SubSeq(delayed, 1, n)
           rest == SubSeq(delayed, n + 1, Len(delayed))
           hit == {u \in K!ToSet(first) : K!FirstMatch(u) # {}}
<1>1. /\ delayed' = rest /\ cache' = K!Loaded /\ UNCHANGED << now, row, known >>
  BY DEF K!CheckAkills
<1>2. PICK pick \in [hit -> AkillMasks] :
        /\ \A u \in hit : pick[u] \in K!FirstMatch(u)
        /\ kline' = [m \in AkillMasks |-> IF \E u \in hit : pick[u] = m
                                         THEN K!SendAkill(kline, m, K!Loaded[m])[m] ELSE kline[m]]
        /\ online' = online \ K!Covered(kline')
        /\ spared' = spared \cup {u \in hit : K!SendAkill(kline, pick[u], K!Loaded[pick[u]]) = kline}
  <2>1. \E pick \in [hit -> AkillMasks] :
          /\ \A u \in hit : pick[u] \in K!FirstMatch(u)
          /\ K!Place([m \in AkillMasks |-> IF \E u \in hit : pick[u] = m
                                           THEN K!SendAkill(kline, m, K!Loaded[m])[m] ELSE kline[m]])
          /\ spared' = spared \cup {u \in hit : K!SendAkill(kline, pick[u], K!Loaded[pick[u]]) = kline}
    BY Zenon DEF K!CheckAkills
  <2> HIDE DEF hit
  <2> QED BY <2>1, ZenonT(60) DEF K!Place
<1>3. K!Loaded = row /\ cache' = row'
  BY <1>1 DEF K!Loaded, AkillsSound, K!TypeOK
<1>4. /\ rest \in Seq(Users) /\ K!IsInjective(rest)
      /\ K!ToSet(delayed) = K!ToSet(first) \cup K!ToSet(rest)
  <2>1. delayed \in Seq(Users) /\ K!IsInjective(delayed) /\ n \in 0 .. Len(delayed)
    BY AkillAssumption, LenProperties DEF AkillsSound, K!TypeOK
  <2> HIDE DEF n
  <2> QED BY <2>1, SplitList
<1>5. K!ToSet(first) \subseteq known /\ K!ToSet(rest) \subseteq known
  BY <1>4 DEF AkillsSound, K!TypeOK
<1> HIDE DEF first, rest
<1>6. \A u \in hit : pick[u] \in AkillMasks /\ u \in Victims[pick[u]] /\ row[pick[u]] \in K!Akill
  BY <1>2, <1>3 DEF K!FirstMatch, K!Listed, AkillsSound, K!TypeOK
<1>7. now \in Start .. End /\ kline \in [AkillMasks -> 0 .. End + IntSize]
  BY DEF AkillsSound, K!TypeOK
<1>8. kline' \in [AkillMasks -> 0 .. End + IntSize]
  <2>1. ASSUME NEW m \in AkillMasks, \E u \in hit : pick[u] = m
        PROVE  K!SendAkill(kline, m, K!Loaded[m])[m] \in 0 .. End + IntSize
    <3>1. row[m] \in K!Akill
      BY <1>6, <2>1
    <3>2. K!SendAkill(kline, m, row[m]) \in [AkillMasks -> 0 .. End + IntSize]
      BY <1>7, <3>1, KlineEnds
    <3> QED BY <1>3, <3>2
  <2> HIDE DEF hit
  <2> QED BY <1>2, <1>7, <2>1
<1>9. ASSUME NEW u \in hit, u \notin spared'
      PROVE  u \notin online'
  <2> DEFINE p == pick[u]
  <2>1. p \in AkillMasks /\ u \in Victims[p] /\ row[p] \in K!Akill
    BY <1>6
  <2>2. K!SendAkill(kline, p, row[p]) # kline
    BY <1>2, <1>3, <1>9
  <2>3. row[p].time + row[p].dur - now \in Int
    BY <1>7, <2>1, AkillAssumption DEF K!Akill
  <2>4. row[p].time + row[p].dur - now >= 0
    <3> DEFINE left == row[p].time + row[p].dur - now
    <3>1. left < 0 => K!SendAkill(kline, p, row[p]) = kline
      BY <1>7, <2>1, KlineEnds
    <3> HIDE DEF left
    <3>2. left >= 0
      BY <2>2, <2>3, <3>1 DEF left
    <3> QED BY <3>2 DEF left
  <2>5. K!SendAkill(kline, p, row[p])[p] > now
    BY <1>7, <2>1, <2>4, KlineEnds
  <2>6. kline'[p] > now
    BY <1>2, <1>3, <2>1, <2>5
  <2> HIDE DEF p
  <2>7. u \in K!Covered(kline')
    BY <2>1, <2>6 DEF K!Covered
  <2> QED BY <1>2, <2>7
<1>10. ASSUME NEW u \in K!ToSet(first), u \notin hit, NEW m \in AkillMasks, u \in Victims[m]
       PROVE  row[m] = K!NoRow
  <2> SUFFICES ASSUME row[m] # K!NoRow PROVE FALSE
    OBVIOUS
  <2> DEFINE T == {x \in AkillMasks : row[x] # K!NoRow /\ u \in Victims[x]}
  <2>1. PICK x \in T : \A y \in T : row[y].time <= row[x].time
    <3>1. T \in SUBSET AkillMasks /\ T # {} /\ \A x \in T : row[x] # K!NoRow
      BY <1>10
    <3>2. row \in [AkillMasks -> K!Akill \cup {K!NoRow}]
      BY DEF AkillsSound, K!TypeOK
    <3> HIDE DEF T
    <3> QED BY <3>1, <3>2, NewestExists
  <2>2. x \in K!FirstMatch(u)
    BY <1>3, <2>1 DEF K!FirstMatch, K!Listed
  <2> QED BY <1>10, <2>2
<1> HIDE DEF hit
<1>11. hit \subseteq K!ToSet(first)
  BY DEF hit
<1>12. K!EmptyList' = K!EmptyList /\ K!ToSet(delayed)' = K!ToSet(delayed') /\ K!IsInjective(delayed)' = K!IsInjective(delayed')
  BY DEF K!EmptyList, K!ToSet, K!IsInjective
<1>13. K!TypeOK'
  <2>1. online' \subseteq known' /\ spared' \subseteq known'
    BY <1>1, <1>2, <1>5, <1>11 DEF AkillsSound, K!TypeOK
  <2>2. K!ToSet(delayed') \subseteq known' /\ K!IsInjective(delayed')
    BY <1>1, <1>4, <1>5
  <2> QED BY <1>1, <1>3, <1>8, <1>12, <2>1, <2>2 DEF AkillsSound, K!TypeOK
<1>14. ASSUME NEW u \in online' \ (K!ToSet(delayed') \cup spared'), NEW m \in AkillMasks, u \in Victims[m]
       PROVE  ~ K!Lasts(row[m])
  <2>1. u \in online /\ u \notin spared
    BY <1>2, <1>14
  <2>2. CASE u \in K!ToSet(first)
    <3>1. u \notin hit
      BY <1>9, <1>14
    <3> QED BY <1>10, <1>14, <2>2, <3>1 DEF K!Lasts
  <2>3. CASE u \notin K!ToSet(first)
    <3>1. u \notin K!ToSet(delayed)
      BY <1>1, <1>4, <1>14, <2>3
    <3> QED BY <1>14, <2>1, <3>1 DEF AkillsSound, K!CheckedAreClean
  <2> QED BY <2>2, <2>3
<1>15. K!CheckedAreClean'
  BY <1>1, <1>12, <1>14 DEF K!CheckedAreClean, K!Lasts
<1> QED BY <1>1, <1>4, <1>13, <1>15 DEF AkillsSound

\* For any users, masks and durations, and a check of any number of users at a
\* time.
LEMMA AkillsHold == K!Init /\ [][K!Next]_K!vars => []K!CheckedAreClean
<1>1. K!Init => AkillsSound
  <2> SUFFICES ASSUME K!Init PROVE AkillsSound
    OBVIOUS
  <2>1. K!EmptyList \in [AkillMasks -> K!Akill \cup {K!NoRow}]
    BY DEF K!EmptyList
  <2>2. delayed = << >> /\ K!ToSet(delayed) = {} /\ K!IsInjective(delayed) /\ delayed \in Seq(Users)
    BY DEF K!Init, K!ToSet, K!IsInjective
  <2> QED BY <2>1, <2>2, AkillAssumption DEF K!Init, AkillsSound, K!TypeOK, K!CheckedAreClean
<1>2. AkillsSound /\ [K!Next]_K!vars => AkillsSound'
  <2> SUFFICES ASSUME AkillsSound, [K!Next]_K!vars PROVE AkillsSound'
    OBVIOUS
  <2>0. /\ now \in Start .. End /\ row \in [AkillMasks -> K!Akill \cup {K!NoRow}]
        /\ kline \in [AkillMasks -> 0 .. End + IntSize] /\ cache \in {K!EmptyList, row}
        /\ now \in now .. End /\ 0 \in 0 .. End + IntSize
    BY AkillAssumption DEF AkillsSound, K!TypeOK
  <2>1. CASE K!Restart \/ \E u \in Users : K!Connect(u) \/ K!Quit(u)
    BY <2>1, UsersSound
  <2>2. CASE K!KlinesLost
    BY <2>0, <2>2, LessSound DEF K!KlinesLost
  <2>3. ASSUME NEW m \in AkillMasks, K!AkillAdd(m) \/ K!FloodAkill(m) PROVE AkillsSound'
    <3>1. PICK dur \in Durations : K!Insert(m, dur)
      BY <2>3, DurationFits, AkillAssumption DEF K!AkillAdd, K!FloodAkill, Durations
    <3> QED BY <3>1, InsertSound
  <2>4. ASSUME NEW m \in AkillMasks, K!AkillDel(m) PROVE AkillsSound'
    BY <2>0, <2>4, LessSound DEF K!AkillDel, K!RemoveMasks, K!Place
  <2>5. CASE K!ExpireAkills
    <3>1. K!RemoveMasks(K!Expired) /\ UNCHANGED << now, delayed, known, online, kline, spared >>
      BY <2>5 DEF K!ExpireAkills
    <3> DEFINE gone == K!Expired
    <3> HIDE DEF gone
    <3>2. /\ row' \in [AkillMasks -> K!Akill \cup {K!NoRow}]
          /\ \A m \in AkillMasks : row'[m] \in {row[m], K!NoRow}
      BY <2>0, <3>1 DEF K!RemoveMasks
    <3>3. cache' \in {K!EmptyList, row'}
      <4>1. CASE K!Expired = {}
        <5>1. row' = row
          BY <2>0, <3>1, <4>1 DEF K!RemoveMasks
        <5> QED BY <2>0, <3>1, <4>1, <5>1 DEF K!RemoveMasks
      <4>2. CASE K!Expired # {}
        BY <3>1, <4>2 DEF K!RemoveMasks
      <4> QED BY <4>1, <4>2
    <3> QED BY <2>0, <3>1, <3>2, <3>3, LessSound
  <2>6. CASE K!CheckAkills
    BY <2>6, CheckSound
  <2>7. CASE K!Tick
    <3>1. now' \in now .. End
      BY <2>0, <2>7, AkillAssumption DEF K!Tick
    <3> QED BY <2>0, <2>7, <3>1, LessSound DEF K!Tick
  <2>8. CASE UNCHANGED K!vars
    BY <2>0, <2>8, LessSound DEF K!vars
  <2> QED BY <2>1, <2>2, <2>3, <2>4, <2>5, <2>6, <2>7, <2>8 DEF K!Next
<1>3. AkillsSound => K!CheckedAreClean
  BY DEF AkillsSound
<1> QED BY <1>1, <1>2, <1>3, PTL

\* A user that was checked and is still there matches no AKILL with time left,
\* although ircds lose K-lines, durations overflow and services are restarted,
\* unless the row that was looked at had ended. (src/akill.c, modules/operserv.c,
\* send_akill)
THEOREM CheckedStayClean == MCSpec => []CheckedAreClean
<1>1. MCInit => K!Init
  BY DEF MCInit
<1>2. [MCNext]_<<part, vars, avars, dvars>> => [K!Next]_K!vars
  BY DEF MCNext, avars, K!vars
<1> QED BY <1>1, <1>2, AkillsHold, PTL DEF MCSpec, CheckedAreClean
-----------------------------------------------------------------------------
(* What services tell.                                                     *)

\* Rights are what Init chose, which no command here changes.
RightsFit ==
  /\ rights \in [Rooms -> [D!Holders -> {0, D!MEMBER, D!MASTER}]]
  /\ \A ch \in Rooms : \E h \in D!Holders : rights[ch][h] = D!MASTER
  /\ member \in [Groups -> [People -> {0, D!GRPMEMBER, D!GRPMASTER}]]

\* The inductive invariant: access is what account and user mode give.
DisclosureSound == D!TypeOK /\ D!SudoIsOver /\ RightsFit

LEMMA RankFits == ASSUME NEW a, NEW op \in BOOLEAN
                  PROVE  /\ D!Rank(a, op) \in 0 .. 3
                         /\ D!Rank(a, op) >= 2 => op
BY DEF D!Rank, D!USER, D!IDENTIFIED, D!OPER, D!ADMIN

\* The highest entry of an account and its groups is one of them, and none is
\* higher.
LEMMA LevelIsHighest ==
  ASSUME RightsFit, NEW ch \in Rooms, NEW a \in People
  PROVE  /\ \E h \in {a} \cup {g \in Groups : member[g][a] # 0} : D!LevelOf(ch, a) = rights[ch][h]
         /\ \A h \in {a} \cup {g \in Groups : member[g][a] # 0} : rights[ch][h] <= D!LevelOf(ch, a)
         /\ D!LevelOf(ch, a) \in {0, 2, 4}
<1> DEFINE entries == {rights[ch][h] : h \in {a} \cup {g \in Groups : member[g][a] # 0}}
<1>1. \A h \in {a} \cup {g \in Groups : member[g][a] # 0} : rights[ch][h] \in {0, 2, 4}
  BY DEF RightsFit, D!Holders, D!MEMBER, D!MASTER
<1>2. entries \subseteq {0, 2, 4} /\ entries # {}
  BY <1>1
<1>3. D!LevelOf(ch, a) = CHOOSE l \in entries : \A k \in entries : k <= l
  BY DEF D!LevelOf
<1> HIDE DEF entries
<1>4. \E l \in entries : \A k \in entries : k <= l
  <2>1. CASE 4 \in entries
    BY <1>2, <2>1
  <2>2. CASE 4 \notin entries /\ 2 \in entries
    BY <1>2, <2>2
  <2>3. CASE 4 \notin entries /\ 2 \notin entries
    <3>1. entries = {0}
      BY <1>2, <2>3
    <3> QED BY <3>1
  <2> QED BY <2>1, <2>2, <2>3
<1>5. D!LevelOf(ch, a) \in entries /\ \A k \in entries : k <= D!LevelOf(ch, a)
  BY <1>3, <1>4
<1> QED BY <1>1, <1>2, <1>5 DEF entries

\* A right of the account, or of a group it is in, is a right on the channel.
LEMMA RightsReach ==
  ASSUME RightsFit, NEW ch \in Rooms, NEW a \in People,
         NEW h \in {a} \cup {g \in Groups : member[g][a] # 0}, rights[ch][h] # 0
  PROVE  D!LevelOf(ch, a) >= D!MEMBER
<1>1. rights[ch][h] \in {2, 4}
  BY DEF RightsFit, D!Holders, D!MEMBER, D!MASTER
<1>2. rights[ch][h] <= D!LevelOf(ch, a) /\ D!LevelOf(ch, a) \in {0, 2, 4}
  BY LevelIsHighest
<1> QED BY <1>1, <1>2 DEF D!MEMBER

\* No more than the names a list is made of.
LEMMA ListsOf ==
  ASSUME NEW kind, NEW names, NEW x \in D!FirstOf(kind, names), NEW f \in x
  PROVE  \E n \in names : f = <<kind, n>>
BY DEF D!FirstOf

\* What a handler finds of a session that is no operator's.
GuestIs(s, c) ==
  /\ c.acct = acct[s] /\ c.access = access[s] /\ c.oper = FALSE
  /\ acct[s] \in People \cup {NoAccount} /\ access[s] \in {D!USER, D!IDENTIFIED}
  /\ access[s] = D!IDENTIFIED => acct[s] \in People

LEMMA SelfOfGuest ==
  ASSUME DisclosureSound, NEW s \in Sessions, ~oper[s]
  PROVE  GuestIs(s, D!Self(s))
<1>1. acct[s] \in People \cup {NoAccount} /\ oper[s] = FALSE /\ access[s] = D!Rank(acct[s], oper[s])
  BY DEF DisclosureSound, D!TypeOK, D!SudoIsOver
<1>2. access[s] = IF acct[s] = NoAccount THEN 0 ELSE 1
  BY <1>1 DEF D!Rank, D!USER, D!IDENTIFIED
<1>3. D!Self(s).acct = acct[s] /\ D!Self(s).access = access[s] /\ D!Self(s).oper = FALSE
  BY <1>1 DEF D!Self
<1> QED BY <1>1, <1>2, <1>3 DEF GuestIs, D!USER, D!IDENTIFIED

LEMMA ChansKnown ==
  ASSUME RightsFit, NEW s \in Sessions, acct[s] \in People, acct[s] # NoAccount,
         NEW h \in {acct[s]} \cup {g \in Groups : member[g][acct[s]] # 0},
         NEW f \in D!ChansOf(h)
  PROVE  D!MayKnow(s, f)
<1>1. PICK ch \in Rooms : rights[ch][h] # 0 /\ f = <<"chan", ch>>
  BY DEF D!ChansOf
<1>2. D!Within(s, ch)
  BY <1>1, RightsReach DEF D!Within
<1> QED BY <1>1, <1>2 DEF D!MayKnow

LEMMA NickInfoKept ==
  ASSUME DisclosureSound, NEW s \in Sessions, NEW c, GuestIs(s, c),
         NEW n \in Nicks, NEW f \in D!NickInfo(c, n)
  PROVE  D!MayKnow(s, f)
<1> DEFINE a == Owner[n]
<1>1. a \in People /\ a # NoAccount
  BY DisclosureAssumption
<1>2. ASSUME NEW m \in D!LinksOf(n), D!InUse(m), f = <<"link", m>> PROVE D!MayKnow(s, f)
  BY <1>2 DEF D!MayKnow
<1>3. ASSUME D!Own(c, a) PROVE acct[s] = a
  BY <1>3 DEF D!Own, GuestIs, D!OPER, D!USER, D!IDENTIFIED
<1>4. ASSUME acct[s] = a,
             \/ f \in {<<"email", a>>, <<"settings", a>>}
             \/ \E m \in D!LinksOf(n) : f = <<"link", m>>
      PROVE  D!MayKnow(s, f)
  <2>1. CASE f \in {<<"email", a>>, <<"settings", a>>}
    BY <1>4, <2>1 DEF D!MayKnow
  <2>2. CASE \E m \in D!LinksOf(n) : f = <<"link", m>>
    BY <1>4, <2>2 DEF D!MayKnow, D!LinksOf
  <2> QED BY <1>4, <2>1, <2>2
<1>5. ASSUME acct[s] = a, f \in D!GroupsOf(a) PROVE D!MayKnow(s, f)
  <2>1. PICK g \in Groups : member[g][a] # 0 /\ f = <<"group", g>>
    BY <1>5 DEF D!GroupsOf
  <2>2. member[g][a] >= D!GRPMEMBER
    BY <1>1, <2>1 DEF DisclosureSound, RightsFit, D!GRPMEMBER, D!GRPMASTER
  <2> QED BY <1>1, <1>5, <2>1, <2>2 DEF D!MayKnow, D!Inside
<1>6. ASSUME acct[s] = a, f \in D!ChansOf(a) PROVE D!MayKnow(s, f)
  BY <1>1, <1>6, ChansKnown DEF DisclosureSound
<1>7. ASSUME f \in D!EmailForAll(a) PROVE D!MayKnow(s, f)
  BY <1>7 DEF D!EmailForAll, D!MayKnow
<1> QED BY <1>2, <1>3, <1>4, <1>5, <1>6, <1>7 DEF D!NickInfo

LEMMA ChanInfoKept ==
  ASSUME DisclosureSound, NEW s \in Sessions, NEW c, GuestIs(s, c),
         NEW ch \in Rooms, NEW f \in D!ChanInfo(c, ch)
  PROVE  D!MayKnow(s, f)
<1>1. CASE \E h : f = <<"holder", ch, h>>
  BY <1>1 DEF D!MayKnow
<1>2. CASE f = <<"inside", ch>> /\ D!ForMembers(c, D!ChanLevel(c, ch))
  <2>1. D!ChanLevel(c, ch) >= D!MEMBER
    BY <1>2 DEF D!ForMembers, GuestIs
  <2>2. D!Within(s, ch)
    BY <2>1 DEF D!ChanLevel, D!Within, GuestIs, D!MEMBER
  <2> QED BY <1>2, <2>2 DEF D!MayKnow
<1> QED BY <1>1, <1>2 DEF D!ChanInfo

LEMMA GroupInfoKept ==
  ASSUME DisclosureSound, NEW s \in Sessions, NEW c, GuestIs(s, c),
         NEW g \in Groups, NEW f \in D!GroupInfo(c, g)
  PROVE  D!MayKnow(s, f)
<1>1. CASE \E h : f = <<"holder", g, h>>
  BY <1>1 DEF D!MayKnow
<1>2. CASE D!ForMembers(c, D!GroupLevel(c, g)) /\ f \in {<<"inside", g>>} \cup D!ChansOf(g)
  <2>1. D!GroupLevel(c, g) >= D!GRPMEMBER
    BY <1>2 DEF D!ForMembers, GuestIs, D!MEMBER, D!GRPMEMBER
  <2>2. D!Inside(s, g) /\ acct[s] \in People /\ acct[s] # NoAccount
    BY <2>1 DEF D!GroupLevel, D!Inside, GuestIs, D!GRPMEMBER
  <2>3. CASE f = <<"inside", g>>
    BY <2>2, <2>3, DisclosureAssumption DEF D!MayKnow
  <2>4. CASE f \in D!ChansOf(g)
    <3>1. member[g][acct[s]] # 0
      BY <2>2 DEF D!Inside, D!GRPMEMBER
    <3> QED BY <2>2, <2>4, <3>1, ChansKnown DEF DisclosureSound
  <2> QED BY <1>2, <2>3, <2>4
<1> QED BY <1>1, <1>2 DEF D!GroupInfo

\* The three LISTs, with and without FORBID.
LEMMA ListsKept ==
  ASSUME NEW s \in Sessions, NEW c, GuestIs(s, c), NEW forbid \in BOOLEAN,
         NEW x \in D!NickList(c, forbid) \cup D!ChanList(c, forbid) \cup D!GroupList(c), NEW f \in x
  PROVE  D!MayKnow(s, f)
<1>1. c.access < D!OPER
  BY DEF GuestIs, D!OPER, D!USER, D!IDENTIFIED
<1>2. \A all, regular, bad : D!Which(c, forbid, all, regular, bad) = regular
  BY <1>1 DEF D!Which
<1>3. CASE x \in D!NickList(c, forbid)
  <2>1. x \in D!FirstOf("nick", {n \in Nicks : Owner[n] \notin private})
    BY <1>2, <1>3 DEF D!NickList
  <2>2. PICK n \in Nicks : Owner[n] \notin private /\ f = <<"nick", n>>
    BY <2>1, ListsOf
  <2> QED BY <2>2 DEF D!MayKnow
<1>4. CASE x \in D!ChanList(c, forbid)
  <2>1. x \in D!FirstOf("chan", D!Public(Rooms))
    BY <1>2, <1>4 DEF D!ChanList
  <2>2. PICK ch \in D!Public(Rooms) : f = <<"chan", ch>>
    BY <2>1, ListsOf
  <2> QED BY <2>2 DEF D!MayKnow, D!Public
<1>5. CASE x \in D!GroupList(c)
  <2>1. x \in D!FirstOf("group", D!Public(Groups))
    BY <1>1, <1>5 DEF D!GroupList, GuestIs, D!OPER, D!USER, D!IDENTIFIED
  <2>2. PICK g \in D!Public(Groups) : f = <<"group", g>>
    BY <2>1, ListsOf
  <2> QED BY <2>2 DEF D!MayKnow, D!Public
<1> QED BY <1>3, <1>4, <1>5

LEMMA GuestsKept ==
  ASSUME DisclosureSound, NEW s \in Sessions, ~oper[s], NEW f \in D!Told(D!Self(s))
  PROVE  D!MayKnow(s, f)
<1> DEFINE c == D!Self(s)
<1>1. GuestIs(s, c)
  BY SelfOfGuest
<1>2. f \in D!Told(c)
  OBVIOUS
<1> HIDE DEF c
<1>3. CASE \E n \in Nicks : f \in D!NickInfo(c, n)
  BY <1>1, <1>3, NickInfoKept
<1>4. CASE f \in D!OwnLists(c)
  BY <1>1, <1>4 DEF D!OwnLists, D!MayKnow, GuestIs, D!IDENTIFIED, D!USER
<1>5. CASE \E ch \in Rooms : f \in D!ChanInfo(c, ch)
  BY <1>1, <1>5, ChanInfoKept
<1>6. CASE \E ch \in Rooms : f \in D!ChanAccess(ch)
  BY <1>6 DEF D!ChanAccess, D!MayKnow
<1>7. CASE \E g \in Groups : f \in D!GroupInfo(c, g)
  BY <1>1, <1>7, GroupInfoKept
<1>8. CASE \E g \in Groups : f \in D!GroupAccess(g)
  BY <1>8 DEF D!GroupAccess, D!MayKnow
<1>9. CASE \E forbid \in BOOLEAN :
             \E x \in D!NickList(c, forbid) \cup D!ChanList(c, forbid) \cup D!GroupList(c) : f \in x
  BY <1>1, <1>9, ListsKept
<1> QED BY <1>2, <1>3, <1>4, <1>5, <1>6, <1>7, <1>8, <1>9 DEF D!Told

\* Whom a session may be told what it is told, of and about anybody.
LEMMA PrivateKept == DisclosureSound => D!PrivateIsKept
<1> SUFFICES ASSUME DisclosureSound, NEW s \in Sessions
             PROVE  /\ \A f \in D!Told(D!Self(s)) : D!MayKnow(s, f)
                    /\ access[s] >= D!ADMIN => oper[s]
  BY DEF D!PrivateIsKept, D!MayKnow
<1>1. \A f \in D!Told(D!Self(s)) : D!MayKnow(s, f)
  <2>1. CASE oper[s]
    BY <2>1 DEF D!MayKnow
  <2>2. CASE ~oper[s]
    BY <2>2, GuestsKept
  <2> QED BY <2>1, <2>2
<1>2. oper[s] \in BOOLEAN /\ access[s] = D!Rank(acct[s], oper[s])
  BY DEF DisclosureSound, D!TypeOK, D!SudoIsOver
<1> QED BY <1>1, <1>2, RankFits DEF D!ADMIN

LEMMA ListsComplete == DisclosureSound => D!ListsTellAll
<1> SUFFICES ASSUME DisclosureSound, NEW ch \in Rooms PROVE
      /\ \A a \in People :
           D!LevelOf(ch, a) >= D!MEMBER =>
             \/ <<"holder", ch, a>> \in D!ChanAccess(ch)
             \/ \E g \in Groups : <<"holder", ch, g>> \in D!ChanAccess(ch)
                               /\ <<"holder", g, a>> \in D!GroupAccess(g)
      /\ \A s \in Sessions : \E h \in D!Holders : <<"holder", ch, h>> \in D!ChanInfo(D!Self(s), ch)
  BY DEF D!ListsTellAll
<1>1. ASSUME NEW a \in People, D!LevelOf(ch, a) >= D!MEMBER
      PROVE  \/ <<"holder", ch, a>> \in D!ChanAccess(ch)
             \/ \E g \in Groups : <<"holder", ch, g>> \in D!ChanAccess(ch)
                               /\ <<"holder", g, a>> \in D!GroupAccess(g)
  <2>1. PICK h \in {a} \cup {g \in Groups : member[g][a] # 0} : D!LevelOf(ch, a) = rights[ch][h]
    BY LevelIsHighest DEF DisclosureSound
  <2>2. h \in D!Holders /\ rights[ch][h] # 0
    BY <1>1, <2>1 DEF D!Holders, D!MEMBER
  <2>3. <<"holder", ch, h>> \in D!ChanAccess(ch)
    BY <2>2 DEF D!ChanAccess
  <2>4. CASE h = a
    BY <2>3, <2>4
  <2>5. CASE h \in Groups /\ member[h][a] # 0
    BY <2>3, <2>5 DEF D!GroupAccess
  <2> QED BY <2>1, <2>4, <2>5
<1>2. \A s \in Sessions : \E h \in D!Holders : <<"holder", ch, h>> \in D!ChanInfo(D!Self(s), ch)
  <2>1. PICK h \in D!Holders : rights[ch][h] = D!MASTER
    BY DEF DisclosureSound, RightsFit
  <2> QED BY <2>1 DEF D!ChanInfo
<1> QED BY <1>1, <1>2

\* A SET, as oneself or with SUDO, moves private and nothing else that counts.
LEMMA SetSound ==
  ASSUME DisclosureSound, NEW c, NEW x \in D!Holders \cup Rooms, D!SetPrivate(c, x),
         acct' = acct, access' = access
  PROVE  DisclosureSound'
<1>1. private' \subseteq D!Holders \cup Rooms
  BY DEF DisclosureSound, D!TypeOK, D!SetPrivate
<1>2. oper' = oper /\ rights' = rights /\ member' = member /\ barred' = barred
  BY DEF D!SetPrivate
<1> QED BY <1>1, <1>2 DEF DisclosureSound, D!TypeOK, D!SudoIsOver, RightsFit

LEMMA DisclosureHolds == D!Init /\ [][D!Next]_D!vars => []D!TellsRightly
<1>1. D!Init => DisclosureSound
  <2> SUFFICES ASSUME D!Init PROVE DisclosureSound
    OBVIOUS
  <2>1. RightsFit
    BY DEF D!Init, RightsFit
  <2>2. D!TypeOK
    BY DEF D!Init, D!TypeOK, D!USER, D!SUDO, D!Holders
  <2>3. D!SudoIsOver
    BY DEF D!Init, D!SudoIsOver, D!Rank
  <2> QED BY <2>1, <2>2, <2>3 DEF DisclosureSound
<1>2. DisclosureSound /\ [D!Next]_D!vars => DisclosureSound'
  <2> SUFFICES ASSUME DisclosureSound, [D!Next]_D!vars PROVE DisclosureSound'
    OBVIOUS
  <2>1. ASSUME NEW s \in Sessions, NEW a \in People \cup {NoAccount}, NEW op \in BOOLEAN,
               acct' = [acct EXCEPT ![s] = a], oper' = [oper EXCEPT ![s] = op],
               access' = [access EXCEPT ![s] = D!Rank(a, op)],
               UNCHANGED <<private, rights, member, barred>>
        PROVE  DisclosureSound'
    <3>1. D!Rank(a, op) \in D!USER .. D!SUDO
      BY RankFits DEF D!USER, D!SUDO
    <3>2. D!TypeOK'
      BY <2>1, <3>1 DEF DisclosureSound, D!TypeOK
    <3>3. D!SudoIsOver'
      BY <2>1 DEF DisclosureSound, D!TypeOK, D!SudoIsOver
    <3> QED BY <2>1, <3>2, <3>3 DEF DisclosureSound, RightsFit
  <2>2. ASSUME NEW s \in Sessions
        PROVE  /\ acct[s] \in People \cup {NoAccount} /\ oper[s] \in BOOLEAN
               /\ acct = [acct EXCEPT ![s] = acct[s]] /\ oper = [oper EXCEPT ![s] = oper[s]]
    BY <2>2 DEF DisclosureSound, D!TypeOK
  <2>3. ASSUME NEW s \in Sessions, D!Identify(s) PROVE DisclosureSound'
    <3>1. Owner[Wears[s]] \in People
      BY DisclosureAssumption
    <3> QED BY <2>1, <2>2, <2>3, <3>1 DEF D!Identify
  <2>4. ASSUME NEW s \in Sessions, D!Leave(s) PROVE DisclosureSound'
    <3>1. D!Rank(NoAccount, oper[s]) = D!USER
      BY DEF D!Rank
    <3> QED BY <2>1, <2>2, <2>4, <3>1 DEF D!Leave
  <2>5. ASSUME NEW s \in Sessions, NEW on \in BOOLEAN, D!OperMode(s, on) PROVE DisclosureSound'
    BY <2>1, <2>2, <2>5 DEF D!OperMode
  <2>6. ASSUME NEW s \in Sessions, NEW x \in D!Holders \cup Rooms,
               D!SetOwn(s, x) \/ \E a \in People : D!NickSudo(s, a, x)
        PROVE  DisclosureSound'
    BY <2>6, SetSound DEF D!SetOwn, D!NickSudo
  <2>7. ASSUME NEW s \in Sessions, NEW x \in Rooms \cup Groups, D!OverSudo(s, x)
        PROVE  DisclosureSound'
    <3>1. access[s] \in 0 .. 3 /\ access[s] >= 3
      BY <2>2, <2>7, RankFits DEF DisclosureSound, D!SudoIsOver, D!OverSudo, D!ADMIN
    <3>2. access' = access
      BY <2>7, <3>1 DEF D!OverSudo, D!ADMIN, DisclosureSound, D!TypeOK
    <3> QED BY <2>7, <3>2, SetSound DEF D!OverSudo, D!Holders
  <2>8. CASE UNCHANGED D!vars
    BY <2>8 DEF D!vars, DisclosureSound, D!TypeOK, D!SudoIsOver, RightsFit
  <2> QED BY <2>3, <2>4, <2>5, <2>6, <2>7, <2>8 DEF D!Next
<1>3. DisclosureSound => D!TellsRightly
  BY PrivateKept, ListsComplete DEF D!TellsRightly, DisclosureSound
<1> QED BY <1>1, <1>2, <1>3, PTL

\* Services tell nobody what he has no grounds to know, whichever of their INFO,
\* LIST and ACCESS LIST he asks; who has a right on a channel can be found; and
\* no right that SUDO lends outlives the command: for any sessions, accounts,
\* groups and channels, whatever is private.
THEOREM NoSecretsTold == MCSpec => []ToldRightly
<1>1. MCInit => D!Init
  BY DEF MCInit
<1>2. [MCNext]_<<part, vars, avars, dvars>> => [D!Next]_D!vars
  BY DEF MCNext, dvars, D!vars
<1> QED BY <1>1, <1>2, DisclosureHolds, PTL DEF MCSpec, ToldRightly
=============================================================================
