------------------------------ MODULE MCAccess ------------------------------
(* Two accounts on two channels, without FORBID, or three accounts, one of  *)
(* them an administrator's, on one channel: enough for a channel that        *)
(* accounts share, one that an account owns alone, and a group on either.    *)
(* A behaviour is one of the two, or one of OperServ's AKILLs, or of what    *)
(* services tell about private accounts, channels and groups.                *)
EXTENDS AccessLists, TLC

CONSTANTS a1, a2, a3,
  OneChan, TwoLevels,                       \* what the staff's part uses
  Users, AkillMasks, Victims, Tokens, Minutes, DefaultDur, FloodDur, IntSize, CheckCnt,
  Start, End,                               \* Akills
  Sessions, Wears, Nicks, Owner, People, Rooms, Staff, BadNicks, BadChans, NoAccount,
  ListMax                                   \* Disclosure

VARIABLES part,
  now, row, cache, delayed, known, online, kline, spared,     \* Akills
  oper, acct, access, private, rights, member, barred         \* Disclosure

avars == <<now, row, cache, delayed, known, online, kline, spared>>
dvars == <<oper, acct, access, private, rights, member, barred>>

MCVictims == [m \in AkillMasks |-> IF m = "m1" THEN {"u1"} ELSE {"u1", "u2"}]
MCMinutes == [s \in {"m", "h"} |-> IF s = "m" THEN 1 ELSE 4]
MCTokens == {<<0, "m">>, <<1, "">>, <<1, "h">>, <<2, "h">>}

MCWears == "s1" :> "n1" @@ "s2" :> "n3"
MCOwner == "n1" :> a1 @@ "n2" :> a1 @@ "n3" :> a2

K == INSTANCE Akills
D == INSTANCE Disclosure WITH
  Accounts <- People, Chans <- Rooms, Admins <- Staff, None <- NoAccount, forbidden <- barred

\* Times count from 0, and what is written of a duration is a number.
ASSUME AkillAssumption ==
  /\ Start \in Nat /\ End \in Nat /\ Start <= End
  /\ IntSize \in Nat \ {0} /\ CheckCnt \in Nat
  /\ DefaultDur \in -IntSize .. (IntSize - 1)
  /\ FloodDur \in -IntSize .. (IntSize - 1)
ASSUME TokensAssumption ==
  \A t \in Tokens : t[2] = "" \/ (t[1] \in Int /\ Minutes[t[2]] \in Int)
ASSUME VictimsAssumption == IsFiniteSet(Users) /\ Victims \in [AkillMasks -> SUBSET Users]

\* Nicknames that are worn are registered, to accounts; a name that starts with #
\* is a channel's and one that starts with @ is a group's.
ASSUME DisclosureAssumption ==
  /\ Wears \in [Sessions -> Nicks] /\ Owner \in [Nicks -> People] /\ NoAccount \notin People
  /\ Rooms \cap Groups = {}

\* The part that does not move stays in its initial state.
MCInit ==
  /\ part \in {"owners", "staff", "akills", "told"}
  /\ Init /\ K!Init /\ D!Init
  /\ part # "told" =>
       /\ private = {} /\ barred = {}
       /\ \A h \in D!Holders, r \in Rooms : rights[r][h] = D!MASTER
       /\ \A a \in People, g \in Groups : member[g][a] = D!GRPMASTER

\* Without administrators: no SUDO and no FORBID of a nickname.
OwnersNext == Commands /\ \A a \in Sudoers : nicks'[a] = 0

\* With them, on fewer channels and levels.
StaffNext ==
  /\ Next
  /\ channels' \cup forbidden' \subseteq OneChan
  /\ \A ch \in OneChan, h \in Holders : entry'[ch][h] \in {NONE} \cup TwoLevels

MCNext ==
  /\ part' = part
  /\ \/ part = "owners" /\ OwnersNext /\ UNCHANGED <<avars, dvars>>
     \/ part = "staff" /\ StaffNext /\ UNCHANGED <<avars, dvars>>
     \/ part = "akills" /\ K!Next /\ UNCHANGED <<vars, dvars>>
     \/ part = "told" /\ D!Next /\ UNCHANGED <<vars, avars>>

\* The fairness of Akills.
MCSpec ==
  /\ MCInit /\ [][MCNext]_<<part, vars, avars, dvars>>
  /\ WF_avars(part = "akills" /\ K!ExpireAkills)
  /\ WF_avars(part = "akills" /\ K!CheckAkills)

-----------------------------------------------------------------------------
\* Where nobody may FORBID nicknames a registered channel keeps a MASTER (see
\* AccessLists).
MastersRemain == part = "owners" => ChannelsHaveMaster

\* Services tell everybody, administrators too, of what is private only what he
\* has a right to (see Disclosure).
ToldRightly == part = "told" => D!TellsRightly

\* Whom an AKILL matches is checked, and gone (see Akills).
CheckedAreClean == part = "akills" => K!CheckedAreClean

\* AKILLs whose time has come all go (see Akills).
EndedGo == part = "akills" /\ K!Over # {} ~> K!Over = {} \/ K!Overflows
=============================================================================
