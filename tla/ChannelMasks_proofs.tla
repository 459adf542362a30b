------------------------- MODULE ChannelMasks_proofs -------------------------
(***************************************************************************)
(* The masks of a channel stand, for any number of users, accounts, masks   *)
(* and rows.  A handler works on the channel as a record and gives it back   *)
(* with Become; so the lemmas say what each helper does to the record, and   *)
(* the invariant is a property of the record that is given back.             *)
(***************************************************************************)
EXTENDS ChannelMasks, TLAPS

USE MasksAssumption

Channels == [members : SUBSET Users, net : SUBSET Entries, list : SUBSET Entries,
             old : SUBSET Entries, expiring : BOOLEAN, lifted : SUBSET Entries]

\* A channel that a handler may leave behind, of which services know all if k.
Sound(ch, k) ==
  /\ ch \in Channels
  /\ ch.list \subseteq ch.net /\ ch.old \subseteq Of(Entries, Aging)
  /\ ch.members = {} => ch.net = {} /\ ~ch.expiring
  /\ k => ch.net = ch.list

\* Nobody is on the channel who is to be kept out, under the rows, settings and
\* names after the step.
OutOf(ch, ren) ==
  /\ \A u \in ch.members \ (Gods \cup ren) : AkickMasks(row, u)' = {}
  /\ "restricted" \in flag' => \A u \in ch.members : ~Stranger(u)

\* The channel agrees with the entries s that are stored, but for those in l.
Agrees(ch, s, l) ==
  ch.members # {} => s \subseteq ch.list \cup ch.lifted /\ Of(ch.list, Kinds) \subseteq s \cup l

IInv == MasksStand /\ forgotten \in BOOLEAN

\* What a handler writes beside the channel.
Others ==
  /\ row' \subseteq Rows /\ flag' \subseteq Flags
  /\ \A u \in Users : guise'[u] \in Guises[u]
  /\ loose' \subseteq Entries /\ forgotten' \in BOOLEAN

-----------------------------------------------------------------------------
(* The helpers.                                                            *)

LEMMA StoredEntries ==
  ASSUME row \subseteq Rows
  PROVE  Stored \subseteq Kinds \X Masks /\ Stored \subseteq Entries
<1>1. Stored \subseteq Kinds \X Masks
  BY DEF Stored, Rows
<1> QED BY <1>1 DEF Entries, Lists

LEMMA NowTyped ==
  ASSUME TypeOK
  PROVE  /\ Now \in Channels
         /\ Now.members = members /\ Now.net = netlist /\ Now.list = list
         /\ Now.old = old /\ Now.expiring = expiring /\ Now.lifted = lifted
         /\ old \subseteq Of(Entries, Aging)
BY DEF TypeOK, Now, Channels, Of

LEMMA AddFields ==
  ASSUME NEW ch \in Channels, NEW S \in SUBSET Entries
  PROVE  /\ Add(ch, S) \in Channels
         /\ Add(ch, S).members = ch.members
         /\ Add(ch, S).net = ch.net \cup S /\ Add(ch, S).list = ch.list \cup S
         /\ Add(ch, S).lifted = ch.lifted \ S
         /\ Add(ch, S).old = ch.old /\ Add(ch, S).expiring = ch.expiring
BY DEF Add, AddId, Channels

LEMMA DelFields ==
  ASSUME NEW ch \in Channels, NEW S \in SUBSET Entries
  PROVE  /\ Del(ch, S) \in Channels
         /\ Del(ch, S).members = ch.members
         /\ Del(ch, S).net = ch.net \ S /\ Del(ch, S).list = ch.list \ S
         /\ Del(ch, S).lifted = ch.lifted \cup (S \cap Stored)
         /\ Del(ch, S).old = ch.old /\ Del(ch, S).expiring = ch.expiring
BY DEF Del, DelId, Channels

\* The users S have left ch, which is new then, and nobody or others are there
\* that services do not know of.
Left(ch, S, others, new) ==
  /\ new \in Channels /\ new.members = ch.members \ S
  /\ new.members # {} \/ ch.members = {} =>
       /\ new.net = ch.net /\ new.list = ch.list /\ new.lifted = ch.lifted
       /\ new.old = ch.old /\ new.expiring = ch.expiring
  /\ new.members = {} /\ ch.members # {} =>
       /\ new.list = {} /\ new.old = {} /\ new.lifted = {} /\ new.expiring = FALSE
       /\ others = {} => new.net = {}

LEMMA LeaveFields ==
  ASSUME NEW ch \in Channels, NEW S \in SUBSET Users, NEW others
  PROVE  Left(ch, S, others, Leave(ch, S, others))
<1>1. CASE ch.members # {} /\ ch.members \subseteq S
  BY <1>1 DEF Leave, Channels, Left
<1>2. CASE ~(ch.members # {} /\ ch.members \subseteq S)
  <2>1. Leave(ch, S, others) = [ch EXCEPT !.members = ch.members \ S]
    BY <1>2 DEF Leave
  <2> QED BY <1>2, <2>1 DEF Channels, Left
<1> QED BY <1>1, <1>2

\* The users out were banned by B and kicked, but for those that cannot be.
Banned(ch, B, out, others, new) ==
  /\ new \in Channels /\ new.members = ch.members \ (out \ Gods)
  /\ new.members # {} \/ ch.members = {} =>
       /\ new.net = ch.net \cup B /\ new.list = ch.list \cup B
       /\ new.lifted = ch.lifted \ B
       /\ new.old = ch.old /\ new.expiring = ch.expiring
  /\ new.members = {} /\ ch.members # {} =>
       /\ new.list = {} /\ new.old = {} /\ new.lifted = {} /\ new.expiring = FALSE
       /\ others = {} => new.net = {}

LEMMA BanFields ==
  ASSUME NEW ch \in Channels, NEW B \in SUBSET ({"b"} \X Masks), NEW out \in SUBSET Users,
         NEW others, NEW new, new = Kick(Add(ch, B), out, others)
  PROVE  Banned(ch, B, out, others, new)
<1> DEFINE add == Add(ch, B)
           kicked == out \ Gods
<1>1. B \in SUBSET Entries
  BY DEF Entries, Lists
<1>2. /\ add \in Channels /\ add.members = ch.members
      /\ add.net = ch.net \cup B /\ add.list = ch.list \cup B
      /\ add.lifted = ch.lifted \ B /\ add.old = ch.old /\ add.expiring = ch.expiring
  BY <1>1, AddFields
<1>3. new = Leave(add, kicked, others)
  BY DEF Kick
<1>4. kicked \in SUBSET Users
  OBVIOUS
<1> HIDE DEF add, kicked
<1>5. Left(add, kicked, others, new)
  BY <1>2, <1>3, <1>4, LeaveFields
<1> QED BY <1>2, <1>5 DEF kicked, Left, Banned

\* The masks of AKICKs.
LEMMA AkicksAreMasks ==
  ASSUME NEW rows \in SUBSET Rows, NEW u
  PROVE  AkickMasks(rows, u) \subseteq Masks
<1>1. \A r \in Rows : r.kind = "akick" => AkickMask(r) \in Masks
  <2> TAKE r \in Rows
  <2> HAVE r.kind = "akick"
  <2>1. CASE r \in [kind : Kinds \cup {"akick"}, mask : Masks]
    BY <2>1 DEF AkickMask
  <2>2. CASE r \in [kind : {"akick"}, target : Accounts]
    <3>1. "mask" \notin DOMAIN r /\ r.target \in Accounts
      BY <2>2
    <3> QED BY <3>1 DEF AkickMask
  <2> QED BY <2>1, <2>2 DEF Rows
<1> QED BY <1>1 DEF AkickMasks

\* The AKICKs of rows were enforced against the users S.
Enforced(ch, S, rows, others, new) ==
  \E B \in SUBSET ({"b"} \X Masks) :
    /\ new = Kick(Add(ch, B), {u \in S : AkickMasks(rows, u) # {}}, others)
    /\ S = {} => B = {}

LEMMA EnforceFields ==
  ASSUME NEW ch \in Channels, NEW S \in SUBSET Users, NEW rows \in SUBSET Rows, NEW others,
         NEW new \in Enforce(ch, S, rows, others)
  PROVE  Enforced(ch, S, rows, others, new)
<1> DEFINE hit == {u \in S : AkickMasks(rows, u) # {}}
           picks == {p \in [hit -> Masks] : \A u \in hit : p[u] \in AkickMasks(rows, u)}
<1>1. PICK p \in picks : new = Kick(Add(ch, {<< "b", p[u] >> : u \in hit}), hit, others)
  BY DEF Enforce
<1>2. {<< "b", p[u] >> : u \in hit} \in SUBSET ({"b"} \X Masks)
  OBVIOUS
<1>3. S = {} => {<< "b", p[u] >> : u \in hit} = {}
  OBVIOUS
<1> QED BY <1>1, <1>2, <1>3 DEF Enforced

-----------------------------------------------------------------------------
(* The invariant of what a handler gives back.                             *)

LEMMA BecomeKeeps ==
  ASSUME NEW new, Become(new), Others,
         Sound(new, ~forgotten'), OutOf(new, renamed'), Agrees(new, Stored', loose'),
         renamed' \subseteq new.members
  PROVE  IInv'
<1>1. /\ members' = new.members /\ netlist' = new.net /\ list' = new.list
      /\ old' = new.old \cap new.list /\ expiring' = new.expiring /\ lifted' = new.lifted
  BY DEF Become
<1>2. TypeOK'
  BY <1>1 DEF TypeOK, Sound, Channels, Others, Of, Live
<1>3. OutcastsAreOut'
  BY <1>1 DEF OutcastsAreOut, OutOf, Stranger
<1>4. StoredIsInForce'
  BY <1>1 DEF StoredIsInForce, Agrees, Live
<1>5. ListsAreKnown'
  BY <1>1 DEF ListsAreKnown, Sound, Others
<1> QED BY <1>2, <1>3, <1>4, <1>5 DEF IInv, MasksStand, Others

\* The channel as it is.
LEMMA NowSound ==
  ASSUME IInv
  PROVE  /\ Sound(Now, ~forgotten) /\ Agrees(Now, Stored, loose)
         /\ loose \subseteq Entries /\ renamed \subseteq members /\ row \subseteq Rows
         /\ \A u \in members \ (Gods \cup renamed) : AkickMasks(row, u) = {}
         /\ "restricted" \in flag => \A u \in members : ~Stranger(u)
<1>1. TypeOK
  BY DEF IInv, MasksStand
<1> QED BY <1>1, NowTyped DEF IInv, MasksStand, TypeOK, OutcastsAreOut, StoredIsInForce,
             ListsAreKnown, Sound, Agrees, Live

\* Entries are taken off the channel, and of the rows none, or those of entries
\* that are no longer noted as taken off.
LEMMA RemovalKeeps ==
  ASSUME IInv, NEW S \in SUBSET Entries,
         Leaves(Del(Now, S)), Stored' = Stored, row' \subseteq row, flag' = flag, guise' = guise
  PROVE  IInv'
<1> DEFINE new == Del(Now, S)
<1>1. TypeOK
  BY DEF IInv, MasksStand
<1>2. Now \in Channels /\ Now.members = members /\ Now.list = list
  BY <1>1, NowTyped
<1>3. /\ new \in Channels /\ new.members = members
      /\ new.net = Now.net \ S /\ new.list = Now.list \ S
      /\ new.lifted = Now.lifted \cup (S \cap Stored)
      /\ new.old = Now.old /\ new.expiring = Now.expiring
  BY <1>2, DelFields
<1>4. /\ Become(new) /\ loose' = loose \cap new.list
      /\ forgotten' = (forgotten /\ new.members # {}) /\ renamed' = renamed \cap new.members
  BY DEF Leaves
<1> HIDE DEF new
<1>5. Others /\ renamed' \subseteq new.members
  BY <1>1, <1>4 DEF Others, TypeOK, IInv
<1>6. Sound(new, ~forgotten')
  BY <1>2, <1>3, <1>4, NowSound DEF Sound
<1>7. OutOf(new, renamed')
  BY <1>3, <1>4, NowSound DEF OutOf, AkickMasks, Hit
<1>8. Agrees(new, Stored', loose')
  BY <1>2, <1>3, <1>4, NowSound DEF Agrees, Of
<1> QED BY <1>4, <1>5, <1>6, <1>7, <1>8, BecomeKeeps

\* What Leaves notes of a channel that is new then.
LEMMA LeavesNotes ==
  ASSUME IInv, NEW new, Leaves(new), row' \subseteq Rows, flag' \subseteq Flags,
         \A u \in Users : guise'[u] \in Guises[u]
  PROVE  /\ Become(new) /\ Others
         /\ loose' = loose \cap new.list /\ renamed' = renamed \cap new.members
         /\ forgotten' = (forgotten /\ new.members # {})
BY DEF Leaves, Others, IInv, MasksStand, TypeOK

\* Members are banned and kicked.
LEMMA BanKeeps ==
  ASSUME IInv, Live, NEW out \in SUBSET Users,
         NEW B \in SUBSET ({"b"} \X Masks), NEW new, new = Kick(Add(Now, B), out, {}),
         Leaves(new), row' \subseteq Rows, Stored' = Stored, flag' \subseteq Flags, guise' = guise,
         OutOf(new, renamed')
  PROVE  IInv'
<1>1. TypeOK /\ \A u \in Users : guise'[u] \in Guises[u]
  BY DEF IInv, MasksStand, TypeOK
<1>2. /\ Now \in Channels /\ Now.members = members /\ members # {}
      /\ Now.net = netlist /\ Now.list = list /\ Now.lifted = lifted /\ Now.old = old
  BY <1>1, NowTyped DEF Live
<1>3. /\ new \in Channels
      /\ new.members # {} =>
           /\ new.net = netlist \cup B /\ new.list = list \cup B /\ new.lifted = lifted \ B
           /\ new.old = old
      /\ new.members = {} => new.list = {} /\ new.old = {} /\ ~new.expiring /\ new.net = {}
  <2>1. Banned(Now, B, out, {}, new)
    BY <1>2, BanFields
  <2> QED BY <1>2, <2>1 DEF Banned
<1>4. /\ Become(new) /\ Others
      /\ loose' = loose \cap new.list /\ renamed' = renamed \cap new.members
      /\ forgotten' = (forgotten /\ new.members # {})
  BY <1>1, LeavesNotes
<1>5. list \subseteq netlist /\ old \subseteq Of(Entries, Aging) /\ (~forgotten => netlist = list)
  BY <1>1, NowTyped DEF TypeOK, IInv, MasksStand, ListsAreKnown
<1>6. Sound(new, ~forgotten')
  BY <1>3, <1>4, <1>5 DEF Sound
<1>7. Agrees(new, Stored', loose')
  <2>1. Of(new.list, Kinds) \subseteq list
    BY <1>3 DEF Of
  <2>2. Stored \subseteq list \cup lifted /\ Of(list, Kinds) \subseteq Stored \cup loose
    BY DEF IInv, MasksStand, StoredIsInForce
  <2> QED BY <1>3, <1>4, <2>1, <2>2 DEF Agrees, Of
<1> QED BY <1>4, <1>6, <1>7, BecomeKeeps

\* A user has joined ch under the callbacks, and is there or not.
Joined(ch, u, others, new) ==
  /\ new \in Channels /\ new.members \subseteq ch.members \cup {u}
  /\ u \in new.members => /\ u \in Gods \/ AkickMasks(row, u) = {}
                          /\ "restricted" \in flag => ~Stranger(u)
  /\ new.members # {} =>
       \E B \in SUBSET ({"b"} \X Masks) :
         /\ new.net = ch.net \cup B /\ new.list = ch.list \cup B
         /\ new.lifted = ch.lifted \ B /\ new.old = ch.old
  /\ new.members = {} =>
       /\ new.list = {} /\ new.old = {} /\ new.expiring = FALSE
       /\ others = {} => new.net = {}

LEMMA JoinFields ==
  ASSUME row \subseteq Rows, NEW ch \in Channels, NEW u \in Users, NEW others,
         NEW new \in OnJoin(ch, u, others)
  PROVE  Joined(ch, u, others, new)
<1> DEFINE in == [ch EXCEPT !.members = ch.members \cup {u}]
<1>1. /\ in \in Channels /\ in.members = ch.members \cup {u} /\ in.net = ch.net
      /\ in.list = ch.list /\ in.lifted = ch.lifted /\ in.old = ch.old
  BY DEF Channels
<1>2. ASSUME NEW B \in SUBSET ({"b"} \X Masks), new = Kick(Add(in, B), {u}, others),
             AkickMasks(row, u) # {} \/ Stranger(u)
      PROVE  Joined(ch, u, others, new)
  <2> HIDE DEF in
  <2>1. Banned(in, B, {u}, others, new)
    BY <1>1, <1>2, BanFields
  <2>2. u \in new.members => u \in Gods
    BY <2>1 DEF Banned
  <2> QED BY <1>1, <2>1, <2>2 DEF Banned, Joined, Stranger
<1>3. CASE AkickMasks(row, u) # {}
  <2>1. new \in Enforce(in, {u}, row, others)
    BY <1>3 DEF OnJoin
  <2>2. {u} \in SUBSET Users /\ row \in SUBSET Rows
    OBVIOUS
  <2>3. Enforced(in, {u}, row, others, new)
    <3> HIDE DEF in
    <3> QED BY <1>1, <2>1, <2>2, EnforceFields
  <2>4. {v \in {u} : AkickMasks(row, v) # {}} = {u}
    BY <1>3
  <2> QED BY <1>2, <1>3, <2>3, <2>4 DEF Enforced
<1>4. CASE AkickMasks(row, u) = {} /\ "restricted" \in flag /\ Stranger(u)
  <2>1. new = Kick(Add(in, {<< "b", UserMask[v] >> : v \in {w \in {u} : Stranger(w)}}),
                   {w \in {u} : Stranger(w)}, others)
    BY <1>4 DEF OnJoin, Restrict
  <2>2. {w \in {u} : Stranger(w)} = {u}
    BY <1>4
  <2>3. new = Kick(Add(in, {<< "b", UserMask[u] >>}), {u}, others)
    BY <2>1, <2>2
  <2>4. {<< "b", UserMask[u] >>} \in SUBSET ({"b"} \X Masks)
    OBVIOUS
  <2> HIDE DEF in
  <2> QED BY <1>2, <1>4, <2>3, <2>4
<1>5. CASE AkickMasks(row, u) = {} /\ ~("restricted" \in flag /\ Stranger(u))
  <2>1. new = [in EXCEPT !.expiring = @ \/ "expirebans" \in flag]
    BY <1>5 DEF OnJoin
  <2> HIDE DEF in
  <2>2. /\ new \in Channels /\ new.members = in.members /\ new.net = in.net
        /\ new.list = in.list /\ new.lifted = in.lifted /\ new.old = in.old
    BY <1>1, <2>1 DEF Channels
  <2>3. {} \in SUBSET ({"b"} \X Masks)
    OBVIOUS
  <2>4. \E B \in SUBSET ({"b"} \X Masks) :
          /\ new.net = ch.net \cup B /\ new.list = ch.list \cup B
          /\ new.lifted = ch.lifted \ B /\ new.old = ch.old
    BY <1>1, <2>2, <2>3
  <2> QED BY <1>1, <1>5, <2>2, <2>4 DEF Joined
<1> QED BY <1>3, <1>4, <1>5

LEMMA JoinKeeps ==
  ASSUME IInv, NEW u \in Users, Join(u)
  PROVE  IInv'
<1>1. /\ Live /\ row' = row /\ flag' = flag /\ guise' = guise
      /\ TypeOK /\ \A v \in Users : guise'[v] \in Guises[v]
  BY DEF Join, IInv, MasksStand, TypeOK
<1>2. PICK new \in OnJoin(Now, u, {}) : Leaves(new)
  BY DEF Join
<1>3. Joined(Now, u, {}, new)
  BY <1>1, <1>2, NowTyped, JoinFields DEF TypeOK
<1>4. Stored' = Stored /\ row' \subseteq Rows /\ flag' \subseteq Flags
  BY <1>1 DEF Stored, TypeOK
<1>5. /\ Become(new) /\ Others
      /\ loose' = loose \cap new.list /\ renamed' = renamed \cap new.members
      /\ forgotten' = (forgotten /\ new.members # {})
  BY <1>1, <1>2, <1>4, LeavesNotes
<1>6. Sound(new, ~forgotten')
  BY <1>1, <1>3, <1>5, NowTyped DEF Sound, Joined, IInv, MasksStand, ListsAreKnown, TypeOK
<1>7. OutOf(new, renamed')
  <2>1. /\ \A v \in Users : AkickMasks(row, v)' = AkickMasks(row, v)
        /\ \A v \in members \ (Gods \cup renamed) : AkickMasks(row, v) = {}
        /\ "restricted" \in flag => \A v \in members : ~Stranger(v)
    BY <1>1, NowSound DEF AkickMasks, Hit
  <2> QED BY <1>1, <1>3, <1>5, <2>1, NowTyped DEF OutOf, Joined, TypeOK
<1>8. Agrees(new, Stored', loose')
  <2>1. Stored \subseteq list \cup lifted /\ Of(list, Kinds) \subseteq Stored \cup loose
    BY <1>1 DEF IInv, MasksStand, StoredIsInForce
  <2>2. new.members # {} => /\ list \cup lifted \subseteq new.list \cup new.lifted
                            /\ Of(new.list, Kinds) \subseteq list
    BY <1>1, <1>3, NowTyped DEF Joined, Of
  <2> QED BY <1>4, <1>5, <2>1, <2>2 DEF Agrees, Of
<1> QED BY <1>5, <1>6, <1>7, <1>8, BecomeKeeps

\* In an SJOIN, before it is known who stays, the channel has bans only.
LEMMA SjoinKeeps ==
  ASSUME IInv, NEW u \in Users, NEW w \in Users, Sjoin(u, w)
  PROVE  IInv'
<1>1. /\ row' = row /\ flag' = flag /\ guise' = guise /\ loose' = loose /\ renamed' = renamed
      /\ TypeOK /\ row \subseteq Rows /\ flag \subseteq Flags /\ loose \subseteq Entries
      /\ \A v \in Users : guise'[v] \in Guises[v]
  BY DEF Sjoin, IInv, MasksStand, TypeOK
<1>2. /\ Now \in Channels /\ Now.members = {} /\ Now.net = {} /\ Now.list = {}
      /\ Now.old = {} /\ renamed = {}
  BY <1>1, NowTyped DEF Sjoin, Live, TypeOK, Of
<1> DEFINE Made(ch) == IF ch.members = {} THEN Leave([ch EXCEPT !.members = {u}], {u}, {}) ELSE ch
<1>0. PICK first \in OnJoin(Now, u, {w}) :
        \E ch \in IF w = u THEN {first} ELSE OnJoin(first, w, {}) :
          /\ Become(OnCreate(Made(ch)))
          /\ forgotten' = (ch.members # {} /\ first.members = {})
  BY DEF Sjoin
<1>3. PICK ch \in IF w = u THEN {first} ELSE OnJoin(first, w, {}) :
        /\ Become(OnCreate(Made(ch)))
        /\ forgotten' = (ch.members # {} /\ first.members = {})
  BY <1>0
<1>4. Joined(Now, u, {w}, first)
  BY <1>1, <1>2, <1>3, JoinFields
<1>5. /\ first \in Channels /\ first.members \subseteq {u} /\ first.old = {}
      /\ first.list \subseteq {"b"} \X Masks /\ first.list \subseteq first.net
      /\ first.members # {} => first.net = first.list
      /\ first.members = {} => first.list = {} /\ first.expiring = FALSE
  BY <1>2, <1>4 DEF Joined
<1>6. w # u => Joined(first, w, {}, ch)
  BY <1>1, <1>3, <1>5, JoinFields
<1> DEFINE Admitted(v) == /\ v \in Gods \/ AkickMasks(row, v) = {}
                          /\ "restricted" \in flag => ~Stranger(v)
<1>7. /\ ch \in Channels /\ ch.old = {} /\ ch.list \subseteq {"b"} \X Masks
      /\ ch.list \subseteq ch.net /\ \A v \in ch.members : Admitted(v)
      /\ first.members # {} /\ ch.members # {} => ch.net = ch.list
      /\ ch.members = {} => ch.expiring = FALSE
  <2>1. CASE w = u
    BY <1>3, <1>4, <1>5, <2>1 DEF Joined
  <2>2. CASE w # u
    <3>1. Joined(first, w, {}, ch)
      BY <1>6, <2>2
    <3>2. \A v \in ch.members : v = w \/ v \in first.members
      BY <3>1 DEF Joined
    <3>3. \A v \in ch.members : Admitted(v)
      BY <1>4, <1>5, <3>1, <3>2 DEF Joined
    <3> QED BY <1>5, <3>1, <3>3 DEF Joined
  <2> QED BY <2>1, <2>2
<1> DEFINE alone == [ch EXCEPT !.members = {u}]
           made == Made(ch)
           new == OnCreate(made)
<1>8. /\ made \in Channels /\ made.members = ch.members
      /\ ch.members # {} => made = ch
      /\ ch.members = {} => made.net = {} /\ made.list = {} /\ made.old = {} /\ made.expiring = FALSE
  <2>1. CASE ch.members = {}
    <3>1. alone \in Channels /\ alone.members = {u} /\ {u} \in SUBSET Users
      BY <1>7 DEF Channels
    <3>2. Left(alone, {u}, {}, Leave(alone, {u}, {}))
      <4> HIDE DEF alone
      <4> QED BY <3>1, LeaveFields
    <3> QED BY <2>1, <3>1, <3>2 DEF Left
  <2>2. CASE ch.members # {}
    BY <1>7, <2>2
  <2> QED BY <2>1, <2>2
<1> HIDE DEF made
<1>9. /\ new \in Channels /\ new.members = ch.members
      /\ ch.members # {} => /\ new.net = ch.net \cup Stored /\ new.list = ch.list \cup Stored
                            /\ new.old = {}
      /\ ch.members = {} => new.net = {} /\ new.list = {} /\ new.old = {} /\ new.expiring = FALSE
  <2>1. Stored \in SUBSET Entries
    BY <1>1, StoredEntries
  <2> QED BY <1>7, <1>8, <2>1, AddFields DEF OnCreate
<1>10. Become(new)
  BY <1>3 DEF made
<1> HIDE DEF new
<1>11. Others /\ renamed' \subseteq new.members
  BY <1>1, <1>2, <1>3 DEF Others
<1>12. Sound(new, ~forgotten')
  BY <1>3, <1>7, <1>9 DEF Sound, Of
<1>13. OutOf(new, renamed')
  <2>1. \A v \in Users : AkickMasks(row, v)' = AkickMasks(row, v)
    BY <1>1 DEF AkickMasks, Hit
  <2>2. ch.members \subseteq Users
    BY <1>7 DEF Channels
  <2> QED BY <1>1, <1>7, <1>9, <2>1, <2>2 DEF OutOf
<1>14. Agrees(new, Stored', loose')
  <2>1. Stored' = Stored
    BY <1>1 DEF Stored
  <2> QED BY <1>7, <1>9, <2>1 DEF Agrees, Of
<1> QED BY <1>10, <1>11, <1>12, <1>13, <1>14, BecomeKeeps

-----------------------------------------------------------------------------
(* The other actions.                                                      *)

LEMMA PartKeeps ==
  ASSUME IInv, NEW u \in Users, Part(u)
  PROVE  IInv'
<1> DEFINE new == Leave(Now, {u}, {})
<1>1. /\ row' = row /\ flag' = flag /\ guise' = guise /\ TypeOK /\ Leaves(new)
      /\ \A v \in Users : guise'[v] \in Guises[v]
  BY DEF Part, IInv, MasksStand, TypeOK
<1>2. {u} \in SUBSET Users /\ Stored' = Stored /\ row' \subseteq Rows /\ flag' \subseteq Flags
  BY <1>1 DEF Stored, TypeOK
<1>3. Left(Now, {u}, {}, new)
  BY <1>1, <1>2, NowTyped, LeaveFields
<1> HIDE DEF new
<1>4. /\ Become(new) /\ Others
      /\ loose' = loose \cap new.list /\ renamed' = renamed \cap new.members
      /\ forgotten' = (forgotten /\ new.members # {})
  BY <1>1, <1>2, LeavesNotes
<1>5. Sound(new, ~forgotten')
  BY <1>1, <1>3, <1>4, NowTyped, NowSound DEF Sound, Left
<1>6. OutOf(new, renamed')
  BY <1>1, <1>3, <1>4, NowTyped, NowSound DEF OutOf, Left, AkickMasks, Hit
<1>7. Agrees(new, Stored', loose')
  BY <1>1, <1>2, <1>3, <1>4, NowTyped, NowSound DEF Agrees, Left, Of
<1> QED BY <1>4, <1>5, <1>6, <1>7, BecomeKeeps

LEMMA RenameKeeps ==
  ASSUME IInv, NEW u \in Users, NEW g \in Guises[u], Rename(u, g)
  PROVE  IInv'
<1>1. /\ guise' = [guise EXCEPT ![u] = g] /\ renamed' = renamed \cup ({u} \cap members)
      /\ UNCHANGED << chan, row, flag, loose, forgotten >>
  BY DEF Rename
<1>2. TypeOK
  BY DEF IInv, MasksStand
<1>3. TypeOK'
  <2>1. \A v \in Users : guise'[v] = IF v = u /\ u \in DOMAIN guise THEN g ELSE guise[v]
    BY <1>1
  <2>2. \A v \in Users : guise'[v] \in Guises[v]
    BY <1>2, <2>1 DEF TypeOK
  <2> QED BY <1>1, <1>2, <2>2 DEF TypeOK, chan, Live, Of
<1>4. OutcastsAreOut'
  <2>1. \A v \in members \ (renamed \cup {u}) : AkickMasks(row, v)' = AkickMasks(row, v)
    BY <1>1 DEF AkickMasks, Hit
  <2>2. \A v \in members' : Stranger(v)' = Stranger(v)
    BY DEF Stranger
  <2> QED BY <1>1, <2>1, <2>2 DEF OutcastsAreOut, IInv, MasksStand, chan
<1>5. StoredIsInForce' /\ ListsAreKnown'
  BY <1>1 DEF StoredIsInForce, ListsAreKnown, IInv, MasksStand, chan, Live, Stored, Of
<1> QED BY <1>1, <1>3, <1>4, <1>5 DEF IInv, MasksStand

\* A mode that is set, by a user or by a server.
LEMMA SetKeeps ==
  ASSUME IInv, Live, NEW e \in Entries, Become(Add(Now, {e})),
         flag' = flag, guise' = guise, renamed' = renamed, forgotten' = forgotten,
         row' \subseteq Rows, \A v \in Users : AkickMasks(row, v)' = AkickMasks(row, v),
         \/ Stored' = Stored /\ loose' = loose \cup {e}
         \/ Stored' = Stored \cup {e} /\ loose \cap list \subseteq loose' /\ loose' \subseteq loose
  PROVE  IInv'
<1> DEFINE new == Add(Now, {e})
<1>1. TypeOK
  BY DEF IInv, MasksStand
<1>2. /\ Now \in Channels /\ Now.members = members /\ Now.list = list /\ {e} \in SUBSET Entries
      /\ Now.net = netlist /\ Now.lifted = lifted
  BY <1>1, NowTyped
<1>3. /\ new \in Channels /\ new.members = members
      /\ new.net = netlist \cup {e} /\ new.list = list \cup {e}
      /\ new.lifted = lifted \ {e} /\ new.old = Now.old
  BY <1>2, AddFields
<1> HIDE DEF new
<1>4. Others /\ renamed' \subseteq new.members
  BY <1>1, <1>3 DEF Others, TypeOK, IInv
<1>5. Sound(new, ~forgotten')
  BY <1>2, <1>3, NowSound DEF Sound, Live
<1>6. OutOf(new, renamed')
  BY <1>3, NowSound, <1>1 DEF OutOf, TypeOK
<1>7. Agrees(new, Stored', loose')
  BY <1>2, <1>3, NowSound DEF Agrees, Of
<1> QED BY <1>4, <1>5, <1>6, <1>7, BecomeKeeps DEF new

\* A row of a list that is stored is no AKICK, and another one than any other's.
LEMMA RowFields ==
  ASSUME NEW e \in Kinds \X Masks
  PROVE  /\ RowOf(e) \in Rows /\ RowOf(e).kind # "akick" /\ RowOf(e).kind \in Kinds
         /\ << RowOf(e).kind, RowOf(e).mask >> = e
         /\ \A r \in Rows : r.kind \in Kinds /\ << r.kind, r.mask >> = e => r = RowOf(e)
<1>1. RowOf(e) = [kind |-> e[1], mask |-> e[2]] /\ e[1] \in Kinds /\ e[2] \in Masks
  BY DEF RowOf
<1>2. \A r \in Rows : r.kind \in Kinds => r = [kind |-> r.kind, mask |-> r.mask]
  BY DEF Rows
<1> QED BY <1>1, <1>2 DEF Rows

LEMMA RowAdded ==
  ASSUME IInv, NEW e \in Kinds \X Masks, row' = row \cup {RowOf(e)}, guise' = guise
  PROVE  /\ row' \subseteq Rows /\ Stored' = Stored \cup {e}
         /\ \A v \in Users : AkickMasks(row, v)' = AkickMasks(row, v)
<1>1. RowOf(e) \in Rows /\ row \subseteq Rows
  BY RowFields DEF IInv, MasksStand, TypeOK
<1>2. Stored' = Stored \cup {e}
  BY RowFields DEF Stored
<1>3. {r \in row' : r.kind = "akick"} = {r \in row : r.kind = "akick"}
  BY RowFields
<1>4. \A v \in Users : AkickMasks(row, v)' = AkickMasks(row, v)
  BY <1>3 DEF AkickMasks, Hit
<1> QED BY <1>1, <1>2, <1>4

LEMMA RowDeleted ==
  ASSUME IInv, NEW e \in Kinds \X Masks, row' = row \ {RowOf(e)}, guise' = guise
  PROVE  /\ row' \subseteq Rows /\ Stored' = Stored \ {e}
         /\ \A v \in Users : AkickMasks(row, v)' = AkickMasks(row, v)
<1>1. row \subseteq Rows
  BY DEF IInv, MasksStand, TypeOK
<1>2. Stored' = Stored \ {e}
  BY <1>1, RowFields DEF Stored
<1>3. {r \in row' : r.kind = "akick"} = {r \in row : r.kind = "akick"}
  BY RowFields
<1>4. \A v \in Users : AkickMasks(row, v)' = AkickMasks(row, v)
  BY <1>3 DEF AkickMasks, Hit
<1> QED BY <1>1, <1>2, <1>4

LEMMA ModePlusKeeps ==
  ASSUME IInv, NEW e \in Entries, ModePlus(e)
  PROVE  IInv'
<1>1. /\ Live /\ Become(Add(Now, {e})) /\ UNCHANGED << flag, guise, renamed, forgotten >>
      /\ row' = IF Saved(e) THEN row \cup {RowOf(e)} ELSE row
      /\ loose' = IF Saved(e) THEN loose ELSE loose \cup {e}
  BY DEF ModePlus
<1>2. CASE Saved(e)
  <2>1. e \in Kinds \X Masks
    BY <1>2 DEF Saved, Entries
  <2>2. /\ row' \subseteq Rows /\ Stored' = Stored \cup {e}
        /\ \A v \in Users : AkickMasks(row, v)' = AkickMasks(row, v)
    BY <1>1, <1>2, <2>1, RowAdded
  <2> QED BY <1>1, <1>2, <2>2, SetKeeps
<1>3. CASE ~Saved(e)
  <2>1. row' \subseteq Rows /\ Stored' = Stored
    BY <1>1, <1>3 DEF Stored, IInv, MasksStand, TypeOK
  <2>2. \A v \in Users : AkickMasks(row, v)' = AkickMasks(row, v)
    BY <1>1, <1>3 DEF AkickMasks, Hit
  <2> QED BY <1>1, <1>3, <2>1, <2>2, SetKeeps
<1> QED BY <1>2, <1>3

LEMMA BmaskKeeps ==
  ASSUME IInv, NEW e \in Entries, Bmask(e)
  PROVE  IInv'
<1>1. /\ Live /\ Become(Add(Now, {e})) /\ loose' = loose \cup {e}
      /\ UNCHANGED << row, flag, guise, renamed, forgotten >>
  BY DEF Bmask
<1>2. row' \subseteq Rows /\ Stored' = Stored
  BY <1>1 DEF Stored, IInv, MasksStand, TypeOK
<1>3. \A v \in Users : AkickMasks(row, v)' = AkickMasks(row, v)
  BY <1>1 DEF AkickMasks, Hit
<1> QED BY <1>1, <1>2, <1>3, SetKeeps

\* One entry is taken off the channel, with its row or without.
LEMMA UnsetKeeps ==
  ASSUME IInv, NEW e \in Entries, NEW new, Become(new),
         \/ new = Del(Now, {e}) /\ Stored' = Stored
         \/ new = [Del(Now, {e}) EXCEPT !.lifted = @ \ {e}] /\ Stored' = Stored \ {e}
         \/ new = [Del(Now, {e}) EXCEPT !.lifted = @] /\ Stored' = Stored,
         flag' = flag, guise' = guise, renamed' = renamed, (loose \cap list) \ {e} \subseteq loose',
         loose' \subseteq loose,
         forgotten' = forgotten \/ (members = {} /\ forgotten' \in BOOLEAN),
         row' \subseteq Rows, \A v \in Users : AkickMasks(row, v)' = AkickMasks(row, v)
  PROVE  IInv'
<1>1. TypeOK
  BY DEF IInv, MasksStand
<1>2. /\ Now \in Channels /\ Now.members = members /\ Now.list = list /\ {e} \in SUBSET Entries
      /\ Now.net = netlist /\ Now.lifted = lifted /\ Now.expiring = expiring
  BY <1>1, NowTyped
<1> DEFINE del == Del(Now, {e})
<1>3. /\ del \in Channels /\ del.members = members
      /\ del.net = netlist \ {e} /\ del.list = list \ {e} /\ del.old = Now.old
      /\ del.lifted = lifted \cup ({e} \cap Stored) /\ del.expiring = expiring
  BY <1>2, DelFields
<1> HIDE DEF del
<1>4. /\ new \in Channels /\ new.members = members
      /\ new.net = netlist \ {e} /\ new.list = list \ {e} /\ new.old = Now.old
      /\ new.expiring = expiring
      /\ \/ new.lifted = lifted \cup ({e} \cap Stored) /\ Stored' = Stored
         \/ new.lifted = lifted \ {e} /\ Stored' = Stored \ {e}
  <2>1. CASE new = del /\ Stored' = Stored
    BY <1>3, <2>1
  <2>2. CASE new = [del EXCEPT !.lifted = @ \ {e}] /\ Stored' = Stored \ {e}
    <3>1. (lifted \cup ({e} \cap Stored)) \ {e} = lifted \ {e}
      OBVIOUS
    <3> QED BY <1>3, <2>2, <3>1 DEF Channels
  <2>3. CASE new = [del EXCEPT !.lifted = @] /\ Stored' = Stored
    BY <1>3, <2>3 DEF Channels
  <2> QED BY <2>1, <2>2, <2>3 DEF del
<1>5. Others /\ renamed' \subseteq new.members
  BY <1>1, <1>4 DEF Others, TypeOK, IInv
<1>6. Sound(new, ~forgotten')
  BY <1>1, <1>2, <1>4, NowSound DEF Sound, TypeOK, Live
<1>7. OutOf(new, renamed')
  BY <1>1, <1>4, NowSound DEF OutOf, TypeOK
<1>8. Agrees(new, Stored', loose')
  <2>1. members # {} => Stored \subseteq list \cup lifted /\ Of(list, Kinds) \subseteq Stored \cup loose
    BY <1>2, NowSound DEF Agrees
  <2> QED BY <1>4, <2>1 DEF Agrees, Of
<1> QED BY <1>5, <1>6, <1>7, <1>8, BecomeKeeps

LEMMA ModeMinusKeeps ==
  ASSUME IInv, NEW e \in Entries, ModeMinus(e)
  PROVE  IInv'
<1> DEFINE new == [Del(Now, {e}) EXCEPT !.lifted = IF Saved(e) THEN @ \ {e} ELSE @]
<1>1. /\ Become(new) /\ loose' = loose \ {e} /\ UNCHANGED << flag, guise, renamed, forgotten >>
      /\ row' = IF Saved(e) THEN row \ {RowOf(e)} ELSE row
  BY DEF ModeMinus
<1>2. CASE Saved(e)
  <2>1. e \in Kinds \X Masks
    BY <1>2 DEF Saved, Entries
  <2>2. /\ row' \subseteq Rows /\ Stored' = Stored \ {e}
        /\ \A v \in Users : AkickMasks(row, v)' = AkickMasks(row, v)
    BY <1>1, <1>2, <2>1, RowDeleted
  <2>3. new = [Del(Now, {e}) EXCEPT !.lifted = @ \ {e}]
    BY <1>2
  <2> HIDE DEF new
  <2> QED BY <1>1, <2>2, <2>3, UnsetKeeps
<1>3. CASE ~Saved(e)
  <2>1. row' \subseteq Rows /\ Stored' = Stored
    BY <1>1, <1>3 DEF Stored, IInv, MasksStand, TypeOK
  <2>2. \A v \in Users : AkickMasks(row, v)' = AkickMasks(row, v)
    BY <1>1, <1>3 DEF AkickMasks, Hit
  <2>3. new = [Del(Now, {e}) EXCEPT !.lifted = @]
    BY <1>3
  <2> HIDE DEF new
  <2> QED BY <1>1, <2>1, <2>2, <2>3, UnsetKeeps
<1> QED BY <1>2, <1>3

\* A handler that finds no channel, or changes no more of it than whether it is
\* on channel_expireban_list.
LEMMA ExpiringKeeps ==
  ASSUME IInv, NEW x \in BOOLEAN, members = {} => ~x, Leaves([Now EXCEPT !.expiring = x]),
         row' \subseteq Rows, flag' \subseteq Flags, guise' = guise,
         members # {} => /\ Stored' = Stored
                         /\ \A v \in Users : AkickMasks(row, v)' = AkickMasks(row, v)
                         /\ "restricted" \in flag' => "restricted" \in flag
  PROVE  IInv'
<1> DEFINE new == [Now EXCEPT !.expiring = x]
<1>1. TypeOK /\ \A v \in Users : guise'[v] \in Guises[v]
  BY DEF IInv, MasksStand, TypeOK
<1>2. /\ new \in Channels /\ new.members = members /\ new.net = netlist /\ new.list = list
      /\ new.lifted = lifted /\ new.old = old /\ new.expiring = x
  BY <1>1, NowTyped DEF Channels
<1>3. Leaves(new)
  OBVIOUS
<1> HIDE DEF new
<1>4. /\ Become(new) /\ Others
      /\ loose' = loose \cap new.list /\ renamed' = renamed \cap new.members
      /\ forgotten' = (forgotten /\ new.members # {})
  BY <1>1, <1>3, LeavesNotes
<1>5. Sound(new, ~forgotten')
  BY <1>1, <1>2, <1>4, NowTyped, NowSound DEF Sound, TypeOK, Live
<1>6. OutOf(new, renamed')
  BY <1>1, <1>2, <1>4, NowSound DEF OutOf, TypeOK
<1>7. Agrees(new, Stored', loose')
  BY <1>1, <1>2, <1>4, NowTyped, NowSound DEF Agrees, Of
<1> QED BY <1>4, <1>5, <1>6, <1>7, BecomeKeeps

LEMMA MaskAddKeeps ==
  ASSUME IInv, NEW e \in Kinds \X Masks, MaskAdd(e)
  PROVE  IInv'
<1>1. /\ row' = row \cup {RowOf(e)} /\ flag' = flag /\ guise' = guise
      /\ Leaves(IF Live THEN Add(Now, {e}) ELSE Now)
  BY DEF MaskAdd
<1>2. /\ row' \subseteq Rows /\ Stored' = Stored \cup {e}
      /\ \A v \in Users : AkickMasks(row, v)' = AkickMasks(row, v)
  BY <1>1, RowAdded
<1>3. TypeOK /\ flag' \subseteq Flags /\ \A v \in Users : guise'[v] \in Guises[v]
  BY <1>1 DEF IInv, MasksStand, TypeOK
<1>4. CASE Live
  <2> DEFINE new == Add(Now, {e})
  <2>1. Leaves(new)
    BY <1>1, <1>4
  <2>2. e \in Entries /\ {e} \in SUBSET Entries
    BY DEF Entries, Lists
  <2>3. new.members = members /\ new.list = list \cup {e}
    BY <1>3, <2>2, NowTyped, AddFields
  <2> HIDE DEF new
  <2>4. /\ Become(new)
        /\ loose' = loose \cap new.list /\ renamed' = renamed \cap new.members
        /\ forgotten' = (forgotten /\ new.members # {})
    BY <1>2, <1>3, <2>1, LeavesNotes
  <2>5. renamed' = renamed /\ forgotten' = forgotten
    BY <1>3, <1>4, <2>3, <2>4 DEF TypeOK, Live, IInv
  <2>6. loose \cap list \subseteq loose' /\ loose' \subseteq loose
    BY <2>3, <2>4
  <2>7. Become(Add(Now, {e}))
    BY <2>4 DEF new
  <2> QED BY <1>1, <1>2, <1>4, <2>2, <2>5, <2>6, <2>7, SetKeeps
<1>5. CASE ~Live
  <2>1. Now = [Now EXCEPT !.expiring = FALSE]
    <3>1. expiring = FALSE
      BY <1>3, <1>5 DEF TypeOK
    <3>2. Now \in Channels /\ Now.expiring = FALSE
      BY <1>3, <3>1, NowTyped
    <3> QED BY <3>2 DEF Channels
  <2>2. Leaves([Now EXCEPT !.expiring = FALSE])
    BY <1>1, <1>5, <2>1
  <2> QED BY <1>1, <1>2, <1>3, <1>5, <2>2, ExpiringKeeps DEF Live
<1> QED BY <1>4, <1>5

LEMMA MaskDelKeeps ==
  ASSUME IInv, NEW e \in Kinds \X Masks, MaskDel(e)
  PROVE  IInv'
<1> DEFINE new == [Del(Now, {e}) EXCEPT !.lifted = @ \ {e}]
<1>1. row' = row \ {RowOf(e)} /\ flag' = flag /\ guise' = guise /\ Leaves(new)
  BY DEF MaskDel
<1>2. /\ row' \subseteq Rows /\ Stored' = Stored \ {e}
      /\ \A v \in Users : AkickMasks(row, v)' = AkickMasks(row, v)
  BY <1>1, RowDeleted
<1>3. TypeOK /\ flag' \subseteq Flags /\ \A v \in Users : guise'[v] \in Guises[v]
  BY <1>1 DEF IInv, MasksStand, TypeOK
<1>4. e \in Entries /\ {e} \in SUBSET Entries
  BY DEF Entries, Lists
<1>5. new.members = members /\ new.list = list \ {e}
  BY <1>3, <1>4, NowTyped, DelFields DEF Channels
<1>6. new = [Del(Now, {e}) EXCEPT !.lifted = @ \ {e}]
  OBVIOUS
<1> HIDE DEF new
<1>7. /\ Become(new)
      /\ loose' = loose \cap new.list /\ renamed' = renamed \cap new.members
      /\ forgotten' = (forgotten /\ new.members # {})
  BY <1>1, <1>2, <1>3, LeavesNotes
<1>8. /\ renamed' = renamed /\ loose' \subseteq loose
      /\ forgotten' = forgotten \/ (members = {} /\ forgotten' \in BOOLEAN)
  BY <1>3, <1>5, <1>7 DEF TypeOK, IInv
<1>9. (loose \cap list) \ {e} \subseteq loose'
  BY <1>5, <1>7
<1> QED BY <1>1, <1>2, <1>4, <1>6, <1>7, <1>8, <1>9, UnsetKeeps

\* AKICK ENFORCE, and AKICK ADD, which enforces what there is with the new row.
LEMMA AkicksKeep ==
  ASSUME IInv, NEW new \in Enforce(Now, members, row', {}), Leaves(new),
         row' \in SUBSET Rows, Stored' = Stored, flag' = flag, guise' = guise
  PROVE  IInv'
<1> DEFINE hit == {u \in members : AkickMasks(row', u) # {}}
<1>1. /\ TypeOK /\ members \in SUBSET Users /\ flag' \subseteq Flags
      /\ \A v \in Users : guise'[v] \in Guises[v]
  BY DEF IInv, MasksStand, TypeOK
<1>2. Enforced(Now, members, row', {}, new)
  BY <1>1, NowTyped, EnforceFields
<1>3. PICK B \in SUBSET ({"b"} \X Masks) :
        new = Kick(Add(Now, B), hit, {}) /\ (members = {} => B = {})
  BY <1>2 DEF Enforced
<1>4. hit \in SUBSET Users
  BY <1>1
<1>5. Banned(Now, B, hit, {}, new)
  BY <1>1, <1>3, <1>4, NowTyped, BanFields
<1>6. /\ Become(new) /\ Others
      /\ loose' = loose \cap new.list /\ renamed' = renamed \cap new.members
      /\ forgotten' = (forgotten /\ new.members # {})
  BY <1>1, LeavesNotes
<1>7. OutOf(new, renamed')
  <2>1. \A v \in Users : AkickMasks(row, v)' = AkickMasks(row', v)
    BY DEF AkickMasks, Hit
  <2>2. new.members = members \ (hit \ Gods)
    BY <1>1, <1>5, NowTyped DEF Banned
  <2>3. \A v \in new.members \ Gods : AkickMasks(row', v) = {}
    BY <2>2
  <2>4. "restricted" \in flag => \A v \in members : ~Stranger(v)
    BY NowSound
  <2> QED BY <1>1, <2>1, <2>2, <2>3, <2>4 DEF OutOf
<1>8. CASE Live
  <2> HIDE DEF hit
  <2> QED BY <1>1, <1>3, <1>4, <1>7, <1>8, BanKeeps
<1>9. CASE ~Live
  <2>1. /\ new \in Channels /\ new.members = {}
        /\ new.net = netlist /\ new.list = list /\ new.old = old /\ new.expiring = expiring
    BY <1>1, <1>3, <1>5, <1>9, NowTyped DEF Banned, Live
  <2>2. Sound(new, ~forgotten')
    BY <1>1, <1>9, <2>1, NowTyped DEF Sound, TypeOK, Live
  <2>3. Agrees(new, Stored', loose')
    BY <2>1 DEF Agrees
  <2> QED BY <1>6, <1>7, <2>2, <2>3, BecomeKeeps
<1> QED BY <1>8, <1>9

LEMMA AkickAddKeeps ==
  ASSUME IInv, NEW r \in Rows, r.kind = "akick", AkickAdd(r)
  PROVE  IInv'
<1>1. row' = row \cup {r} /\ flag' = flag /\ guise' = guise
  BY DEF AkickAdd
<1>2. PICK new \in Enforce(Now, members, row', {}) : Leaves(new)
  BY DEF AkickAdd
<1>3. row' \in SUBSET Rows
  BY <1>1 DEF IInv, MasksStand, TypeOK
<1>4. Stored' = Stored
  BY <1>1 DEF Stored
<1> QED BY <1>1, <1>2, <1>3, <1>4, AkicksKeep

LEMMA AkickEnforceKeeps ==
  ASSUME IInv, AkickEnforce
  PROVE  IInv'
<1>1. row' = row /\ flag' = flag /\ guise' = guise
  BY DEF AkickEnforce
<1>2. PICK new \in Enforce(Now, members, row', {}) : Leaves(new)
  BY <1>1 DEF AkickEnforce
<1>3. row' \in SUBSET Rows
  BY <1>1 DEF IInv, MasksStand, TypeOK
<1>4. Stored' = Stored
  BY <1>1 DEF Stored
<1> QED BY <1>1, <1>2, <1>3, <1>4, AkicksKeep

LEMMA AkickDelKeeps ==
  ASSUME IInv, NEW r \in Rows, r.kind = "akick", AkickDel(r)
  PROVE  IInv'
<1>1. row' = row \ {r} /\ flag' = flag /\ guise' = guise
  BY DEF AkickDel
<1>2. PICK m \in IF "mask" \in DOMAIN r THEN {r.mask} ELSE NickMasks[r.target] :
        Leaves(Del(Now, {<< "b", m >>}))
  BY DEF AkickDel
<1>3. m \in Masks
  <2>1. CASE r \in [kind : Kinds \cup {"akick"}, mask : Masks]
    BY <1>2, <2>1
  <2>2. CASE r \in [kind : {"akick"}, target : Accounts]
    <3>1. "mask" \notin DOMAIN r /\ r.target \in Accounts
      BY <2>2
    <3> QED BY <1>2, <3>1
  <2> QED BY <2>1, <2>2 DEF Rows
<1>4. {<< "b", m >>} \in SUBSET Entries
  BY <1>3 DEF Entries, Lists
<1>5. Stored' = Stored
  BY <1>1 DEF Stored
<1> QED BY <1>1, <1>2, <1>4, <1>5, RemovalKeeps

\* CLEAR, UNBAN and EXPIREBANS take off what services see.
LEMMA ListedRemovalKeeps ==
  ASSUME IInv, NEW S \in SUBSET list, Leaves(Del(Now, S)), UNCHANGED << row, flag, guise >>
  PROVE  IInv'
<1>1. S \in SUBSET Entries
  BY DEF IInv, MasksStand, TypeOK
<1>2. Stored' = Stored
  BY DEF Stored
<1> QED BY <1>1, <1>2, RemovalKeeps

LEMMA SetFlagKeeps ==
  ASSUME IInv, NEW f \in Flags, SetFlag(f)
  PROVE  IInv'
<1>1. /\ flag' = flag \cup {f} /\ row' = row /\ guise' = guise
      /\ Leaves(IF f = "restricted" THEN Restrict(Now, members, {})
                ELSE [Now EXCEPT !.expiring = @ \/ (f = "expirebans" /\ f \notin flag /\ Live)])
  BY DEF SetFlag
<1>2. TypeOK /\ flag' \subseteq Flags /\ row' \subseteq Rows /\ Stored' = Stored
  BY <1>1 DEF IInv, MasksStand, TypeOK, Stored
<1>3. \A v \in Users : AkickMasks(row, v)' = AkickMasks(row, v)
  BY <1>1 DEF AkickMasks, Hit
<1>4. CASE f = "restricted"
  <2> DEFINE out == {u \in members : Stranger(u)}
             B == {<< "b", UserMask[u] >> : u \in out}
             new == Kick(Add(Now, B), out, {})
  <2>1. Leaves(new)
    BY <1>1, <1>4 DEF Restrict
  <2>2. out \in SUBSET Users /\ B \in SUBSET ({"b"} \X Masks)
    BY <1>2 DEF TypeOK
  <2>3. ~Live => out = {} /\ B = {}
    BY DEF Live
  <2>4. \A u \in members \ out : ~Stranger(u)
    OBVIOUS
  <2>5. out \cap Gods = {}
    BY DEF Stranger
  <2>6. Banned(Now, B, out, {}, new)
    <3> HIDE DEF B, out
    <3> QED BY <1>2, <2>2, NowTyped, BanFields
  <2>7. new = Kick(Add(Now, B), out, {})
    OBVIOUS
  <2> HIDE DEF out, B, new
  <2>8. new.members = members \ out
    BY <1>2, <2>5, <2>6, NowTyped DEF Banned
  <2>9. /\ Become(new) /\ Others
        /\ loose' = loose \cap new.list /\ renamed' = renamed \cap new.members
        /\ forgotten' = (forgotten /\ new.members # {})
    BY <1>1, <1>2, <2>1, LeavesNotes DEF TypeOK
  <2>10. OutOf(new, renamed')
    BY <1>2, <1>3, <2>4, <2>8, <2>9, NowSound DEF OutOf, TypeOK
  <2>11. CASE Live
    BY <1>1, <1>2, <2>1, <2>2, <2>7, <2>10, <2>11, BanKeeps
  <2>12. CASE ~Live
    <3>1. /\ new \in Channels /\ new.members = {}
          /\ new.net = netlist /\ new.list = list /\ new.old = old /\ new.expiring = expiring
      BY <1>2, <2>3, <2>6, <2>12, NowTyped DEF Banned, Live
    <3>2. Sound(new, ~forgotten')
      BY <1>2, <2>12, <3>1, NowTyped DEF Sound, TypeOK, Live
    <3>3. Agrees(new, Stored', loose')
      BY <3>1 DEF Agrees
    <3> QED BY <2>9, <2>10, <3>2, <3>3, BecomeKeeps
  <2> QED BY <2>11, <2>12
<1>5. CASE f # "restricted"
  <2> DEFINE x == expiring \/ (f = "expirebans" /\ f \notin flag /\ Live)
  <2>1. Leaves([Now EXCEPT !.expiring = x])
    BY <1>1, <1>2, <1>5, NowTyped
  <2>2. x \in BOOLEAN /\ (members = {} => ~x)
    BY <1>2 DEF TypeOK, Live
  <2> HIDE DEF x
  <2>3. "restricted" \in flag' => "restricted" \in flag
    BY <1>1, <1>5
  <2> QED BY <1>1, <1>2, <1>3, <2>1, <2>2, <2>3, ExpiringKeeps
<1> QED BY <1>4, <1>5

LEMMA UnsetFlagKeeps ==
  ASSUME IInv, NEW f \in Flags, UnsetFlag(f)
  PROVE  IInv'
<1> DEFINE x == expiring /\ f # "expirebans"
<1>1. /\ flag' = flag \ {f} /\ row' = row /\ guise' = guise
      /\ Leaves([Now EXCEPT !.expiring = @ /\ f # "expirebans"])
  BY DEF UnsetFlag
<1>2. TypeOK /\ flag' \subseteq Flags /\ row' \subseteq Rows /\ Stored' = Stored
  BY <1>1 DEF IInv, MasksStand, TypeOK, Stored
<1>3. \A v \in Users : AkickMasks(row, v)' = AkickMasks(row, v)
  BY <1>1 DEF AkickMasks, Hit
<1>4. Leaves([Now EXCEPT !.expiring = x])
  BY <1>1, <1>2, NowTyped
<1>5. x \in BOOLEAN /\ (members = {} => ~x)
  BY <1>2 DEF TypeOK, Live
<1>6. "restricted" \in flag' => "restricted" \in flag
  BY <1>1
<1> HIDE DEF x
<1> QED BY <1>1, <1>2, <1>3, <1>4, <1>5, <1>6, ExpiringKeeps

LEMMA AgeKeeps ==
  ASSUME IInv, Age
  PROVE  IInv'
<1>1. /\ old' = Of(list, Aging)
      /\ UNCHANGED << members, netlist, list, expiring, lifted, row, flag, guise, history >>
  BY DEF Age
<1>2. TypeOK'
  BY <1>1 DEF IInv, MasksStand, TypeOK, history, Live, Of
<1>3. OutcastsAreOut'
  BY <1>1 DEF IInv, MasksStand, OutcastsAreOut, AkickMasks, Hit, Stranger, history
<1>4. StoredIsInForce' /\ ListsAreKnown'
  BY <1>1 DEF IInv, MasksStand, StoredIsInForce, ListsAreKnown, Live, Stored, Of, history
<1> QED BY <1>1, <1>2, <1>3, <1>4 DEF IInv, MasksStand, history

-----------------------------------------------------------------------------
(* The theorem.                                                            *)

LEMMA StepKeeps ==
  ASSUME IInv, [Next]_vars
  PROVE  IInv'
<1>1. ASSUME NEW u \in Users, Join(u) PROVE IInv'
  BY <1>1, JoinKeeps
<1>2. ASSUME NEW u \in Users, Part(u) PROVE IInv'
  BY <1>2, PartKeeps
<1>3. ASSUME NEW u \in Users, NEW w \in Users, Sjoin(u, w) PROVE IInv'
  BY <1>3, SjoinKeeps
<1>4. ASSUME NEW u \in Users, NEW g \in Guises[u], Rename(u, g) PROVE IInv'
  BY <1>4, RenameKeeps
<1>5. ASSUME NEW e \in Entries, ModePlus(e) \/ ModeMinus(e) \/ Bmask(e) PROVE IInv'
  BY <1>5, ModePlusKeeps, ModeMinusKeeps, BmaskKeeps
<1>6. CASE AkickEnforce
  BY <1>6, AkickEnforceKeeps
<1>7. ASSUME NEW r \in Rows, r.kind = "akick", AkickAdd(r) \/ AkickDel(r) PROVE IInv'
  BY <1>7, AkickAddKeeps, AkickDelKeeps
<1>8. ASSUME NEW e \in Kinds \X Masks, MaskAdd(e) \/ MaskDel(e) PROVE IInv'
  BY <1>8, MaskAddKeeps, MaskDelKeeps
<1>9. ASSUME NEW l \in Lists \cap Aging, Clear(l) PROVE IInv'
  <2>1. Of(list, {l}) \in SUBSET list
    BY DEF Of
  <2> QED BY <1>9, <2>1, ListedRemovalKeeps DEF Clear
<1>10. ASSUME NEW l \in Lists \cap Aging, NEW u \in Users, Unban(l, u) PROVE IInv'
  <2> DEFINE S == {e \in Of(list, {l}) : Hit(e[2], u)}
  <2>1. S \in SUBSET list
    BY DEF Of
  <2>2. Leaves(Del(Now, S)) /\ UNCHANGED << row, flag, guise >>
    BY <1>10 DEF Unban
  <2> HIDE DEF S
  <2> QED BY <2>1, <2>2, ListedRemovalKeeps
<1>11. ASSUME NEW f \in Flags, SetFlag(f) \/ UnsetFlag(f) PROVE IInv'
  BY <1>11, SetFlagKeeps, UnsetFlagKeeps
<1>12. CASE Age
  BY <1>12, AgeKeeps
<1>13. CASE Expire
  <2>1. old \in SUBSET list
    BY DEF IInv, MasksStand, TypeOK, Of
  <2> QED BY <1>13, <2>1, ListedRemovalKeeps DEF Expire
<1>14. CASE UNCHANGED vars
  <2>1. UNCHANGED << members, netlist, list, old, expiring, lifted, row, flag, guise,
                     loose, renamed, forgotten >>
    BY <1>14 DEF vars, chan, history
  <2>2. TypeOK'
    BY <2>1 DEF IInv, MasksStand, TypeOK, Live, Of
  <2>3. OutcastsAreOut'
    BY <2>1 DEF IInv, MasksStand, OutcastsAreOut, AkickMasks, Hit, Stranger
  <2>4. StoredIsInForce' /\ ListsAreKnown'
    BY <2>1 DEF IInv, MasksStand, StoredIsInForce, ListsAreKnown, Live, Stored, Of
  <2> QED BY <2>1, <2>2, <2>3, <2>4 DEF IInv, MasksStand
<1>15. CASE Next
  <2>1. CASE \E u \in Users : Join(u) \/ Part(u)
    BY <1>1, <1>2, <2>1
  <2>2. CASE \E u, w \in Users : Sjoin(u, w)
    BY <1>3, <2>2
  <2>3. CASE \E u \in Users : \E g \in Guises[u] : Rename(u, g)
    BY <1>4, <2>3
  <2>4. CASE \E e \in Entries : ModePlus(e) \/ ModeMinus(e) \/ Bmask(e)
    BY <1>5, <2>4
  <2>5. CASE \E r \in {x \in Rows : x.kind = "akick"} : AkickAdd(r) \/ AkickDel(r)
    BY <1>7, <2>5
  <2>6. CASE \E e \in Kinds \X Masks : MaskAdd(e) \/ MaskDel(e)
    BY <1>8, <2>6
  <2>7. CASE \E l \in Lists \cap Aging : Clear(l)
    BY <1>9, <2>7
  <2>8. CASE \E l \in Lists \cap Aging, u \in Users : Unban(l, u)
    BY <1>10, <2>8
  <2>9. CASE \E f \in Flags : SetFlag(f) \/ UnsetFlag(f)
    BY <1>11, <2>9
  <2> QED BY <1>6, <1>12, <1>13, <1>15, <2>1, <2>2, <2>3, <2>4, <2>5, <2>6, <2>7, <2>8, <2>9 DEF Next
<1> QED BY <1>14, <1>15

\* Whatever users, servers, commands and timers do: users the AKICKs or RESTRICTED
\* keep out are not on the channel, what is stored is set and what is set is
\* stored, but for what somebody set or took off while nobody saved it, and
\* services know every mask of the channel unless an SJOIN made it anew.
THEOREM MasksOfChannelsStand == Spec => []MasksStand
<1>1. Init => IInv
  <2> SUFFICES ASSUME Init PROVE IInv
    OBVIOUS
  <2>1. \A u \in Users : guise[u] \in Guises[u]
    BY DEF Init
  <2>2. TypeOK
    BY <2>1 DEF Init, TypeOK, Of, Live
  <2>3. OutcastsAreOut /\ StoredIsInForce /\ ListsAreKnown /\ forgotten \in BOOLEAN
    BY DEF Init, OutcastsAreOut, StoredIsInForce, ListsAreKnown, Live
  <2> QED BY <2>2, <2>3 DEF IInv, MasksStand
<1>2. IInv /\ [Next]_vars => IInv'
  BY StepKeeps
<1>3. IInv => MasksStand
  BY DEF IInv
<1> QED BY <1>1, <1>2, <1>3, PTL DEF Spec
=============================================================================
