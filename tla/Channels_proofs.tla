-------------------------- MODULE Channels_proofs --------------------------
(***************************************************************************)
(* What holds of the channels for any number of channels and users, with   *)
(* failing queries and reloads of FloodServ, and without the bounds of TLC. *)
(***************************************************************************)
EXTENDS Channels, TLAPS

\* What every handler leaves of one channel: its members, FloodServ's tables
\* and its registration r, unless a failure detached it (u).
Good(ch, r, u) ==
  ch # NoChan =>
    /\ ch.members # {} \/ ch.fs > 0
    /\ ch.flood => ch.fs > 0 /\ ch.reg # None
    /\ r # None /\ ~u => ch.reg # None
    /\ r # None /\ ch.reg # None => ch.reg = r

\* Of an entry on channel_expireban_list, counted n, of channel ch.
Bans(n, ch) ==
  n > 0 /\ ch # NoChan => n = 1 /\ ch.reg # None /\ "expirebans" \in ch.reg

Counts == [Lists -> [Chans -> Nat]]

IInv ==
  /\ TypeOK
  /\ \A c \in Chans : Good(chan[c], row[c], c \in unread)
  /\ ~orphaned => "expireban" \notin dangling
                  /\ \A c \in Chans : Bans(entries["expireban"][c], chan[c])

\* The types of what a handler writes beside the channels.
Others ==
  /\ row \in [Chans -> (SUBSET Flags) \cup {None}]
  /\ forbidden \in SUBSET Chans
  /\ loaded \in BOOLEAN /\ stale_hook \in BOOLEAN
  /\ orphaned \in BOOLEAN /\ aborted \in BOOLEAN

-----------------------------------------------------------------------------

\* A step that makes good channels, from lists without a second entry, keeps
\* the invariant: what it destroys leaves the lists.
LEMMA BecomeKeeps ==
  ASSUME IInv, NEW new \in [Chans -> Channel \cup {NoChan}], NEW e \in Counts,
         Become(new, e), Others', orphaned' = orphaned,
         \A c \in Chans : Good(new[c], row'[c], c \in unread),
         \A l \in Lists, c \in Chans : e[l][c] > 0 => Live(c) \/ new[c] # NoChan,
         ~orphaned => \A c \in Chans : e["expireban"][c] <= 1 /\ Bans(e["expireban"][c], new[c])
  PROVE  IInv'
<1> DEFINE gone == {c \in Chans : Live(c) /\ new[c] = NoChan}
<1>1. /\ chan' = new
      /\ entries' = [l \in Lists |-> [c \in Chans |-> IF c \in gone THEN 0 ELSE e[l][c]]]
      /\ dangling' = dangling \cup {l \in Lists : \E c \in gone : e[l][c] > 1}
      /\ unread' = unread \ gone
  BY DEF Become, Without
<1>2. entries' \in Counts
  BY <1>1 DEF Counts
<1>3. \A l \in Lists, c \in Chans : entries'[l][c] > 0 => chan'[c] # NoChan
  BY <1>1 DEF Counts
<1>4. TypeOK'
  BY <1>1, <1>2, <1>3 DEF IInv, TypeOK, Others, Counts, Live
<1>5. \A c \in Chans : Good(chan'[c], row'[c], c \in unread')
  <2> TAKE c \in Chans
  <2>1. CASE c \in gone
    BY <1>1, <2>1 DEF Good
  <2>2. CASE c \notin gone
    BY <1>1, <2>2
  <2> QED BY <2>1, <2>2
<1>6. ASSUME ~orphaned'
      PROVE  /\ "expireban" \notin dangling'
             /\ \A c \in Chans : Bans(entries'["expireban"][c], chan'[c])
  <2>1. "expireban" \notin dangling'
    BY <1>1, <1>6 DEF IInv, Lists, Counts
  <2>2. ASSUME NEW c \in Chans PROVE Bans(entries'["expireban"][c], chan'[c])
    BY <1>1, <1>6, <2>2 DEF Bans, Lists
  <2> QED BY <2>1, <2>2
<1> QED BY <1>4, <1>5, <1>6 DEF IInv

\* The same for a step about one channel, which the lists follow.
LEMMA BecomesKeeps ==
  ASSUME IInv, NEW c \in Chans, NEW ch \in Channel \cup {NoChan}, NEW e \in Counts,
         Become([chan EXCEPT ![c] = ch], e), Others', orphaned' = orphaned,
         \A d \in Chans \ {c} : row'[d] = row[d],
         Good(ch, row'[c], c \in unread),
         \A l \in Lists, d \in Chans \ {c} : e[l][d] = entries[l][d],
         \A l \in Lists : e[l][c] > 0 => Live(c) \/ ch # NoChan,
         ~orphaned => e["expireban"][c] <= 1 /\ Bans(e["expireban"][c], ch)
  PROVE  IInv'
<1> DEFINE new == [chan EXCEPT ![c] = ch]
<1>1. new \in [Chans -> Channel \cup {NoChan}] /\ new[c] = ch /\ \A d \in Chans \ {c} : new[d] = chan[d]
  BY DEF IInv, TypeOK
<1>2. \A d \in Chans : Good(new[d], row'[d], d \in unread)
  BY <1>1 DEF IInv
<1>3. ASSUME NEW l \in Lists, NEW d \in Chans, e[l][d] > 0 PROVE Live(d) \/ new[d] # NoChan
  BY <1>1, <1>3 DEF IInv, TypeOK
<1>4. ASSUME ~orphaned, NEW d \in Chans
      PROVE  e["expireban"][d] <= 1 /\ Bans(e["expireban"][d], new[d])
  <2>1. CASE d = c
    BY <1>1, <1>4, <2>1
  <2>2. CASE d # c
    <3>1. /\ e["expireban"][d] = entries["expireban"][d]
          /\ new[d] = chan[d]
          /\ Bans(entries["expireban"][d], chan[d])
          /\ entries["expireban"][d] \in Nat
          /\ entries["expireban"][d] > 0 => chan[d] # NoChan
      BY <1>1, <1>4, <2>2 DEF IInv, TypeOK, Lists, Live
    <3> QED BY <3>1 DEF Bans
  <2> QED BY <2>1, <2>2
<1> QED BY <1>1, <1>2, <1>3, <1>4, BecomeKeeps

\* A step that changes one channel, not its registration, and lists nothing.
LEMMA MembersKeep ==
  ASSUME IInv, NEW c \in Chans, Live(c), NEW ch \in Channel \cup {NoChan}, Becomes(c, ch),
         Good(ch, row[c], c \in unread), ch # NoChan => ch.reg = chan[c].reg,
         row' = row, Others', orphaned' = orphaned
  PROVE  IInv'
<1>1. entries \in Counts
  BY DEF IInv, TypeOK, Counts
<1>2. ~orphaned => entries["expireban"][c] <= 1 /\ Bans(entries["expireban"][c], ch)
  <2>1. entries["expireban"][c] \in Nat
    BY <1>1 DEF Counts, Lists
  <2> QED BY <2>1 DEF IInv, Bans, Live
<1> QED BY <1>1, <1>2, BecomesKeeps DEF Becomes

\* Members leave: the channel is good, with the registration it had, or gone
\* (remove_user_from_channel).
LEMMA RemoveUsersGood ==
  ASSUME NEW ch \in Channel, NEW us, NEW r, NEW u, Good(ch, r, u)
  PROVE  /\ RemoveUsers(ch, us) \in Channel \cup {NoChan}
         /\ Good(RemoveUsers(ch, us), r, u)
         /\ RemoveUsers(ch, us) # NoChan => RemoveUsers(ch, us).reg = ch.reg
BY ChannelAssumption DEF RemoveUsers, Good, Channel

\* FloodServ leaves: its tables go as well (part_one_client, fs_on_client_part).
LEMMA PartFloodGood ==
  ASSUME NEW ch \in Channel, NEW r, NEW u, Good(ch, r, u), ch.fs > 0
  PROVE  /\ PartFlood(ch) \in Channel \cup {NoChan}
         /\ Good(PartFlood(ch), r, u)
         /\ PartFlood(ch) # NoChan => PartFlood(ch).reg = ch.reg
         /\ ch.members # {} => PartFlood(ch) # NoChan
<1> DEFINE less == [ch EXCEPT !.fs = @ - 1, !.flood = FALSE]
<1>1. /\ less \in Channel
      /\ less.members = ch.members /\ less.fs = ch.fs - 1 /\ less.reg = ch.reg /\ less.flood = FALSE
      /\ ch.fs \in Nat
  <2>1. ch.fs \in Nat /\ ch.fs - 1 \in Nat
    BY DEF Channel
  <2> DEFINE one == [ch EXCEPT !.fs = ch.fs - 1]
  <2>2. /\ one \in Channel
        /\ one.members = ch.members /\ one.fs = ch.fs - 1 /\ one.reg = ch.reg
    BY <2>1 DEF Channel
  <2>3. less = [one EXCEPT !.flood = FALSE]
    OBVIOUS
  <2> HIDE DEF one, less
  <2>4. less \in Channel /\ less.members = one.members /\ less.fs = one.fs /\ less.reg = one.reg /\ less.flood = FALSE
    BY <2>2, <2>3 DEF Channel
  <2> QED BY <2>1, <2>2, <2>4
<1>2. ch # NoChan /\ less # NoChan
  BY <1>1, ChannelAssumption
<1>3. PartFlood(ch) = IF ch.members = {} /\ ch.fs = 1 THEN NoChan ELSE less
  BY DEF PartFlood
<1> HIDE DEF less
<1>4. Good(less, r, u) \/ (ch.members = {} /\ ch.fs = 1)
  BY <1>1, <1>2 DEF Good
<1> QED BY <1>1, <1>2, <1>3, <1>4 DEF Good

\* The lists after a join: the channel is on each list at most once more.
LEMMA ListedFacts ==
  ASSUME entries \in Counts, NEW c \in Chans, NEW reg \in (SUBSET Flags) \cup {None}
  PROVE  /\ Listed(c, reg) \in Counts
         /\ \A l \in Lists, d \in Chans \ {c} : Listed(c, reg)[l][d] = entries[l][d]
         /\ Listed(c, reg)["expireban"][c] =
              IF reg # None /\ "expirebans" \in reg /\ entries["expireban"][c] = 0
                THEN 1 ELSE entries["expireban"][c]
BY DEF Listed, Counts, Lists

\* What a join leaves on the lists suits BecomesKeeps.
LEMMA ListedBans ==
  ASSUME IInv, NEW c \in Chans, NEW ch \in Channel,
         Live(c) => chan[c].reg = ch.reg,
         NEW e \in {entries, Listed(c, ch.reg)}
  PROVE  /\ e \in Counts
         /\ \A l \in Lists, d \in Chans \ {c} : e[l][d] = entries[l][d]
         /\ ~orphaned => e["expireban"][c] <= 1 /\ Bans(e["expireban"][c], ch)
<1>1. entries \in Counts /\ ch.reg \in (SUBSET Flags) \cup {None}
  BY DEF IInv, TypeOK, Counts, Channel
<1>2. entries["expireban"][c] \in Nat
  BY <1>1 DEF Counts, Lists
<1>3. ~orphaned => entries["expireban"][c] <= 1 /\ Bans(entries["expireban"][c], ch)
  BY <1>2 DEF IInv, TypeOK, Bans, Live, Lists
<1>4. CASE e = entries
  BY <1>1, <1>3, <1>4
<1>5. CASE e = Listed(c, ch.reg)
  BY <1>1, <1>2, <1>3, <1>5, ListedFacts DEF Bans
<1> QED BY <1>4, <1>5

-----------------------------------------------------------------------------
(* The network.                                                            *)

\* Users join a channel that exists (m_join, m_sjoin).
LEMMA JoinKeeps ==
  ASSUME IInv, NEW c \in Chans, Live(c), NEW us \in SUBSET Users, NEW bad \in SUBSET us,
         Join(c, chan[c], us, bad)
  PROVE  IInv'
<1> DEFINE ch == [chan[c] EXCEPT !.members = @ \cup (us \ (bad \ Gods))]
<1>1. PICK e \in {entries, Listed(c, chan[c].reg)} : Become([chan EXCEPT ![c] = ch], e)
  BY DEF Join
<1>2. chan[c] \in Channel /\ Good(chan[c], row[c], c \in unread)
  BY DEF IInv, TypeOK, Live
<1>3. ch \in Channel /\ ch.reg = chan[c].reg /\ Good(ch, row[c], c \in unread)
  BY <1>2 DEF Channel, Good, Live
<1>4. Others' /\ orphaned' = orphaned /\ row' = row
  BY DEF Join, IInv, TypeOK, Others
<1> HIDE DEF ch
<1> QED BY <1>1, <1>3, <1>4, ListedBans, BecomesKeeps

LEMMA PartKeeps ==
  ASSUME IInv, NEW c \in Chans, NEW u \in Users, PartMessage(u, c)
  PROVE  IInv'
<1> DEFINE ch == IF FloodLeaves(chan[c]) THEN PartFlood(chan[c]) ELSE chan[c]
<1>1. /\ Live(c)
      /\ chan[c] \in Channel
      /\ Good(chan[c], row[c], c \in unread)
  BY DEF PartMessage, IInv, TypeOK, Live
<1>2. /\ ch \in Channel \cup {NoChan}
      /\ Good(ch, row[c], c \in unread)
      /\ ch # NoChan => ch.reg = chan[c].reg
      /\ chan[c].members # {} => ch # NoChan
  <2>1. CASE FloodLeaves(chan[c])
    <3>1. chan[c].fs > 0
      BY <2>1 DEF FloodLeaves
    <3>2. /\ PartFlood(chan[c]) \in Channel \cup {NoChan}
          /\ Good(PartFlood(chan[c]), row[c], c \in unread)
          /\ PartFlood(chan[c]) # NoChan => PartFlood(chan[c]).reg = chan[c].reg
          /\ chan[c].members # {} => PartFlood(chan[c]) # NoChan
      BY <1>1, <3>1, PartFloodGood
    <3>3. ch = PartFlood(chan[c])
      BY <2>1
    <3> HIDE DEF ch
    <3> QED BY <3>2, <3>3
  <2>2. CASE ~FloodLeaves(chan[c])
    BY <1>1, <2>2 DEF Live
  <2> QED BY <2>1, <2>2
<1>3. ASSUME Others', row' = row, orphaned' = orphaned, Becomes(c, ch)
      PROVE IInv'
  BY <1>1, <1>2, <1>3, MembersKeep
<1>4. ASSUME Others', row' = row, orphaned' = orphaned, u \in chan[c].members, 
             Becomes(c, RemoveUsers(ch, {u}))
      PROVE IInv'
  <2>1. ch # NoChan
    BY <1>2, <1>4
  <2>2. /\ RemoveUsers(ch, {u}) \in Channel \cup {NoChan}
        /\ Good(RemoveUsers(ch, {u}), row[c], c \in unread)
        /\ RemoveUsers(ch, {u}) # NoChan => RemoveUsers(ch, {u}).reg = ch.reg
    BY <1>2, <2>1, RemoveUsersGood
  <2> QED BY <1>1, <1>2, <1>4, <2>1, <2>2, MembersKeep
<1>5. ASSUME UNCHANGED <<row, forbidden, loaded, stale_hook, orphaned, aborted>>
      PROVE  Others' /\ row' = row /\ orphaned' = orphaned
  BY <1>5 DEF IInv, TypeOK, Others
<1>6. CASE Abort
  BY <1>6 DEF Abort, IInv, TypeOK, Live
<1> QED BY <1>3, <1>4, <1>5, <1>6 DEF PartMessage

\* What the UNCHANGED of a handler that changes one channel says.
LEMMA OthersSame ==
  ASSUME IInv, UNCHANGED <<row, forbidden, loaded, stale_hook, orphaned, aborted>>
  PROVE  Others' /\ row' = row /\ orphaned' = orphaned
BY DEF IInv, TypeOK, Others

\* A live channel is a good one.
LEMMA LiveGood ==
  ASSUME IInv, NEW c \in Chans, Live(c)
  PROVE  chan[c] \in Channel /\ Good(chan[c], row[c], c \in unread)
BY DEF IInv, TypeOK, Live

LEMMA KicksKeep ==
  ASSUME IInv, NEW c \in Chans, Live(c), NEW us, Becomes(c, RemoveUsers(chan[c], us)),
         UNCHANGED <<row, forbidden, loaded, stale_hook, orphaned, aborted>>
  PROVE  IInv'
BY LiveGood, RemoveUsersGood, OthersSame, MembersKeep

LEMMA KickFloodKeeps ==
  ASSUME IInv, NEW c \in Chans, KickFlood(c)
  PROVE  IInv'
<1>1. /\ Live(c) /\ chan[c].fs > 0 /\ Becomes(c, PartFlood(chan[c]))
      /\ UNCHANGED <<row, forbidden, loaded, stale_hook, orphaned, aborted>>
  BY DEF KickFlood
<1> QED BY <1>1, LiveGood, PartFloodGood, OthersSame, MembersKeep

\* A step that only shrinks channels keeps the invariant (exit_one_client,
\* floodserv_cleanup_channels, the unloading of FloodServ).
LEMMA ShrinkKeeps ==
  ASSUME IInv, NEW new \in [Chans -> Channel \cup {NoChan}], Become(new, entries),
         Others', orphaned' = orphaned, row' = row,
         \A c \in Chans : Good(new[c], row[c], c \in unread),
         \A c \in Chans : new[c] # NoChan => Live(c) /\ new[c].reg = chan[c].reg
  PROVE  IInv'
<1>1. entries \in Counts /\ \A l \in Lists, c \in Chans : entries[l][c] > 0 => Live(c)
  BY DEF IInv, TypeOK, Counts
<1>2. ASSUME ~orphaned, NEW c \in Chans
      PROVE  entries["expireban"][c] <= 1 /\ Bans(entries["expireban"][c], new[c])
  <2>1. /\ entries["expireban"][c] \in Nat
        /\ Bans(entries["expireban"][c], chan[c])
        /\ entries["expireban"][c] > 0 => chan[c] # NoChan
    BY <1>1, <1>2 DEF IInv, Counts, Lists, Live
  <2>2. new[c] # NoChan => new[c].reg = chan[c].reg
    OBVIOUS
  <2> QED BY <2>1, <2>2 DEF Bans
<1> QED BY <1>1, <1>2, BecomeKeeps

LEMMA QuitKeeps ==
  ASSUME IInv, NEW u \in Users, Quit(u)
  PROVE  IInv'
<1> DEFINE new == [c \in Chans |-> IF Live(c) /\ u \in chan[c].members
                                     THEN RemoveUsers(chan[c], {u}) ELSE chan[c]]
<1>1. /\ Become(new, entries)
      /\ UNCHANGED <<row, forbidden, loaded, stale_hook, orphaned, aborted>>
  BY DEF Quit
<1>2. ASSUME NEW c \in Chans
      PROVE  /\ new[c] \in Channel \cup {NoChan}
             /\ Good(new[c], row[c], c \in unread)
             /\ new[c] # NoChan => Live(c) /\ new[c].reg = chan[c].reg
  <2>1. CASE Live(c) /\ u \in chan[c].members
    BY <2>1, LiveGood, RemoveUsersGood
  <2>2. CASE ~(Live(c) /\ u \in chan[c].members)
    BY <2>2 DEF IInv, TypeOK, Live
  <2> QED BY <2>1, <2>2
<1>3. new \in [Chans -> Channel \cup {NoChan}]
  BY <1>2
<1> HIDE DEF new
<1> QED BY <1>1, <1>2, <1>3, OthersSame, ShrinkKeeps

LEMMA CleanupKeeps ==
  ASSUME IInv, Cleanup
  PROVE  IInv'
<1> DEFINE new == [c \in Chans |-> IF Alone(c) THEN PartFlood(chan[c]) ELSE chan[c]]
<1>1. /\ Become(new, entries)
      /\ UNCHANGED <<row, forbidden, loaded, stale_hook, orphaned, aborted>>
  BY DEF Cleanup
<1>2. ASSUME NEW c \in Chans
      PROVE  /\ new[c] \in Channel \cup {NoChan}
             /\ Good(new[c], row[c], c \in unread)
             /\ new[c] # NoChan => Live(c) /\ new[c].reg = chan[c].reg
  <2>1. CASE Alone(c)
    <3>1. Live(c) /\ chan[c].fs > 0
      BY <2>1 DEF Alone
    <3> QED BY <2>1, <3>1, LiveGood, PartFloodGood
  <2>2. CASE ~Alone(c)
    BY <2>2 DEF IInv, TypeOK, Live
  <2> QED BY <2>1, <2>2
<1>3. new \in [Chans -> Channel \cup {NoChan}]
  BY <1>2
<1> HIDE DEF new
<1> QED BY <1>1, <1>2, <1>3, OthersSame, ShrinkKeeps

LEMMA UnloadKeeps ==
  ASSUME IInv, Unload
  PROVE  IInv'
<1> DEFINE left(c) == [chan[c] EXCEPT !.fs = 0, !.flood = FALSE]
           new == [c \in Chans |-> IF ~Live(c) THEN NoChan
                                   ELSE IF chan[c].members = {} THEN NoChan ELSE left(c)]
<1>1. Become(new, entries) /\ row' = row /\ Others' /\ orphaned' = orphaned
  BY DEF Unload, Others, IInv, TypeOK
<1>2. ASSUME NEW c \in Chans, Live(c), chan[c].members # {}
      PROVE  /\ left(c) \in Channel /\ left(c) # NoChan
             /\ Good(left(c), row[c], c \in unread)
             /\ left(c).reg = chan[c].reg
  <2>1. chan[c] \in Channel /\ Good(chan[c], row[c], c \in unread)
    BY <1>2, LiveGood
  <2> DEFINE one == [chan[c] EXCEPT !.fs = 0]
  <2>2. one \in Channel /\ one.members = chan[c].members /\ one.reg = chan[c].reg
    BY <2>1 DEF Channel
  <2>3. left(c) = [one EXCEPT !.flood = FALSE]
    OBVIOUS
  <2> HIDE DEF one, left
  <2>4. /\ left(c) \in Channel
        /\ left(c).members = one.members /\ left(c).reg = one.reg /\ left(c).flood = FALSE
    BY <2>2, <2>3 DEF Channel
  <2>5. left(c) # NoChan
    BY <2>4, ChannelAssumption
  <2> QED BY <1>2, <2>1, <2>2, <2>4, <2>5 DEF Good, Live
<1> HIDE DEF left
<1>3. ASSUME NEW c \in Chans
      PROVE  /\ new[c] \in Channel \cup {NoChan}
             /\ Good(new[c], row[c], c \in unread)
             /\ new[c] # NoChan => Live(c) /\ new[c].reg = chan[c].reg
  <2>1. CASE Live(c) /\ chan[c].members # {}
    BY <1>2, <2>1
  <2>2. CASE ~(Live(c) /\ chan[c].members # {})
    BY <2>2 DEF Good
  <2> QED BY <2>1, <2>2
<1>4. new \in [Chans -> Channel \cup {NoChan}]
  BY <1>3
<1> HIDE DEF new
<1> QED BY <1>1, <1>3, <1>4, ShrinkKeeps

\* The process stops: nothing else changes.
LEMMA AbortKeeps ==
  ASSUME IInv, Abort
  PROVE  IInv'
BY DEF Abort, IInv, TypeOK, Live

\* A new channel (m_sjoin): not yet on a list, and made from its row.
LEMMA SJoinNewKeeps ==
  ASSUME IInv, NEW c \in Chans, NEW us \in SUBSET Users, NEW bad \in SUBSET us,
         NEW lost \in BOOLEAN, SJoinNew(c, us, bad, lost)
  PROVE  IInv'
<1>1. PICK reg \in MadeRegs(c), found \in MadeRegs(c) :
        LET stay  == us \ (bad \ Gods)
            made  == stay # {} \/ lost
            known == IF reg # None THEN reg ELSE found
            flood == made /\ loaded /\ known # None /\ "floodserv" \in known
            ch    == [members |-> stay, fs |-> IF flood THEN 1 ELSE 0, reg |-> reg,
                      flood |-> flood /\ reg # None]
            new   == IF made THEN Created(ch) ELSE NoChan
        IN /\ chan' = [chan EXCEPT ![c] = new]
           /\ \E e \in IF us # bad THEN {Listed(c, reg)} ELSE IF flood THEN FloodJoin(c, reg) ELSE {entries} :
                entries' = IF new # NoChan THEN e ELSE entries
           /\ unread' = IF new # NoChan /\ reg # row[c] THEN unread \cup {c} ELSE unread
  BY DEF SJoinNew
<1> DEFINE stay  == us \ (bad \ Gods)
           made  == stay # {} \/ lost
           known == IF reg # None THEN reg ELSE found
           flood == made /\ loaded /\ known # None /\ "floodserv" \in known
           ch    == [members |-> stay, fs |-> IF flood THEN 1 ELSE 0, reg |-> reg,
                     flood |-> flood /\ reg # None]
           new   == IF made THEN Created(ch) ELSE NoChan
<1>2. reg \in (SUBSET Flags) \cup {None}
  BY DEF MadeRegs, IInv, TypeOK
<1>3. ch \in Channel /\ ch.reg = reg
  BY <1>2 DEF Channel
<1>4. new \in {ch, NoChan} /\ (new # NoChan => ch.members # {} \/ ch.fs > 0)
  BY DEF Created
<1>5. /\ chan' = [chan EXCEPT ![c] = new]
      /\ entries' \in {entries, Listed(c, ch.reg)}
      /\ new = NoChan => entries' = entries
      /\ unread' = IF new # NoChan /\ reg # row[c] THEN unread \cup {c} ELSE unread
  BY <1>1, <1>3 DEF FloodJoin
<1>6. ch.flood => ch.fs > 0 /\ ch.reg # None
  <2> HIDE DEF flood
  <2>1. ch.flood => flood /\ reg # None
    OBVIOUS
  <2>2. flood => ch.fs = 1
    OBVIOUS
  <2> HIDE DEF ch
  <2>3. ch.fs = 1 => ch.fs > 0
    OBVIOUS
  <2> QED BY <1>3, <2>1, <2>2, <2>3
<1> HIDE DEF ch, new
<1>7. /\ ~Live(c)
      /\ UNCHANGED <<row, forbidden, dangling, loaded, stale_hook, orphaned, aborted>>
  BY DEF SJoinNew
<1>8. /\ entries' \in Counts
      /\ \A l \in Lists, d \in Chans \ {c} : entries'[l][d] = entries[l][d]
      /\ ~orphaned => entries'["expireban"][c] <= 1 /\ Bans(entries'["expireban"][c], ch)
  BY <1>3, <1>5, <1>7, ListedBans
<1>9. TypeOK'
  <2>1. /\ chan' \in [Chans -> Channel \cup {NoChan}]
        /\ \A d \in Chans \ {c} : chan'[d] = chan[d]
        /\ chan'[c] = new
    BY <1>3, <1>4, <1>5 DEF IInv, TypeOK
  <2>2. ASSUME NEW l \in Lists, NEW d \in Chans, entries'[l][d] > 0 PROVE chan'[d] # NoChan
    <3>1. CASE d = c
      BY <1>4, <1>5, <1>7, <2>1, <2>2, <3>1 DEF IInv, TypeOK, Live
    <3>2. CASE d # c
      BY <1>8, <2>1, <2>2, <3>2 DEF IInv, TypeOK, Live
    <3> QED BY <3>1, <3>2
  <2> QED BY <1>5, <1>7, <1>8, <2>1, <2>2 DEF IInv, TypeOK, Counts, Live
<1>10. ASSUME NEW d \in Chans PROVE Good(chan'[d], row'[d], d \in unread')
  <2>1. CASE d = c
    <3>1. chan'[c] = new /\ row'[c] = row[c]
      BY <1>5, <1>7 DEF IInv, TypeOK
    <3>2. CASE new = NoChan
      BY <2>1, <3>1, <3>2 DEF Good
    <3>3. CASE new # NoChan
      <4>1. new = ch /\ (ch.members # {} \/ ch.fs > 0)
        BY <1>4, <3>3
      <4>2. ch.reg = row[c] \/ c \in unread'
        BY <1>3, <1>5, <3>3
      <4>3. ch.reg = row[c] \/ ch.reg = None
        BY <1>3 DEF MadeRegs
      <4> QED BY <1>6, <2>1, <3>1, <4>1, <4>2, <4>3 DEF Good
    <3> QED BY <3>2, <3>3
  <2>2. CASE d # c
    BY <1>5, <1>7, <2>2 DEF IInv, TypeOK
  <2> QED BY <2>1, <2>2
<1>11. ASSUME ~orphaned' PROVE \A d \in Chans : Bans(entries'["expireban"][d], chan'[d])
  <2> TAKE d \in Chans
  <2>1. CASE d = c
    BY <1>4, <1>5, <1>7, <1>8, <1>11, <2>1 DEF Bans, IInv, TypeOK
  <2>2. CASE d # c
    BY <1>5, <1>7, <1>8, <1>11, <2>2 DEF IInv, TypeOK, Lists
  <2> QED BY <2>1, <2>2
<1> QED BY <1>7, <1>9, <1>10, <1>11 DEF IInv

-----------------------------------------------------------------------------
(* The registration.                                                       *)

LEMMA RegisterKeeps ==
  ASSUME IInv, NEW u \in Users, NEW c \in Chans, Register(u, c)
  PROVE  IInv'
<1> DEFINE ch == [chan[c] EXCEPT !.reg = {}]
<1>1. chan[c] \in Channel /\ Good(chan[c], row[c], c \in unread) /\ Live(c) /\ chan[c].reg = None
  BY LiveGood DEF Register
<1>2. /\ ch \in Channel /\ ch.reg = {}
      /\ ch.members = chan[c].members /\ ch.fs = chan[c].fs /\ ch.flood = chan[c].flood
  BY <1>1 DEF Channel
<1> HIDE DEF ch
<1>3. /\ Become([chan EXCEPT ![c] = ch], entries) /\ orphaned' = orphaned
      /\ row' = [row EXCEPT ![c] = {}]
  BY DEF Register, Becomes, ch
<1>4. Others' /\ row'[c] = {} /\ \A d \in Chans \ {c} : row'[d] = row[d]
  BY <1>3 DEF Register, Others, IInv, TypeOK
<1>5. {} # None
  BY ChannelAssumption
<1>6. Good(ch, row'[c], c \in unread)
  BY <1>1, <1>2, <1>4, <1>5 DEF Good, Live
<1>7. entries \in Counts /\ ~orphaned => entries["expireban"][c] = 0
  BY <1>1 DEF IInv, TypeOK, Bans, Live, Lists, Counts
<1>8. entries \in Counts
  BY DEF IInv, TypeOK, Counts
<1> QED BY <1>1, <1>2, <1>3, <1>4, <1>6, <1>7, <1>8, BecomesKeeps DEF Bans

\* fs_on_chan_drop: FloodServ leaves.
LEMMA UnwatchedGood ==
  ASSUME NEW ch \in Channel \cup {NoChan}, NEW r, NEW u, Good(ch, r, u)
  PROVE  /\ Unwatched(ch) \in Channel \cup {NoChan}
         /\ Good(Unwatched(ch), r, u)
         /\ Unwatched(ch) # NoChan => ch # NoChan /\ Unwatched(ch).reg = ch.reg
<1>1. CASE ch # NoChan /\ loaded /\ ch.fs > 0
  BY <1>1, PartFloodGood DEF Unwatched
<1>2. CASE ~(ch # NoChan /\ loaded /\ ch.fs > 0)
  BY <1>2 DEF Unwatched
<1> QED BY <1>1, <1>2

\* A channel without its registration is good when its row is gone too, or
\* when it is known to be detached.
LEMMA DetachedGood ==
  ASSUME NEW ch \in Channel \cup {NoChan}, NEW r, NEW u, Good(ch, r, u)
  PROVE  /\ Detached(ch) \in Channel \cup {NoChan}
         /\ Good(Detached(ch), None, u)
         /\ Good(Detached(ch), r, TRUE)
         /\ Detached(ch) = NoChan <=> ch = NoChan
<1>1. CASE ch = NoChan
  BY <1>1 DEF Detached, Good
<1>2. CASE ch # NoChan
  <2> DEFINE one == [ch EXCEPT !.reg = None]
  <2>1. one \in Channel /\ one.members = ch.members /\ one.fs = ch.fs /\ one.reg = None
    BY <1>2 DEF Channel
  <2>2. Detached(ch) = [one EXCEPT !.flood = FALSE]
    BY <1>2 DEF Detached
  <2> HIDE DEF one
  <2>3. /\ Detached(ch) \in Channel /\ Detached(ch).members = ch.members
        /\ Detached(ch).fs = ch.fs /\ Detached(ch).reg = None /\ Detached(ch).flood = FALSE
    BY <2>1, <2>2 DEF Channel
  <2>4. Detached(ch) # NoChan
    BY <2>3, ChannelAssumption
  <2> QED BY <1>2, <2>3, <2>4 DEF Good
<1> QED BY <1>1, <1>2

\* One entry less of a channel on a list (dlinkFindDelete).
LEMMA UnlistFacts ==
  ASSUME IInv, NEW l \in Lists, NEW c \in Chans
  PROVE  /\ Unlist(l, c) \in Counts
         /\ \A k \in Lists, d \in Chans \ {c} : Unlist(l, c)[k][d] = entries[k][d]
         /\ \A k \in Lists : Unlist(l, c)[k][c] <= entries[k][c]
         /\ \A k \in Lists \ {l} : Unlist(l, c)[k][c] = entries[k][c]
         /\ Unlist(l, c)[l][c] = IF entries[l][c] > 0 THEN entries[l][c] - 1 ELSE 0
<1>1. entries \in Counts
  BY DEF IInv, TypeOK, Counts
<1>2. entries[l] \in [Chans -> Nat] /\ entries[l][c] \in Nat
  BY <1>1 DEF Counts
<1> DEFINE n == IF entries[l][c] > 0 THEN entries[l][c] - 1 ELSE 0
<1>3. n \in Nat /\ n <= entries[l][c]
  BY <1>2
<1>4. Unlist(l, c) = [entries EXCEPT ![l] = [entries[l] EXCEPT ![c] = n]]
  BY <1>1, <1>2 DEF Unlist, Counts
<1> HIDE DEF n
<1>5. \A k \in Lists : Unlist(l, c)[k] = IF k = l THEN [entries[l] EXCEPT ![c] = n] ELSE entries[k]
  BY <1>1, <1>4 DEF Counts
<1>6. Unlist(l, c) \in Counts
  BY <1>1, <1>2, <1>3, <1>4 DEF Counts
<1>7. \A k \in Lists : entries[k][c] \in Nat
  BY <1>1 DEF Counts
<1> QED BY <1>2, <1>3, <1>5, <1>6, <1>7 DEF n

\* The entries of a channel while no nickname DROP went wrong.
LEMMA BansFacts ==
  ASSUME IInv, NEW c \in Chans
  PROVE  /\ entries \in Counts
         /\ \A l \in Lists : entries[l][c] \in Nat /\ (entries[l][c] > 0 => Live(c))
         /\ "expireban" \in Lists /\ "limit" \in Lists
         /\ ~orphaned => /\ entries["expireban"][c] <= 1
                         /\ entries["expireban"][c] > 0 =>
                              Live(c) /\ chan[c].reg # None /\ "expirebans" \in chan[c].reg
<1>1. /\ entries \in Counts
      /\ \A l \in Lists : entries[l][c] \in Nat /\ (entries[l][c] > 0 => Live(c))
      /\ "expireban" \in Lists /\ "limit" \in Lists
  BY DEF IInv, TypeOK, Counts, Lists
<1>2. ~orphaned => Bans(entries["expireban"][c], chan[c])
  BY DEF IInv
<1> QED BY <1>1, <1>2 DEF Bans, Live

LEMMA DropKeeps ==
  ASSUME IInv, NEW c \in Chans, Drop(c)
  PROVE  IInv'
<1> DEFINE ch == Unwatched(chan[c])
<1>1. CASE Abort
  BY <1>1, AbortKeeps
<1>2. CASE /\ Live(c) => ch # NoChan
           /\ Become([chan EXCEPT ![c] = Detached(ch)], Unlist("expireban", c))
           /\ row' = [row EXCEPT ![c] = None]
           /\ UNCHANGED <<forbidden, loaded, stale_hook, orphaned, aborted>>
  <2>1. chan[c] \in Channel \cup {NoChan} /\ Good(chan[c], row[c], c \in unread)
    BY DEF IInv, TypeOK
  <2>2. /\ ch \in Channel \cup {NoChan}
        /\ Good(ch, row[c], c \in unread)
    BY <2>1, UnwatchedGood
  <2>3. /\ Detached(ch) \in Channel \cup {NoChan}
        /\ Good(Detached(ch), None, c \in unread)
    BY <2>2, DetachedGood
  <2>4. Others' /\ orphaned' = orphaned /\ row'[c] = None /\ \A d \in Chans \ {c} : row'[d] = row[d]
    BY <1>2 DEF IInv, TypeOK, Others
  <2> DEFINE e == Unlist("expireban", c)
  <2>5. /\ e \in Counts /\ \A l \in Lists, d \in Chans \ {c} : e[l][d] = entries[l][d]
        /\ \A l \in Lists : e[l][c] > 0 => Live(c)
        /\ ~orphaned => e["expireban"][c] = 0
    BY BansFacts, UnlistFacts DEF Counts
  <2>6. Become([chan EXCEPT ![c] = Detached(ch)], e)
    BY <1>2
  <2>7. ~orphaned => e["expireban"][c] <= 1 /\ Bans(e["expireban"][c], Detached(ch))
    BY <2>5 DEF Bans
  <2> HIDE DEF e, ch
  <2> QED BY <2>3, <2>4, <2>5, <2>6, <2>7, BecomesKeeps
<1> QED BY <1>1, <1>2 DEF Drop

\* The DROP of a nickname detaches its channels, and is the only step that may
\* set orphaned (check_masterless_channels).
LEMMA NickDropKeeps ==
  ASSUME IInv, NEW c \in Chans, NickDrop(c)
  PROVE  IInv'
<1>1. PICK deleted \in BOOLEAN :
        \E ch \in {IF deleted THEN Unwatched(chan[c]) ELSE chan[c]} :
          LET new == [chan EXCEPT ![c] = Detached(ch)] IN
          /\ chan' = new
          /\ entries' = [l \in Lists |-> Without(entries[l], IF ch = NoChan THEN {c} ELSE {})]
          /\ dangling' = dangling \cup {l \in Lists : ch = NoChan /\ entries[l][c] > 1}
          /\ unread' = IF ch = NoChan THEN unread \ {c}
                       ELSE IF deleted THEN unread ELSE unread \cup {c}
          /\ row' = IF deleted THEN [row EXCEPT ![c] = None] ELSE row
          /\ orphaned' = (orphaned \/ (ch # NoChan /\ entries["expireban"][c] > 0))
  BY DEF NickDrop
<1> DEFINE ch == IF deleted THEN Unwatched(chan[c]) ELSE chan[c]
           n == IF ch = NoChan THEN {c} ELSE {}
<1>2. /\ chan' = [chan EXCEPT ![c] = Detached(ch)]
      /\ entries' = [l \in Lists |-> Without(entries[l], n)]
      /\ dangling' = dangling \cup {l \in Lists : ch = NoChan /\ entries[l][c] > 1}
      /\ unread' = IF ch = NoChan THEN unread \ {c}
                   ELSE IF deleted THEN unread ELSE unread \cup {c}
      /\ row' = IF deleted THEN [row EXCEPT ![c] = None] ELSE row
      /\ orphaned' = (orphaned \/ (ch # NoChan /\ entries["expireban"][c] > 0))
      /\ UNCHANGED <<forbidden, loaded, stale_hook, aborted>>
  BY <1>1 DEF NickDrop
<1>3. chan[c] \in Channel \cup {NoChan} /\ Good(chan[c], row[c], c \in unread)
  BY DEF IInv, TypeOK
<1>4. ch \in Channel \cup {NoChan} /\ Good(ch, row[c], c \in unread)
  BY <1>3, UnwatchedGood
<1> HIDE DEF ch
<1>5. /\ Detached(ch) \in Channel \cup {NoChan}
      /\ Good(Detached(ch), None, c \in unread)
      /\ Good(Detached(ch), row[c], TRUE)
      /\ Detached(ch) = NoChan <=> ch = NoChan
  BY <1>4, DetachedGood
<1>6. /\ chan' \in [Chans -> Channel \cup {NoChan}]
      /\ chan'[c] = Detached(ch)
      /\ \A d \in Chans \ {c} : chan'[d] = chan[d]
  BY <1>2, <1>5 DEF IInv, TypeOK
<1>7. /\ entries' \in Counts
      /\ \A l \in Lists, d \in Chans \ {c} : entries'[l][d] = entries[l][d]
      /\ \A l \in Lists : entries'[l][c] = IF ch = NoChan THEN 0 ELSE entries[l][c]
  BY <1>2 DEF Without, IInv, TypeOK, Counts
<1>8. ASSUME NEW l \in Lists, NEW d \in Chans, entries'[l][d] > 0 PROVE chan'[d] # NoChan
  <2>1. CASE d = c
    BY <1>5, <1>6, <1>7, <1>8, <2>1
  <2>2. CASE d # c
    BY <1>6, <1>7, <1>8, <2>2 DEF IInv, TypeOK, Live
  <2> QED BY <2>1, <2>2
<1>9. TypeOK'
  BY <1>2, <1>6, <1>7, <1>8 DEF IInv, TypeOK, Counts, Live
<1>10. ASSUME NEW d \in Chans PROVE Good(chan'[d], row'[d], d \in unread')
  <2>1. CASE d # c
    <3>1. row'[d] = row[d] /\ (d \in unread' <=> d \in unread)
      BY <1>2, <2>1 DEF IInv, TypeOK
    <3> QED BY <1>6, <2>1, <3>1 DEF IInv
  <2>2. CASE d = c /\ ch = NoChan
    BY <1>5, <1>6, <2>2 DEF Good
  <2>3. CASE d = c /\ ch # NoChan /\ deleted
    <3>1. row'[c] = None /\ unread' = unread
      BY <1>2, <2>3 DEF IInv, TypeOK
    <3> QED BY <1>5, <1>6, <2>3, <3>1
  <2>4. CASE d = c /\ ch # NoChan /\ ~deleted
    <3>1. row' = row /\ c \in unread'
      BY <1>2, <2>4
    <3> QED BY <1>5, <1>6, <2>4, <3>1 DEF Good
  <2> QED BY <2>1, <2>2, <2>3, <2>4
<1>11. ASSUME ~orphaned'
       PROVE  /\ "expireban" \notin dangling'
              /\ \A d \in Chans : Bans(entries'["expireban"][d], chan'[d])
  <2>1. ~orphaned /\ (ch = NoChan \/ ~(entries["expireban"][c] > 0))
    BY <1>2, <1>11
  <2>2. "expireban" \notin dangling'
    BY <1>2, <2>1, BansFacts DEF IInv
  <2>3. ASSUME NEW d \in Chans PROVE Bans(entries'["expireban"][d], chan'[d])
    <3>1. CASE d = c
      BY <1>7, <2>1, <3>1, BansFacts DEF Bans
    <3>2. CASE d # c
      BY <1>6, <1>7, <2>1, <3>2, BansFacts DEF IInv
    <3> QED BY <3>1, <3>2
  <2> QED BY <2>2, <2>3
<1> QED BY <1>9, <1>10, <1>11 DEF IInv

LEMMA ForbidKeeps ==
  ASSUME IInv, NEW c \in Chans, Forbid(c)
  PROVE  IInv'
<1>1. PICK found \in BOOLEAN :
        \E ch \in {IF found THEN Unwatched(chan[c]) ELSE chan[c]} :
          \/ /\ Becomes(c, IF ch = NoChan THEN NoChan ELSE RemoveUsers(ch, Users \ Gods))
             /\ row' = IF found THEN [row EXCEPT ![c] = None] ELSE row
             /\ forbidden' = forbidden \cup {c}
          \/ /\ Becomes(c, ch)
             /\ UNCHANGED <<row, forbidden>>
  BY DEF Forbid
<1> DEFINE ch == IF found THEN Unwatched(chan[c]) ELSE chan[c]
           left == IF ch = NoChan THEN NoChan ELSE RemoveUsers(ch, Users \ Gods)
<1>2. PICK new \in {left, ch} :
        /\ Becomes(c, new)
        /\ row' \in {row, [row EXCEPT ![c] = None]}
        /\ forbidden' \in {forbidden, forbidden \cup {c}}
  BY <1>1
<1>3. UNCHANGED <<loaded, stale_hook, orphaned, aborted>>
  BY DEF Forbid
<1>4. chan[c] \in Channel \cup {NoChan} /\ Good(chan[c], row[c], c \in unread)
  BY DEF IInv, TypeOK
<1>5. /\ ch \in Channel \cup {NoChan}
      /\ Good(ch, row[c], c \in unread)
      /\ ch # NoChan => chan[c] # NoChan /\ ch.reg = chan[c].reg
  BY <1>4, UnwatchedGood
<1> HIDE DEF ch
<1>6. /\ left \in Channel \cup {NoChan}
      /\ Good(left, row[c], c \in unread)
      /\ left # NoChan => chan[c] # NoChan /\ left.reg = chan[c].reg
  BY <1>5, RemoveUsersGood
<1> HIDE DEF left
<1>7. /\ new \in Channel \cup {NoChan}
      /\ Good(new, row[c], c \in unread)
      /\ new # NoChan => chan[c] # NoChan /\ new.reg = chan[c].reg
  BY <1>5, <1>6
<1>8. /\ Others' /\ orphaned' = orphaned
      /\ row'[c] \in {row[c], None}
      /\ \A d \in Chans \ {c} : row'[d] = row[d]
  BY <1>2, <1>3 DEF Others, IInv, TypeOK
<1>9. Good(new, row'[c], c \in unread)
  BY <1>7, <1>8 DEF Good
<1>10. ~orphaned => entries["expireban"][c] <= 1 /\ Bans(entries["expireban"][c], new)
  BY <1>7, BansFacts DEF Bans
<1>11. Become([chan EXCEPT ![c] = new], entries)
  BY <1>2 DEF Becomes
<1> QED BY <1>7, <1>8, <1>9, <1>10, <1>11, BansFacts, BecomesKeeps

LEMMA UnforbidKeeps ==
  ASSUME IInv, NEW c \in Chans, Unforbid(c)
  PROVE  IInv'
BY DEF Unforbid, IInv, TypeOK, Live

-----------------------------------------------------------------------------
(* SET.                                                                    *)

\* What m_set_flag leaves of the channel and its row: both have the flags set,
\* and no other flag changed.
LEMMA SettingGood ==
  ASSUME IInv, NEW c \in Chans, NEW flag \in Flags, NEW value, NEW set \in SUBSET Flags, NEW new,
         Setting(c, flag, value, set, new)
  PROVE  /\ new \in Channel \cup {NoChan}
         /\ new # NoChan <=> Live(c)
         /\ Good(new, row'[c], c \in unread)
         /\ Live(c) => /\ new.reg = set /\ new.fs = chan[c].fs /\ new.members = chan[c].members
                       /\ chan[c].reg \in SUBSET Flags
                       /\ \A f \in Flags \ {flag} : f \in set <=> f \in chan[c].reg
         /\ Others' /\ orphaned' = orphaned
         /\ \A d \in Chans \ {c} : row'[d] = row[d]
<1>1. /\ Registered(c)
      /\ UNCHANGED <<forbidden, loaded, stale_hook, orphaned, aborted>>
      /\ row' = IF row[c] = None THEN row ELSE [row EXCEPT ![c] = set]
      /\ new = IF Live(c) THEN [chan[c] EXCEPT !.reg = set] ELSE NoChan
  BY DEF Setting, SetFlag
<1>2. Others' /\ orphaned' = orphaned /\ \A d \in Chans \ {c} : row'[d] = row[d]
  BY <1>1 DEF Others, IInv, TypeOK
<1>3. CASE ~Live(c)
  BY <1>1, <1>2, <1>3 DEF Good
<1>4. CASE Live(c)
  <2>1. chan[c] \in Channel /\ Good(chan[c], row[c], c \in unread)
    BY <1>4, LiveGood
  <2>2. chan[c].reg \in SUBSET Flags
    BY <1>1, <1>4, <2>1 DEF Registered, Channel
  <2>3. /\ new \in Channel /\ new.reg = set /\ new.fs = chan[c].fs
        /\ new.members = chan[c].members /\ new.flood = chan[c].flood
    BY <1>1, <1>4, <2>1 DEF Channel
  <2>4. new # NoChan /\ set # None
    BY <2>3, ChannelAssumption
  <2>5. \A f \in Flags \ {flag} : f \in set <=> f \in chan[c].reg
    <3>1. set = chan[c].reg \cup {flag} \/ set = chan[c].reg \ {flag} \/ set = chan[c].reg
      BY <1>4 DEF Setting, SetFlag
    <3> QED BY <3>1
  <2>6. row'[c] # None => row'[c] = set
    BY <1>1 DEF IInv, TypeOK
  <2>7. chan[c] # NoChan
    BY <1>4 DEF Live
  <2>8. Good(new, row'[c], c \in unread)
    BY <2>1, <2>3, <2>4, <2>6, <2>7 DEF Good
  <2> QED BY <1>2, <1>4, <2>2, <2>3, <2>4, <2>5, <2>8
<1> QED BY <1>3, <1>4

LEMMA SetAutolimitKeeps ==
  ASSUME IInv, NEW c \in Chans, NEW value, SetAutolimit(c, value)
  PROVE  IInv'
<1>1. PICK set \in SUBSET Flags, new \in News(c) :
        /\ Setting(c, "autolimit", value, set, new)
        /\ Become([chan EXCEPT ![c] = new],
                  IF ~Live(c) THEN entries
                  ELSE IF "autolimit" \in set THEN [entries EXCEPT !["limit"][c] = @ + 1]
                  ELSE Unlist("limit", c))
  BY DEF SetAutolimit
<1> DEFINE more == [entries EXCEPT !["limit"][c] = @ + 1]
           e == IF ~Live(c) THEN entries
                ELSE IF "autolimit" \in set THEN more ELSE Unlist("limit", c)
<1>2. "autolimit" \in Flags /\ "expirebans" \in Flags /\ "expirebans" # "autolimit"
  BY DEF Flags
<1>3. /\ new \in Channel \cup {NoChan} /\ (new # NoChan <=> Live(c))
      /\ Good(new, row'[c], c \in unread)
      /\ Live(c) => new.reg = set /\ ("expirebans" \in set <=> "expirebans" \in chan[c].reg)
      /\ Others' /\ orphaned' = orphaned /\ \A d \in Chans \ {c} : row'[d] = row[d]
  <2>1. Setting(c, "autolimit", value, set, new)
    BY <1>1
  <2> HIDE DEF more, e
  <2> QED BY <1>2, <2>1, SettingGood, SMTT(30)
<1>4. /\ more \in Counts
      /\ \A l \in Lists, d \in Chans \ {c} : more[l][d] = entries[l][d]
      /\ more["expireban"] = entries["expireban"]
  BY BansFacts DEF Counts, Lists
<1>5. /\ e \in Counts
      /\ \A l \in Lists, d \in Chans \ {c} : e[l][d] = entries[l][d]
      /\ e["expireban"][c] = entries["expireban"][c]
      /\ ~Live(c) => e = entries
  BY <1>4, BansFacts, UnlistFacts DEF Lists
<1> HIDE DEF more, e
<1>6. ~orphaned => e["expireban"][c] <= 1 /\ Bans(e["expireban"][c], new)
  <2>1. set # None
    BY ChannelAssumption
  <2> QED BY <1>3, <1>5, <2>1, BansFacts DEF Bans
<1>7. \A l \in Lists : e[l][c] > 0 => Live(c) \/ new # NoChan
  BY <1>5, BansFacts
<1>8. Become([chan EXCEPT ![c] = new], e)
  BY <1>1 DEF e, more
<1> QED BY <1>3, <1>5, <1>6, <1>7, <1>8, BecomesKeeps

LEMMA SetMlockKeeps ==
  ASSUME IInv, NEW c \in Chans, SetMlockNoLimit(c)
  PROVE  IInv'
<1>1. PICK set \in SUBSET Flags, new \in News(c) :
        /\ Setting(c, "autolimit", "OFF", set, new)
        /\ Become([chan EXCEPT ![c] = new], entries)
  BY DEF SetMlockNoLimit
<1>2. "autolimit" \in Flags /\ "expirebans" \in Flags /\ "expirebans" # "autolimit"
  BY DEF Flags
<1>3. /\ new \in Channel \cup {NoChan} /\ (new # NoChan <=> Live(c))
      /\ Good(new, row'[c], c \in unread)
      /\ Live(c) => new.reg = set /\ ("expirebans" \in set <=> "expirebans" \in chan[c].reg)
      /\ Others' /\ orphaned' = orphaned /\ \A d \in Chans \ {c} : row'[d] = row[d]
  BY <1>1, <1>2, SettingGood
<1>4. ~orphaned => entries["expireban"][c] <= 1 /\ Bans(entries["expireban"][c], new)
  <2>1. set # None
    BY ChannelAssumption
  <2> QED BY <1>3, <2>1, BansFacts DEF Bans
<1> QED BY <1>1, <1>3, <1>4, BansFacts, BecomesKeeps

LEMMA SetExpirebansKeeps ==
  ASSUME IInv, NEW c \in Chans, NEW value, SetExpirebans(c, value)
  PROVE  IInv'
<1>1. PICK set \in SUBSET Flags, new \in News(c) :
        LET was == Live(c) /\ "expirebans" \in chan[c].reg
            is  == "expirebans" \in set
        IN
        /\ Setting(c, "expirebans", value, set, new)
        /\ Become([chan EXCEPT ![c] = new],
                  IF ~Live(c) THEN entries
                  ELSE IF ~was /\ is THEN [entries EXCEPT !["expireban"][c] = @ + 1]
                  ELSE IF was /\ ~is THEN Unlist("expireban", c)
                  ELSE entries)
  BY DEF SetExpirebans
<1> DEFINE was == Live(c) /\ "expirebans" \in chan[c].reg
           is  == "expirebans" \in set
           more == [entries EXCEPT !["expireban"][c] = @ + 1]
           e == IF ~Live(c) THEN entries
                ELSE IF ~was /\ is THEN more
                ELSE IF was /\ ~is THEN Unlist("expireban", c)
                ELSE entries
<1>2. "expirebans" \in Flags
  BY DEF Flags
<1>3. /\ new \in Channel \cup {NoChan} /\ (new # NoChan <=> Live(c))
      /\ Good(new, row'[c], c \in unread)
      /\ Live(c) => new.reg = set
      /\ Others' /\ orphaned' = orphaned /\ \A d \in Chans \ {c} : row'[d] = row[d]
  BY <1>1, <1>2, SettingGood
<1>4. /\ more \in Counts
      /\ \A l \in Lists, d \in Chans \ {c} : more[l][d] = entries[l][d]
      /\ more["expireban"][c] = entries["expireban"][c] + 1
  BY BansFacts DEF Counts, Lists
<1>5. /\ e \in Counts
      /\ \A l \in Lists, d \in Chans \ {c} : e[l][d] = entries[l][d]
      /\ ~Live(c) => e = entries
  BY <1>4, BansFacts, UnlistFacts DEF Lists
<1>6. ~orphaned => e["expireban"][c] <= 1 /\ Bans(e["expireban"][c], new)
  <2> SUFFICES ASSUME ~orphaned
               PROVE  e["expireban"][c] <= 1 /\ Bans(e["expireban"][c], new)
    OBVIOUS
  <2>1. set # None
    BY ChannelAssumption
  <2>2. CASE ~Live(c)
    BY <1>3, <2>2, BansFacts DEF Bans
  <2>3. CASE Live(c) /\ ~was /\ is
    <3>1. entries["expireban"][c] = 0
      BY <2>3, BansFacts
    <3> QED BY <1>3, <1>4, <2>1, <2>3, <3>1 DEF Bans
  <2>4. CASE Live(c) /\ was /\ ~is
    <3>1. Unlist("expireban", c)["expireban"][c] = 0
      BY BansFacts, UnlistFacts
    <3> QED BY <2>4, <3>1 DEF Bans
  <2>5. CASE Live(c) /\ (was <=> is)
    <3>1. e = entries
      BY <2>5
    <3> HIDE DEF e
    <3> QED BY <1>3, <2>1, <2>5, <3>1, BansFacts DEF Bans
  <2> QED BY <2>2, <2>3, <2>4, <2>5
<1>7. Become([chan EXCEPT ![c] = new], e)
  BY <1>1
<1> HIDE DEF more, e, was, is
<1>8. \A l \in Lists : e[l][c] > 0 => Live(c) \/ new # NoChan
  BY <1>5, BansFacts
<1> QED BY <1>3, <1>5, <1>6, <1>7, <1>8, BecomesKeeps

LEMMA SetFloodservKeeps ==
  ASSUME IInv, NEW c \in Chans, NEW value, SetFloodserv(c, value)
  PROVE  IInv'
<1>1. PICK set \in SUBSET Flags, new \in News(c) :
        /\ Setting(c, "floodserv", value, set, new)
        /\ IF Live(c) /\ loaded /\ "floodserv" \in set
             THEN \E e \in FloodJoin(c, set) :
                    Become([chan EXCEPT ![c] = [new EXCEPT !.fs = @ + 1]], e)
             ELSE Become([chan EXCEPT ![c] =
                            IF Live(c) /\ loaded /\ new.fs > 0 THEN PartFlood(new) ELSE new], entries)
  BY DEF SetFloodserv
<1>2. "floodserv" \in Flags /\ "expirebans" \in Flags /\ "expirebans" # "floodserv"
  BY DEF Flags
<1>3. /\ new \in Channel \cup {NoChan} /\ (new # NoChan <=> Live(c))
      /\ Good(new, row'[c], c \in unread)
      /\ Live(c) => new.reg = set /\ ("expirebans" \in set <=> "expirebans" \in chan[c].reg)
      /\ Others' /\ orphaned' = orphaned /\ \A d \in Chans \ {c} : row'[d] = row[d]
  <2>1. Setting(c, "floodserv", value, set, new)
    BY <1>1
  <2>2. "expirebans" \in Flags \ {"floodserv"}
    BY <1>2
  <2>3. /\ new \in Channel \cup {NoChan}
        /\ new # NoChan <=> Live(c)
        /\ Good(new, row'[c], c \in unread)
        /\ Live(c) => new.reg = set /\ \A f \in Flags \ {"floodserv"} : f \in set <=> f \in chan[c].reg
        /\ Others' /\ orphaned' = orphaned /\ \A d \in Chans \ {c} : row'[d] = row[d]
    BY <1>2, <2>1, SettingGood
  <2> QED BY <2>2, <2>3
<1>4. set # None
  BY ChannelAssumption
<1>5. ~orphaned => entries["expireban"][c] <= 1 /\ Bans(entries["expireban"][c], new)
  BY <1>3, <1>4, BansFacts DEF Bans
<1>6. CASE Live(c) /\ loaded /\ "floodserv" \in set
  <2> DEFINE more == [new EXCEPT !.fs = @ + 1]
  <2>1. PICK e \in {entries, Listed(c, set)} : Become([chan EXCEPT ![c] = more], e)
    BY <1>1, <1>6 DEF FloodJoin
  <2>2. new \in Channel /\ new # NoChan
    BY <1>3, <1>6
  <2>3. /\ more \in Channel /\ more.reg = set /\ more.fs > 0
        /\ more.members = new.members /\ more.flood = new.flood
    BY <1>3, <1>6, <2>2 DEF Channel
  <2> HIDE DEF more
  <2>4. Good(more, row'[c], c \in unread)
    BY <1>3, <1>6, <2>2, <2>3 DEF Good
  <2>5. /\ e \in Counts
        /\ \A l \in Lists, d \in Chans \ {c} : e[l][d] = entries[l][d]
        /\ \/ e["expireban"][c] = entries["expireban"][c]
           \/ e["expireban"][c] = 1 /\ "expirebans" \in set
    BY <2>1, BansFacts, ListedFacts
  <2>6. ~orphaned => e["expireban"][c] <= 1 /\ Bans(e["expireban"][c], more)
    BY <1>3, <1>4, <1>5, <1>6, <2>2, <2>3, <2>5 DEF Bans
  <2>7. \A l \in Lists : e[l][c] > 0 => Live(c) \/ more # NoChan
    BY <1>6
  <2>8. orphaned' = orphaned /\ Others' /\ \A d \in Chans \ {c} : row'[d] = row[d]
    BY <1>3
  <2>9. more \in Channel \cup {NoChan} /\ e \in Counts
    BY <2>3, <2>5
  <2>10. Become([chan EXCEPT ![c] = more], e)
    BY <2>1
  <2> QED BY <2>4, <2>5, <2>6, <2>7, <2>8, <2>9, <2>10, BecomesKeeps
<1>7. CASE ~(Live(c) /\ loaded /\ "floodserv" \in set)
  <2> DEFINE part == Live(c) /\ loaded /\ new.fs > 0
             ch   == IF part THEN PartFlood(new) ELSE new
  <2>1. Become([chan EXCEPT ![c] = ch], entries)
    BY <1>1, <1>7
  <2>2. /\ ch \in Channel \cup {NoChan}
        /\ Good(ch, row'[c], c \in unread)
        /\ ch # NoChan => new # NoChan /\ ch.reg = new.reg
    <3>1. CASE part
      <4>1. new \in Channel /\ new # NoChan /\ new.fs > 0 /\ Good(new, row'[c], c \in unread)
        BY <1>3, <3>1
      <4>2. /\ PartFlood(new) \in Channel \cup {NoChan}
            /\ Good(PartFlood(new), row'[c], c \in unread)
            /\ PartFlood(new) # NoChan => PartFlood(new).reg = new.reg
        BY <4>1, PartFloodGood
      <4>3. ch = PartFlood(new)
        BY <3>1
      <4> HIDE DEF ch
      <4> QED BY <4>1, <4>2, <4>3
    <3>2. CASE ~part
      BY <1>3, <3>2
    <3> QED BY <3>1, <3>2
  <2> HIDE DEF ch, part
  <2>3. ~orphaned => entries["expireban"][c] <= 1 /\ Bans(entries["expireban"][c], ch)
    BY <1>5, <2>2 DEF Bans
  <2>4. /\ entries \in Counts
        /\ \A l \in Lists : entries[l][c] > 0 => Live(c)
    BY BansFacts
  <2> QED BY <1>3, <2>1, <2>2, <2>3, <2>4, BecomesKeeps
<1> QED BY <1>6, <1>7

-----------------------------------------------------------------------------
(* The module FloodServ is loaded.                                         *)

LEMMA LoadKeeps ==
  ASSUME IInv, Load
  PROVE  IInv'
<1>1. PICK failed \in IF DbErrors THEN SUBSET Chans ELSE {{}} :
        LET known(c) == IF ~Live(c) THEN {} ELSE IF chan[c].reg # None THEN chan[c].reg
                        ELSE IF row[c] # None /\ c \notin failed THEN row[c] ELSE {}
            wants == {c \in Chans : "floodserv" \in known(c)}
        IN
        \E joins \in [wants -> UNION {FloodJoin(c, chan[c].reg) : c \in wants}] :
          /\ \A c \in wants : joins[c] \in FloodJoin(c, chan[c].reg)
          /\ Become([c \in Chans |-> IF c \in wants
                                       THEN [chan[c] EXCEPT !.fs = 1, !.flood = chan[c].reg # None]
                                       ELSE chan[c]],
                    [l \in Lists |-> [c \in Chans |->
                       IF c \in wants THEN joins[c][l][c] ELSE entries[l][c]]])
  BY DEF Load
<1> DEFINE known(c) == IF ~Live(c) THEN {} ELSE IF chan[c].reg # None THEN chan[c].reg
                       ELSE IF row[c] # None /\ c \notin failed THEN row[c] ELSE {}
           wants == {c \in Chans : "floodserv" \in known(c)}
           watched(c) == [chan[c] EXCEPT !.fs = 1, !.flood = chan[c].reg # None]
           new == [c \in Chans |-> IF c \in wants THEN watched(c) ELSE chan[c]]
<1>2. PICK joins \in [wants -> UNION {FloodJoin(c, chan[c].reg) : c \in wants}] :
        /\ \A c \in wants : joins[c] \in FloodJoin(c, chan[c].reg)
        /\ Become(new, [l \in Lists |-> [c \in Chans |->
                          IF c \in wants THEN joins[c][l][c] ELSE entries[l][c]]])
  BY <1>1
<1> DEFINE e == [l \in Lists |-> [c \in Chans |->
                   IF c \in wants THEN joins[c][l][c] ELSE entries[l][c]]]
<1>3. \A c \in wants : Live(c)
  OBVIOUS
<1> HIDE DEF wants
<1>4. wants \subseteq Chans
  BY DEF wants
<1>5. ASSUME NEW c \in wants
      PROVE  /\ watched(c) \in Channel
             /\ watched(c).reg = chan[c].reg
             /\ Good(watched(c), row[c], c \in unread)
             /\ chan[c] \in Channel
  <2>1. chan[c] \in Channel /\ Good(chan[c], row[c], c \in unread)
    BY <1>3, <1>4, LiveGood
  <2> DEFINE one == [chan[c] EXCEPT !.fs = 1]
             b   == chan[c].reg # None
  <2>2. one \in Channel /\ one.reg = chan[c].reg /\ one.fs = 1
    BY <2>1 DEF Channel
  <2>3. watched(c) = [one EXCEPT !.flood = b]
    OBVIOUS
  <2>4. b \in BOOLEAN
    OBVIOUS
  <2>5. b <=> chan[c].reg # None
    OBVIOUS
  <2> HIDE DEF one, watched, b
  <2>6. /\ watched(c) \in Channel /\ watched(c).reg = one.reg
        /\ watched(c).fs = one.fs /\ watched(c).flood = b
    BY <2>2, <2>3, <2>4 DEF Channel
  <2>7. watched(c).fs > 0
    BY <2>2, <2>6
  <2>8. chan[c] # NoChan
    BY <1>3 DEF Live
  <2> QED BY <2>1, <2>2, <2>5, <2>6, <2>7, <2>8 DEF Good
<1> HIDE DEF watched
<1>6. ASSUME NEW c \in wants
      PROVE  /\ joins[c] \in Counts
             /\ ~orphaned => joins[c]["expireban"][c] <= 1
                             /\ Bans(joins[c]["expireban"][c], watched(c))
  <2>1. watched(c) \in Channel /\ chan[c].reg = watched(c).reg
    BY <1>5
  <2>2. joins[c] \in {entries, Listed(c, watched(c).reg)}
    BY <1>2, <2>1 DEF FloodJoin
  <2>3. c \in Chans
    BY <1>4
  <2> HIDE <1>1, <1>2
  <2> QED BY <2>1, <2>2, <2>3, ListedBans
<1>7. new \in [Chans -> Channel \cup {NoChan}]
  BY <1>5 DEF IInv, TypeOK
<1>8. e \in Counts
  BY <1>4, <1>6, BansFacts DEF Counts
<1>9. row' = row /\ Others' /\ orphaned' = orphaned
  BY DEF Load, IInv, TypeOK, Others
<1>10. ASSUME NEW c \in Chans PROVE Good(new[c], row'[c], c \in unread)
  <2>1. CASE c \in wants
    BY <1>5, <1>9, <2>1
  <2>2. CASE c \notin wants
    BY <1>9, <2>2 DEF IInv
  <2> QED BY <2>1, <2>2
<1>11. ASSUME NEW l \in Lists, NEW c \in Chans, e[l][c] > 0
       PROVE  Live(c) \/ new[c] # NoChan
  <2>1. CASE c \in wants
    BY <1>3, <2>1
  <2>2. CASE c \notin wants
    BY <1>11, <2>2, BansFacts
  <2> QED BY <2>1, <2>2
<1>12. ASSUME ~orphaned, NEW c \in Chans
       PROVE  e["expireban"][c] <= 1 /\ Bans(e["expireban"][c], new[c])
  <2>1. "expireban" \in Lists
    BY DEF Lists
  <2>2. CASE c \in wants
    <3>1. e["expireban"][c] = joins[c]["expireban"][c] /\ new[c] = watched(c)
      BY <2>1, <2>2
    <3> QED BY <1>6, <1>12, <2>2, <3>1
  <2>3. CASE c \notin wants
    <3>1. e["expireban"][c] = entries["expireban"][c] /\ new[c] = chan[c]
      BY <2>1, <2>3
    <3> QED BY <1>12, <3>1, BansFacts DEF Bans, Live
  <2> QED BY <2>2, <2>3
<1>13. Become(new, e)
  BY <1>2
<1> HIDE DEF new, e
<1> QED BY <1>7, <1>8, <1>9, <1>10, <1>11, <1>12, <1>13, BecomeKeeps

-----------------------------------------------------------------------------
(* The invariant.                                                          *)

LEMMA InitIInv ==
  ASSUME Init
  PROVE  IInv
<1>1. TypeOK
  <2>1. \A l \in Lists, c \in Chans : entries[l][c] = 0
    BY DEF Init
  <2>2. entries \in [Lists -> [Chans -> Nat]]
    BY DEF Init
  <2>3. chan \in [Chans -> Channel \cup {NoChan}] /\ row \in [Chans -> (SUBSET Flags) \cup {None}]
    BY DEF Init
  <2>4. /\ forbidden = {} /\ dangling = {} /\ unread = {}
        /\ loaded = TRUE /\ stale_hook = FALSE /\ orphaned = FALSE /\ aborted = FALSE
    BY DEF Init
  <2>5. \A l \in Lists, c \in Chans : entries[l][c] > 0 => Live(c)
    BY <2>1
  <2> QED BY <2>2, <2>3, <2>4, <2>5 DEF TypeOK
<1>2. \A c \in Chans : chan[c] = NoChan
  BY DEF Init
<1>3. dangling = {}
  BY DEF Init
<1> QED BY <1>1, <1>2, <1>3 DEF IInv, Good, Bans

LEMMA NetworkKeeps ==
  ASSUME IInv, Network
  PROVE  IInv'
<1>1. ASSUME NEW c \in Chans, SJoin(c) PROVE IInv'
  <2>1. PICK us \in SUBSET Users : \E bad \in SUBSET us :
          \/ \E lost \in BOOLEAN : SJoinNew(c, us, bad, lost)
          \/ us # {} /\ SJoinMore(c, us, bad)
    BY <1>1 DEF SJoin
  <2>2. PICK bad \in SUBSET us :
          \/ \E lost \in BOOLEAN : SJoinNew(c, us, bad, lost)
          \/ us # {} /\ SJoinMore(c, us, bad)
    BY <2>1
  <2>3. CASE \E lost \in BOOLEAN : SJoinNew(c, us, bad, lost)
    BY <2>3, SJoinNewKeeps
  <2>4. CASE SJoinMore(c, us, bad)
    BY <2>4, JoinKeeps DEF SJoinMore
  <2> QED BY <2>2, <2>3, <2>4
<1>2. ASSUME NEW c \in Chans, NEW u \in Users, JoinMessage(u, c) PROVE IInv'
  BY <1>2, JoinKeeps DEF JoinMessage
<1>3. ASSUME NEW c \in Chans, NEW u \in Users, KickMessage(u, c) PROVE IInv'
  BY <1>3, KicksKeep DEF KickMessage
<1> QED BY <1>1, <1>2, <1>3, PartKeeps, KickFloodKeeps, QuitKeeps DEF Network

LEMMA CommandsKeep ==
  ASSUME IInv, Commands
  PROVE  IInv'
<1>1. ASSUME NEW c \in Chans, NEW us \in SUBSET Users, AkickEnforce(c, us) PROVE IInv'
  BY <1>1, KicksKeep, AbortKeeps DEF AkickEnforce
<1>2. ASSUME NEW c \in Chans, ClearUsers(c) PROVE IInv'
  BY <1>2, KicksKeep DEF ClearUsers
<1>3. ASSUME NEW c \in Chans, DropStaleHook(c) \/ AttachCrash(c) PROVE IInv'
  BY <1>3, AbortKeeps DEF DropStaleHook, AttachCrash
<1>4. PICK c \in Chans :
        \/ \E u \in Users : Register(u, c)
        \/ \E us \in SUBSET Users : AkickEnforce(c, us)
        \/ \E value \in Values :
             SetAutolimit(c, value) \/ SetExpirebans(c, value) \/ SetFloodserv(c, value)
        \/ SetMlockNoLimit(c) \/ ClearUsers(c)
        \/ Drop(c) \/ NickDrop(c) \/ Forbid(c) \/ Unforbid(c)
        \/ DropStaleHook(c) \/ AttachCrash(c)
  BY DEF Commands
<1>5. CASE \E u \in Users : Register(u, c)
  BY <1>5, RegisterKeeps
<1>6. CASE \E value \in Values :
             SetAutolimit(c, value) \/ SetExpirebans(c, value) \/ SetFloodserv(c, value)
  BY <1>6, SetAutolimitKeeps, SetExpirebansKeeps, SetFloodservKeeps
<1>7. CASE SetMlockNoLimit(c)
  BY <1>7, SetMlockKeeps
<1>8. CASE Drop(c) \/ NickDrop(c) \/ Forbid(c) \/ Unforbid(c)
  BY <1>8, DropKeeps, NickDropKeeps, ForbidKeeps, UnforbidKeeps
<1> QED BY <1>1, <1>2, <1>3, <1>4, <1>5, <1>6, <1>7, <1>8

LEMMA NextKeeps ==
  ASSUME IInv, [Next]_vars
  PROVE  IInv'
<1>1. CASE Timers
  BY <1>1, CleanupKeeps, AbortKeeps DEF Timers, ProcessLimitList, ProcessExpirebanList
<1>2. CASE UNCHANGED vars
  BY <1>2 DEF vars, IInv, TypeOK, Live
<1> QED BY <1>1, <1>2, NetworkKeeps, CommandsKeep, UnloadKeeps, LoadKeeps DEF Next

LEMMA Invariant == Spec => []IInv
<1>1. Init => IInv
  BY InitIInv
<1>2. IInv /\ [Next]_vars => IInv'
  BY NextKeeps
<1> QED BY <1>1, <1>2, PTL DEF Spec

\* Every variable has its type, and a channel that is destroyed leaves the
\* lists (cs_on_channel_destroy).
THEOREM TypeCorrect == Spec => []TypeOK
<1>1. IInv => TypeOK
  BY DEF IInv
<1> QED BY <1>1, Invariant, PTL

\* No handler leaves a channel without members behind.
THEOREM NoEmpty == Spec => []NoEmptyChannel
<1>1. IInv => NoEmptyChannel
  BY DEF IInv, Good, NoEmptyChannel, Live
<1> QED BY <1>1, Invariant, PTL

\* FloodServ's tables go with FloodServ and with the registration.
THEOREM TablesOwned == Spec => []FloodTablesOwned
<1>1. IInv => FloodTablesOwned
  BY DEF IInv, Good, FloodTablesOwned, Live
<1> QED BY <1>1, Invariant, PTL

\* A live channel with a row has its registration, unless a query failed.
THEOREM Attached == Spec => []RegisteredAttached
<1>1. IInv => RegisteredAttached
  BY DEF IInv, Good, RegisteredAttached, Live
<1> QED BY <1>1, Invariant, PTL

\* The attached registration never differs from the row.
THEOREM Current == Spec => []RegistrationCurrent
<1>1. IInv => RegistrationCurrent
  BY DEF IInv, Good, RegistrationCurrent, Live
<1> QED BY <1>1, Invariant, PTL

\* The registration of a live channel is there and is its row's.
THEOREM Kept == Spec => []RegistrationKept
BY Attached, Current, PTL DEF RegistrationKept

\* The timer of the bans meets live, registered channels only, each once, as
\* long as no nickname DROP detached one.
THEOREM BansSafe == Spec => []ExpirebansSafe
<1>1. IInv => ExpirebansSafe
  <2> SUFFICES ASSUME IInv, ~orphaned, NEW c \in Chans, entries["expireban"][c] > 0
               PROVE  /\ chan[c].reg # None
                      /\ "expirebans" \in chan[c].reg
                      /\ entries["expireban"][c] = 1
    BY DEF ExpirebansSafe, IInv
  <2>1. Live(c) /\ Bans(entries["expireban"][c], chan[c])
    BY BansFacts DEF IInv
  <2> QED BY <2>1 DEF Bans, Live
<1> QED BY <1>1, Invariant, PTL
=============================================================================
