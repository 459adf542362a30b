---------------------------- MODULE ChannelModes ----------------------------
(* The modes of one registered channel: as services believe them to be      *)
(* (chptr->mode), as the network has them, and as MLOCK wants them.  Mode   *)
(* changes of users and of services cross on the link: toCs and toNet are    *)
(* its two directions.  src/channel_mode.c, the mode lock of interface.c,    *)
(* and the handlers of modules/chanserv.c that change modes.                *)
(*                                                                          *)
(* A channel's modes are [mode, key, limit, ops, voices].  Simple modes are  *)
(* bits of an unsigned int in the code: enforce_mode_lock adds and          *)
(* subtracts them, so each has a Weight and the sum wraps.  A key or a limit *)
(* is a number, 0 when there is none; a lock wants one, or Off, or leaves it *)
(* Unsaid.                                                                  *)
EXTENDS Integers, FiniteSets, SequencesExt

CONSTANTS
  Simple,       \* letters of simple modes
  Weight,       \* [Simple -> powers of two]: a bit of its own for each
  Users,        \* members of the channel, as long as it lives
  Args,         \* keys and limits users set, positive
  Locks,        \* the locks that are set: [on, off, key, limit]
  Policies,     \* [level, leaveops, autoop, autovoice] of a joining user
  Room, Slack,  \* 15 and 5: a limit's distance from the members, its tolerance
  UserLetters,  \* the changes users make: [dir, c, arg]
  StartModes,   \* modes a channel starts with, or a joining server has
  MaxChanges,   \* bound on what users do, commands to services included
  MaxQueue,     \* bound on the messages in flight each way
  NoLock        \* the channel has no mlock

Unsaid == -1                  \* not mentioned (0 in key_pos, limit_pos)
Off == -2                     \* -k, -l       (-1 in key_pos, limit_pos)
NoModes == [mode |-> {}, key |-> 0, limit |-> 0, ops |-> {}, voices |-> {}]
\* Modes of a channel, letters with what they are about, and MODE messages.
Modes == [mode : SUBSET Simple, key : Nat, limit : Nat,
          ops : SUBSET Users, voices : SUBSET Users]
Letter == [dir : {"+", "-"}, c : Simple, arg : {0}]
          \cup [dir : {"+", "-"}, c : {"k", "l"}, arg : Nat]
          \cup [dir : {"+", "-"}, c : {"o", "v"}, arg : Users]
Message == [type : {"mode"}, ls : Seq(Letter)] \cup [type : {"part"}]
           \cup [type : {"sjoin"}, modes : Modes, who : Users, policy : Policies]
Lock == [on : SUBSET Simple, off : SUBSET Simple,
         key : Args \cup {Unsaid, Off}, limit : Args \cup {Unsaid, Off}]

VARIABLES
  netAlive,   \* the channel exists on the network
  alive,      \* services have a struct Channel for it, with its registration
  net,        \* the modes the network has
  view,       \* chptr->mode and the members' flags
  lock,       \* channel.mlock of the row
  cut,        \* the cached copy has lost what follows its first blank
  autolimit,  \* on channel_limit_list
  toNet,      \* services' MODE messages under way
  toCs,       \* the network's SJOIN, MODE and PART messages under way
  changes,    \* what the users have done
  \* history: what may set the two views apart
  raced,      \* a change of services' crossed one of the network's (Races, Halfway)
  carried,    \* SET MLOCK carried from one bit to another
  dropped,    \* -k or -l did not fit into off_string
  unlocked    \* services cannot know that the lock is broken (Crosses, Merge)

history == << raced, carried, dropped, unlocked >>
vars == << netAlive, alive, net, view, lock, cut, autolimit, toNet, toCs,
           changes, history >>

-----------------------------------------------------------------------------
(* Letters and their handlers. *)

\* get_modestring, get_mode_from_letter: letters and the bits they stand for.
Bits(S) == MapThenSumSet(LAMBDA c : Weight[c], S)
Letters(n) == {c \in Simple : (n \div Weight[c]) % 2 = 1}
Wrap == 2 ^ Cardinality(Simple)

Change(d, c, a) == [dir |-> d, c |-> c, arg |-> a]
Changes(d, S) == SetToSeq({Change(d, c, 0) : c \in S})
If(b, s) == IF b THEN s ELSE << >>

\* The handlers of the letters.  seen is simple_modes_mask: the second change
\* of a simple mode in a message is passed over.
ApplySimple(ch, l, seen) ==
  IF l.c \in seen THEN ch
  ELSE [ch EXCEPT !.mode = IF l.dir = "+" THEN @ \cup {l.c} ELSE @ \ {l.c}]
ApplyKey(ch, l)   == [ch EXCEPT !.key = IF l.dir = "+" THEN l.arg ELSE 0]
ApplyLimit(ch, l) == [ch EXCEPT !.limit = IF l.dir = "+" THEN l.arg ELSE 0]
ApplyOp(ch, l)    == [ch EXCEPT !.ops = IF l.dir = "+" THEN @ \cup {l.arg} ELSE @ \ {l.arg}]
ApplyVoice(ch, l) == [ch EXCEPT !.voices = IF l.dir = "+" THEN @ \cup {l.arg} ELSE @ \ {l.arg}]
\* ModeTable
Apply(ch, l, seen) ==
  CASE l.c \in Simple -> ApplySimple(ch, l, seen)
    [] l.c = "k" -> ApplyKey(ch, l)
    [] l.c = "l" -> ApplyLimit(ch, l)
    [] l.c = "o" -> ApplyOp(ch, l)
    [] l.c = "v" -> ApplyVoice(ch, l)
\* The letters of the first n changes.
Seen(ls, n) == {ls[i].c : i \in 1 .. n}
\* A whole MODE message, as the network's servers carry it out.
ApplyAll(ch, ls) ==
  LET after[n \in 0 .. Len(ls)] ==
        IF n = 0 THEN ch ELSE Apply(after[n - 1], ls[n], Seen(ls, n - 1))
  IN after[Len(ls)]

-----------------------------------------------------------------------------
(* The mode lock. *)

\* What enforce_mode_lock sends for the differences on and off.  off_string
\* takes "k" and "l" only up to sizeof(off_diff) - 1 = 3 letters; the cached
\* lock has no parameters after it was enforced once (cut).
FitsK(off) == Cardinality(off) < 3
FitsL(lk, off) == Cardinality(off) + (IF lk.key = Off THEN 1 ELSE 0) < 3
Sent(lk, on, off, noargs) ==
     Changes("-", off)
  \o If(lk.key = Off /\ FitsK(off), << Change("-", "k", 0) >>)
  \o If(lk.limit = Off /\ FitsL(lk, off), << Change("-", "l", 0) >>)
  \o Changes("+", on)
  \o If(lk.limit \in Args /\ ~noargs, << Change("+", "l", lk.limit) >>)
  \o If(lk.key \in Args /\ ~noargs, << Change("+", "k", lk.key) >>)
Drops(lk, off) == \/ lk.key = Off /\ ~FitsK(off)
                  \/ lk.limit = Off /\ ~FitsL(lk, off)

Locked(ch, lk, noargs) ==
  LET wanted(w, have) == IF w = Off THEN 0 ELSE IF w \in Args /\ ~noargs THEN w ELSE have
  IN [ch EXCEPT !.key = wanted(lk.key, @), !.limit = wanted(lk.limit, @)]

\* enforce_mode_lock with dst = NULL: only the differences are sent.
Enforced(ch, noargs) ==
  LET on  == lock.on \ ch.mode
      off == lock.off \cap ch.mode
  IN [ch   |-> [Locked(ch, lock, noargs) EXCEPT !.mode = (@ \ off) \cup on],
      msg  |-> Sent(lock, on, off, noargs),
      drop |-> Drops(lock, off)]

\* With dst: all of the lock is sent, subtracted and added.
Numbered(ch, lk) == (Bits(ch.mode) - Bits(lk.off) + Bits(lk.on)) % Wrap
EnforcedOnSet(ch, lk) == [Locked(ch, lk, FALSE) EXCEPT !.mode = Letters(Numbered(ch, lk))]
Stored(lk) ==
  [lk EXCEPT !.key   = IF @ = Off /\ ~FitsK(lk.off) THEN Unsaid ELSE @,
             !.limit = IF @ = Off /\ ~FitsL(lk, lk.off) THEN Unsaid ELSE @]

Post(q, ls) == q \o If(ls # << >>, << ls >>)

-----------------------------------------------------------------------------
(* Services: what they send of their own accord.  rest is what is still on  *)
(* its way from the network.                                                *)

Races(msgs, rest) == msgs # << >> /\ rest # << >>
\* A MODE of services' has no timestamp: it hits the channel that is, also one
\* that was made after it had been sent.
Crosses(msgs, rest) == msgs # << >> /\ \E i \in DOMAIN rest : rest[i].type = "sjoin"

\* A user's command: counted with the changes users make themselves.
Commanded == changes < MaxChanges /\ changes' = changes + 1

\* m_set_mlock: the modes are sent before the row is written.
SetMlock(lk, saved) ==
  /\ Commanded
  /\ lk.on \cap lk.off = {}
  /\ Len(toNet) < MaxQueue
  /\ lock' = IF saved THEN Stored(lk) ELSE lock
  /\ cut' = IF saved THEN FALSE ELSE cut
  /\ IF alive
     THEN LET msg == Sent(lk, lk.on, lk.off, FALSE)
          IN /\ view' = EnforcedOnSet(view, lk)
             /\ toNet' = Post(toNet, msg)
             /\ carried' = (carried \/ view'.mode # (view.mode \ lk.off) \cup lk.on)
             /\ raced' = (raced \/ Races(msg, toCs))
             /\ dropped' = (dropped \/ Drops(lk, lk.off))
             /\ unlocked' = (unlocked \/ Crosses(toNet', toCs) \/ (~saved /\ lock # NoLock))
     ELSE UNCHANGED << view, toNet, history >>
  /\ UNCHANGED << netAlive, alive, net, autolimit, toCs >>

\* SET MLOCK -
UnsetMlock ==
  /\ Commanded
  /\ lock # NoLock
  /\ lock' = NoLock
  /\ cut' = FALSE
  /\ UNCHANGED << netAlive, alive, net, view, autolimit, toNet, toCs, history >>

\* m_clear_modes: everything off, then the lock.
ClearModes ==
  /\ Commanded
  /\ alive
  /\ Len(toNet) < MaxQueue - 1
  /\ LET cleared == [view EXCEPT !.mode = {}, !.key = 0, !.limit = 0]
         minus == Changes("-", view.mode) \o If(view.key # 0, << Change("-", "k", 0) >>)
                  \o If(view.limit # 0, << Change("-", "l", 0) >>)
         again == IF lock = NoLock THEN [ch |-> cleared, msg |-> << >>, drop |-> FALSE]
                                   ELSE Enforced(cleared, cut)
     IN /\ view' = again.ch
        /\ toNet' = Post(Post(toNet, minus), again.msg)
        /\ raced' = (raced \/ Races(toNet' , toCs))
        /\ dropped' = (dropped \/ again.drop)
  /\ unlocked' = (unlocked \/ Crosses(toNet', toCs))
  /\ cut' = (cut \/ lock # NoLock)
  /\ UNCHANGED << netAlive, alive, net, lock, autolimit, toCs, carried >>

\* op_user, deop_user, voice_user, devoice_user: each is sent and noted.
SendFlags(d, c, us) ==
  /\ alive /\ us # {}
  /\ Commanded
  /\ Len(toNet) < MaxQueue
  /\ LET ls == SetToSeq({Change(d, c, u) : u \in us})
     IN /\ view' = ApplyAll(view, ls)
        /\ toNet' = Append(toNet, ls)
  /\ raced' = (raced \/ toCs # << >>)
  /\ unlocked' = (unlocked \/ Crosses(toNet', toCs))
  /\ UNCHANGED << netAlive, alive, net, lock, cut, autolimit, toCs, carried, dropped >>
Op(u)       == u \notin view.ops /\ SendFlags("+", "o", {u})
Deop(u)     == u \in view.ops /\ SendFlags("-", "o", {u})
Voice(u)    == u \notin view.voices /\ SendFlags("+", "v", {u})
Devoice(u)  == u \in view.voices /\ SendFlags("-", "v", {u})
ClearOps    == SendFlags("-", "o", view.ops)
ClearVoices == SendFlags("-", "v", view.voices)

\* m_set_autolimit, the join callback; SET MLOCK -l does not take it off.
SetAutolimit ==
  /\ Commanded
  /\ alive
  /\ autolimit' = ~autolimit
  /\ UNCHANGED << netAlive, alive, net, view, lock, cut, toNet, toCs, history >>

\* Mutant: set_limit does not note the limit it sends.
ProcessLimitListBlind(n) ==
  /\ alive /\ autolimit
  /\ Len(toNet) < MaxQueue
  /\ \/ view.limit < n + Room - Slack
     \/ view.limit > n + Room + Slack
  /\ toNet' = Append(toNet, << Change("+", "l", n + Room) >>)
  /\ raced' = (raced \/ toCs # << >>)
  /\ unlocked' = (unlocked \/ Crosses(toNet', toCs))
  /\ UNCHANGED << netAlive, alive, net, view, lock, cut, autolimit, toCs, changes,
                  carried, dropped >>
\* process_limit_list, with n members; set_limit does not ask the lock.
ProcessLimitList(n) ==
  /\ alive /\ autolimit
  /\ Len(toNet) < MaxQueue
  /\ \/ view.limit < n + Room - Slack
     \/ view.limit > n + Room + Slack
  /\ view' = [view EXCEPT !.limit = n + Room]
  /\ toNet' = Append(toNet, << Change("+", "l", n + Room) >>)
  /\ raced' = (raced \/ toCs # << >>)
  /\ unlocked' = (unlocked \/ Crosses(toNet', toCs))
  /\ UNCHANGED << netAlive, alive, net, lock, cut, autolimit, toCs, changes,
                  carried, dropped >>

-----------------------------------------------------------------------------
(* Services: what they receive. *)

\* Mutant: on_cmode_change_cb runs for modes that are set, not for those that go.
OneLetterPlus(acc, l, seen) ==
  LET ch == Apply(acc.ch, l, seen)
      en == IF lock = NoLock \/ l.dir = "-" THEN [ch |-> ch, msg |-> << >>, drop |-> FALSE]
                                            ELSE Enforced(ch, acc.cut)
  IN [ch |-> en.ch, out |-> Post(acc.out, en.msg),
      cut |-> acc.cut \/ lock # NoLock, drop |-> acc.drop \/ en.drop]
\* set_channel_mode: every letter runs its handler and then
\* on_cmode_change_cb, where cs_on_cmode_change enforces the lock.
OneLetter(acc, l, seen) ==
  LET ch == Apply(acc.ch, l, seen)
      en == IF lock = NoLock THEN [ch |-> ch, msg |-> << >>, drop |-> FALSE]
                             ELSE Enforced(ch, acc.cut)
  IN [ch |-> en.ch, out |-> Post(acc.out, en.msg),
      cut |-> acc.cut \/ lock # NoLock, drop |-> acc.drop \/ en.drop]
SetChannelMode(ls) ==
  LET after[n \in 0 .. Len(ls)] ==
        IF n = 0 THEN [ch |-> view, out |-> << >>, cut |-> cut, drop |-> FALSE]
                 ELSE OneLetter(after[n - 1], ls[n], Seen(ls, n - 1))
  IN after[Len(ls)]
\* The first letter sends the lock's key and limit, though a later letter of
\* the same message changes them.
Halfway(ls) ==
  /\ lock # NoLock /\ ~cut
  /\ \E i \in 2 .. Len(ls) :
       (ls[i].c = "k" /\ lock.key \in Args) \/ (ls[i].c = "l" /\ lock.limit \in Args)

\* cs_on_client_join: what a member's flags become.
OnJoin(ch, u, p) ==
  LET deop == ~p.leaveops /\ u \in ch.ops /\ p.level # "chanop"
      op   == u \notin ch.ops /\ p.level = "chanop" /\ p.autoop
      voice == ~op /\ u \notin ch.voices /\ p.level # "none" /\ p.autovoice
      ls == If(deop, << Change("-", "o", u) >>) \o If(op, << Change("+", "o", u) >>)
            \o If(voice, << Change("+", "v", u) >>)
  IN [ch |-> ApplyAll(ch, ls), out |-> ls]

\* m_sjoin.  chptr->mode is replaced whatever it was; the lock is enforced
\* (cs_on_channel_create) only when the channel is new.
RecvSjoin ==
  /\ toCs # << >> /\ Head(toCs).type = "sjoin"
  /\ Len(toNet) < MaxQueue - 1
  /\ LET m == Head(toCs)
         flags == [m.modes EXCEPT !.ops = view.ops \cup @, !.voices = view.voices \cup @]
         joined == IF alive THEN [ch |-> flags, out |-> << >>]
                   ELSE OnJoin(m.modes, m.who, m.policy)
         en == IF alive \/ lock = NoLock THEN [ch |-> joined.ch, msg |-> << >>, drop |-> FALSE]
               ELSE Enforced(joined.ch, FALSE)
     IN /\ view' = en.ch
        /\ toNet' = Post(Post(toNet, joined.out), en.msg)
        /\ cut' = IF alive THEN cut ELSE lock # NoLock
        /\ raced' = (raced \/ Races(toNet', Tail(toCs)))
        /\ dropped' = (dropped \/ en.drop)
  /\ alive' = TRUE
  /\ toCs' = Tail(toCs)
  /\ unlocked' = (unlocked \/ Crosses(toNet', Tail(toCs)))
  /\ UNCHANGED << netAlive, net, lock, autolimit, changes, carried >>

\* m_mode and m_tmode.
RecvMode ==
  /\ toCs # << >> /\ Head(toCs).type = "mode"
  /\ Len(toNet) < MaxQueue - 1
  /\ IF alive
     THEN LET r == SetChannelMode(Head(toCs).ls)
          IN /\ view' = r.ch
             /\ toNet' = toNet \o r.out
             /\ cut' = r.cut
             /\ raced' = (raced \/ Races(toNet', Tail(toCs)) \/ Halfway(Head(toCs).ls))
             /\ dropped' = (dropped \/ r.drop)
     ELSE UNCHANGED << view, toNet, cut, raced, dropped >>
  /\ toCs' = Tail(toCs)
  /\ unlocked' = (unlocked \/ Crosses(toNet', Tail(toCs)))
  /\ UNCHANGED << netAlive, alive, net, lock, autolimit, changes, carried >>

\* Mutant: m_delete_autolimit is not called for a channel that goes.
RecvPartListed ==
  /\ toCs # << >> /\ Head(toCs).type = "part"
  /\ alive' = FALSE
  /\ view' = NoModes
  /\ cut' = FALSE
  /\ toCs' = Tail(toCs)
  /\ UNCHANGED << netAlive, net, lock, autolimit, toNet, changes, history >>
\* The last member is gone: destroy_channel, and all the lists with it.
RecvPart ==
  /\ toCs # << >> /\ Head(toCs).type = "part"
  /\ alive' = FALSE
  /\ view' = NoModes
  /\ cut' = FALSE
  /\ autolimit' = FALSE
  /\ toCs' = Tail(toCs)
  /\ UNCHANGED << netAlive, net, lock, toNet, changes, history >>

-----------------------------------------------------------------------------
(* The network (not in src/): it carries out what it receives in order and  *)
(* tells services what users do.                                            *)

NetApply ==
  /\ toNet # << >>
  /\ net' = IF netAlive THEN ApplyAll(net, Head(toNet)) ELSE net
  /\ toNet' = Tail(toNet)
  /\ UNCHANGED << netAlive, alive, view, lock, cut, autolimit, toCs, changes, history >>

Acts(m) ==
  /\ Commanded
  /\ Len(toCs) < MaxQueue
  /\ toCs' = Append(toCs, m)
  /\ raced' = (raced \/ toNet # << >>)
  /\ UNCHANGED << alive, view, lock, cut, autolimit, toNet, carried, dropped >>

UserMode(ls) ==
  /\ netAlive
  /\ Acts([type |-> "mode", ls |-> ls])
  /\ net' = ApplyAll(net, ls)
  /\ UNCHANGED << netAlive, unlocked >>

\* The channel is made anew.
Create(u, S, p) ==
  /\ ~netAlive
  /\ LET modes == [NoModes EXCEPT !.mode = S, !.ops = {u}]
     IN /\ Acts([type |-> "sjoin", modes |-> modes, who |-> u, policy |-> p])
        /\ net' = modes
  /\ netAlive' = TRUE
  /\ unlocked' = (unlocked \/ Crosses(toNet, toCs'))

\* A server joins the network with modes of its own for the channel.
\* The channel gets both sides' modes, services take the SJOIN's for all.
Merge(u, S, p) ==
  /\ netAlive
  /\ LET modes == [NoModes EXCEPT !.mode = S]
     IN /\ Acts([type |-> "sjoin", modes |-> modes, who |-> u, policy |-> p])
        /\ net' = [net EXCEPT !.mode = @ \cup S]
  /\ unlocked' = TRUE
  /\ UNCHANGED netAlive

Leave ==
  /\ netAlive
  /\ Acts([type |-> "part"])
  /\ netAlive' = FALSE
  /\ net' = NoModes
  /\ UNCHANGED unlocked

-----------------------------------------------------------------------------

Init ==
  /\ netAlive = FALSE /\ alive = FALSE
  /\ net = NoModes /\ view = NoModes
  /\ lock = NoLock /\ cut = FALSE /\ autolimit = FALSE
  /\ toNet = << >> /\ toCs = << >> /\ changes = 0
  /\ raced = FALSE /\ carried = FALSE /\ dropped = FALSE /\ unlocked = FALSE

Services ==
  \/ \E lk \in Locks, saved \in BOOLEAN : SetMlock(lk, saved)
  \/ UnsetMlock
  \/ ClearModes
  \/ \E u \in Users : Op(u) \/ Deop(u) \/ Voice(u) \/ Devoice(u)
  \/ ClearOps \/ ClearVoices
  \/ SetAutolimit
  \/ \E n \in 1 .. Cardinality(Users) : ProcessLimitList(n)
Receive == RecvSjoin \/ RecvMode \/ RecvPart
Network ==
  \/ NetApply
  \/ \E ls \in UserLetters : UserMode(ls)
  \/ \E u \in Users, S \in StartModes, p \in Policies : Create(u, S, p) \/ Merge(u, S, p)
  \/ Leave
Next == Services \/ Receive \/ Network

Spec == Init /\ [][Next]_vars

-----------------------------------------------------------------------------
(* What should hold. *)

\* The variables' types; a channel that services do not have leaves no modes
\* and no autolimit entry behind, and a lock never wants a mode both ways.
TypeOK ==
  /\ {netAlive, alive, cut, autolimit} \cup {history[i] : i \in 1 .. 4} \subseteq BOOLEAN
  /\ {net, view} \subseteq Modes
  /\ lock \in Lock \cup {NoLock}
  /\ lock # NoLock => lock.on \cap lock.off = {}
  /\ ~alive => view = NoModes /\ ~autolimit /\ ~cut
  /\ changes \in 0 .. MaxChanges
  /\ toNet \in Seq(Seq(Letter))
  /\ toCs \in Seq(Message) /\ Len(toCs) <= MaxQueue

Quiet == toNet = << >> /\ toCs = << >> /\ netAlive

\* chanserv.en.lang promises that MLOCK keeps modes on or off: once nothing is
\* under way the channel on the network has the modes its lock wants, however
\* users' changes crossed services', whatever SET MLOCK did to the bits.  The
\* key must stay off as well, unless its -k did not fit.  Excluded is only what
\* services do not see (unlocked).
LockHolds ==
  Quiet /\ lock # NoLock /\ ~unlocked =>
    /\ lock.on \subseteq net.mode
    /\ lock.off \cap net.mode = {}
    /\ lock.key = Off /\ ~dropped => net.key = 0

\* chptr->mode and the members' flags are what the network has, unless changes
\* crossed, a bit was carried, a letter was lost or services could not know.
ViewAgrees ==
  Quiet /\ ~raced /\ ~carried /\ ~dropped /\ ~unlocked => view = net
=============================================================================
