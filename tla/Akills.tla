------------------------------- MODULE Akills -------------------------------
(* The AKILLs of OperServ: the table, the copy in akill_list_cache, the list *)
(* of users still to be checked and the K-lines of the network.  src/akill.c *)
(* and the AKILL part of modules/operserv.c, send_akill and remove_akill of  *)
(* src/interface.c, and FloodServ's automatic AKILLs.                        *)
(*                                                                          *)
(* Time is counted in minutes, the period of "Expire akills" and the least   *)
(* K-line.  Whom a mask matches is given (Victims).                          *)
EXTENDS Integers, FiniteSets, SequencesExt

CONSTANTS
  Users,
  AkillMasks,    \* user@host masks
  Victims,       \* [AkillMasks -> SUBSET Users]: whom a mask matches
  Tokens,        \* durations an operator writes: <<number, suffix>>
  Minutes,          \* [{"m", "h", "d"} -> Nat]: minutes of a suffix
  DefaultDur,    \* default_akill_duration
  FloodDur,      \* FS_KILL_DUR
  IntSize,       \* ints and int4 are -IntSize .. IntSize - 1
  CheckCnt,      \* OPERSERV_AKILL_CHECK_CNT
  Start, End     \* the clock

VARIABLES
  now,       \* CurrentTime
  row,       \* the table akill
  cache,     \* akill_list_cache
  delayed,   \* delay_akill_list, newest first
  known,     \* users services know of
  online,    \* users the network has
  kline,     \* when the network's K-line on a mask ends
  spared     \* history: users checked against an AKILL that had ended

vars == << now, row, cache, delayed, known, online, kline, spared >>

NoRow == [time |-> -1, dur |-> 0]
Akill == [time : Start .. End, dur : -IntSize .. IntSize - 1]
EmptyList == [m \in AkillMasks |-> NoRow]
Listed(list) == {m \in AkillMasks : list[m] # NoRow}
Covered(k) == UNION {Victims[m] : m \in {x \in AkillMasks : k[x] > now}}

Init ==
  /\ now = Start
  /\ row = EmptyList /\ cache = EmptyList
  /\ delayed = << >>
  /\ known = {} /\ online = {}
  /\ kline = [m \in AkillMasks |-> 0]
  /\ spared = {}

-----------------------------------------------------------------------------
(* The network.                                                              *)

\* The network puts K-lines in force and disconnects whom they match at once;
\* services hear of it later (Quit).
Place(k) == kline' = k /\ online' = online \ Covered(k)

\* send_akill: what is left of an AKILL, a minute at least; nothing for one
\* that has ended.  The K-line lasts that long, also for a permanent AKILL.
SendAkill(k, m, r) ==
  LET left == r.time + r.dur - now
  IN IF left < 0 THEN k ELSE [k EXCEPT ![m] = now + (IF left < 1 THEN 1 ELSE left)]

\* Mutant: os_on_newuser forgets the users that come while others wait.
OnNewUserMutant(u) ==
  delayed' = IF delayed = << >> THEN << u >> ELSE delayed

\* os_on_newuser
OnNewUser(u) == delayed' = << u >> \o delayed

Connect(u) ==
  /\ u \notin online \cup known \cup Covered(kline)
  /\ online' = online \cup {u} /\ known' = known \cup {u}
  /\ OnNewUser(u)
  /\ UNCHANGED << now, row, cache, kline, spared >>

\* exit_one_client takes the user off delay_akill_list.
Quit(u) ==
  /\ u \in known
  /\ known' = known \ {u} /\ online' = online \ {u}
  /\ delayed' = RemoveFirst(delayed, u)
  /\ spared' = spared \ {u}
  /\ UNCHANGED << now, row, cache, kline >>

\* The ircds forget temporary K-lines when they are restarted.
KlinesLost ==
  /\ kline # [m \in AkillMasks |-> 0]
  /\ kline' = [m \in AkillMasks |-> 0]
  /\ UNCHANGED << now, row, cache, delayed, known, online, spared >>

\* Services are restarted: the burst introduces every user anew.
Restart ==
  /\ cache' = EmptyList
  /\ known' = online
  /\ delayed' \in SetToSeqs(online)
  /\ spared' = {}
  /\ UNCHANGED << now, row, online, kline >>

-----------------------------------------------------------------------------
(* The table.                                                                *)

Wrap(n) == ((n + IntSize) % (2 * IntSize)) - IntSize

\* m_akill_add: the number is read when the loop meets its suffix; a number
\* without one leaves the default in place.
Duration(t) ==
  IF t[2] = "" THEN DefaultDur ELSE Wrap(t[1] * Minutes[t[2]])

Insert(m, dur) ==
  /\ row[m] = NoRow
  /\ row' = [row EXCEPT ![m] = [time |-> now, dur |-> dur]]
  /\ cache' = EmptyList
  /\ Place(SendAkill(kline, m, row'[m]))
  /\ UNCHANGED << now, delayed, known, spared >>

AkillAdd(m) == \E t \in Tokens : Insert(m, Duration(t))

\* FloodServ, on a flood over all channels; the AKILL has no setter.
FloodAkill(m) == Insert(m, FloodDur)

\* Mutant: akill_remove_mask leaves the cache alone.
RemoveMasksMutant(S) == row' = [m \in AkillMasks |-> IF m \in S THEN NoRow ELSE row[m]] /\ cache' = cache

\* akill_remove_mask, for each of a set of masks.
RemoveMasks(S) ==
  /\ row' = [m \in AkillMasks |-> IF m \in S THEN NoRow ELSE row[m]]
  /\ cache' = IF S = {} THEN cache ELSE EmptyList

AkillDel(m) ==
  /\ row[m] # NoRow
  /\ RemoveMasks({m})
  /\ Place([kline EXCEPT ![m] = 0])
  /\ UNCHANGED << now, delayed, known, spared >>

\* GET_EXPIRED_AKILL: the sum is an int4, so that one row that ends too late
\* makes the query fail for all of them.
Permanent(r) == r.dur = 0
Overflows == \E m \in Listed(row) : ~Permanent(row[m]) /\ row[m].time + row[m].dur >= IntSize
Ended(r) == ~Permanent(r) /\ r.time + r.dur < now
\* Mutant: the rows that end now are left for good.
ExpiredMutant == {m \in Listed(row) : Ended(row[m]) /\ row[m].time + row[m].dur = now - 1}

Expired == {m \in Listed(row) : Ended(row[m])}

ExpireAkills ==
  /\ ~Overflows /\ Expired # {}
  /\ RemoveMasks(Expired)
  /\ UNCHANGED << now, delayed, known, online, kline, spared >>

-----------------------------------------------------------------------------
(* check_akills: the first users of the list are looked up in the cache, in  *)
(* the order of its rows, newest first, and leave the list.                  *)

Loaded == IF cache = EmptyList THEN row ELSE cache
\* akill_check_client stops at the first match, whatever comes of it.
FirstMatch(u) ==
  {m \in Listed(Loaded) : /\ u \in Victims[m]
                          /\ \A x \in Listed(Loaded) :
                               u \in Victims[x] => Loaded[x].time <= Loaded[m].time}

CheckAkills ==
  LET n == IF Len(delayed) < CheckCnt THEN Len(delayed) ELSE CheckCnt
      hit == {u \in ToSet(SubSeq(delayed, 1, n)) : FirstMatch(u) # {}}
  IN /\ delayed # << >>
     /\ delayed' = SubSeq(delayed, n + 1, Len(delayed))
     /\ cache' = Loaded
     /\ \E pick \in [hit -> AkillMasks] :
          /\ \A u \in hit : pick[u] \in FirstMatch(u)
          /\ Place([m \in AkillMasks |-> IF \E u \in hit : pick[u] = m
                                         THEN SendAkill(kline, m, Loaded[m])[m] ELSE kline[m]])
          /\ spared' = spared \cup {u \in hit : SendAkill(kline, pick[u], Loaded[pick[u]]) = kline}
     /\ UNCHANGED << now, row, known >>

Tick ==
  /\ now < End /\ now' = now + 1
  /\ UNCHANGED << row, cache, delayed, known, online, kline, spared >>

Next ==
  \/ \E u \in Users : Connect(u) \/ Quit(u)
  \/ KlinesLost \/ Restart
  \/ \E m \in AkillMasks : AkillAdd(m) \/ FloodAkill(m) \/ AkillDel(m)
  \/ ExpireAkills \/ CheckAkills \/ Tick

\* "Expire akills" and "Check akills" are events of the main loop.
Fairness == WF_vars(ExpireAkills) /\ WF_vars(CheckAkills)

Spec == Init /\ [][Next]_vars /\ Fairness

-----------------------------------------------------------------------------
(* Properties                                                                *)

\* The variables have their types, the cache is empty or what the table says
\* (akill_add and akill_remove_mask free it), and delay_akill_list has each
\* user once, and no user that is gone.
TypeOK ==
  /\ now \in Start .. End
  /\ row \in [AkillMasks -> Akill \cup {NoRow}]
  /\ cache \in {EmptyList, row}
  /\ known \subseteq Users /\ online \subseteq known /\ spared \subseteq known
  /\ ToSet(delayed) \subseteq known /\ IsInjective(delayed)
  /\ kline \in [AkillMasks -> 0 .. End + IntSize]

\* A user that was checked and is still there matches no AKILL that has time
\* left, although ircds lose K-lines and services are restarted; unless the
\* first AKILL that matched had ended: akill_check_client goes no further.
Lasts(r) == r # NoRow /\ r.time + r.dur > now
CheckedAreClean ==
  \A u \in online \ (ToSet(delayed) \cup spared) : \A m \in AkillMasks :
    u \in Victims[m] => ~Lasts(row[m])

\* AKILLs whose time has come all go, unless some row ends after the last int.
Over == {m \in AkillMasks : row[m] # NoRow /\ Ended(row[m])}
EndedGo == Over # {} ~> Over = {} \/ Overflows
=============================================================================
