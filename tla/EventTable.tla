----------------------------- MODULE EventTable ----------------------------
(***************************************************************************)
(* The timer table of libio/misc/event.c and the loop in src/services.c    *)
(* that runs it.  Every periodic job of services (kills, enforcement,      *)
(* releases, limits, expiry) is an entry of this table.  event_time_min    *)
(* caches the earliest due time: the loop looks at nothing else to decide  *)
(* whether anything has to run, so a cache that is too late silently stops *)
(* every job, and one that is never cleared keeps the loop from leaving.   *)
(*                                                                         *)
(* An event is an (EVH function, argument) pair.  A handler of an event    *)
(* may itself add or delete events.                                        *)
(***************************************************************************)
EXTENDS Integers, FiniteSets

CONSTANTS
  Events,     \* the events modules register
  Kills,      \* "Check kills", registered at start and never deleted
  Freq,       \* an event's frequency in seconds
  MaxEvents,  \* MAX_EVENTS, the slots of event_table
  NoEvent,    \* what an inactive slot holds
  MaxTime,    \* bound of the clock
  MaxStep     \* bound of one forward step of the clock

Slots == 1 .. MaxEvents
Time  == 0 .. MaxTime

VARIABLES
  func,            \* the event a slot holds, NoEvent when it is inactive
  when,            \* when it is due
  event_time_min,  \* cached earliest due time, -1 when it must be computed
  now,             \* CurrentTime
  set_back,        \* history: set_back_events ran, and no event since
  pc,              \* where the main loop is
  slot             \* the slot eventRun looks at

vars == <<func, when, event_time_min, now, set_back, pc, slot>>

Active == {i \in Slots : func[i] # NoEvent}

\* Services start with "Check kills" in the first slot.
Init ==
  /\ func = [i \in Slots |-> IF i = 1 THEN Kills ELSE NoEvent]
  /\ when = [i \in Slots |-> IF i = 1 THEN Freq[Kills] ELSE 0]
  /\ event_time_min = Freq[Kills]
  /\ now = 0
  /\ set_back = FALSE
  /\ pc = "dispatch"
  /\ slot = 1

-----------------------------------------------------------------------------

\* The first inactive slot takes the event; in a full table it is lost.
EventAdd(e) ==
  \/ \E i \in Slots \ Active :
       /\ \A j \in 1 .. i - 1 : j \in Active
       /\ func' = [func EXCEPT ![i] = e]
       /\ when' = [when EXCEPT ![i] = now + Freq[e]]
       /\ event_time_min' =
            IF event_time_min = -1 \/ now + Freq[e] < event_time_min
              THEN now + Freq[e] ELSE event_time_min
  \/ /\ Active = Slots
     /\ UNCHANGED <<func, when, event_time_min>>

\* The first slot with the event becomes inactive; event_time_min is kept.
EventDelete(e) ==
  /\ \E i \in Active :
       /\ func[i] = e
       /\ \A j \in 1 .. i - 1 : func[j] # e
       /\ func' = [func EXCEPT ![i] = NoEvent]
  /\ UNCHANGED <<when, event_time_min>>

-----------------------------------------------------------------------------

\* while (eventNextTime() <= CurrentTime) ...: the cache is computed only when
\* it is -1, and stays -1 when no event is active.
EventNextTime(m) ==
  IF event_time_min # -1
    THEN m = event_time_min
    ELSE \/ /\ \E i \in Active : m = when[i]
            /\ \A i \in Active : m <= when[i]
         \/ Active = {} /\ m = -1

LoopHead ==
  /\ pc = "loop"
  /\ \E m \in {when[i] : i \in Slots} \cup {event_time_min} :
       /\ EventNextTime(m)
       /\ event_time_min' = m
       /\ pc' = IF m <= now THEN "run" ELSE "poll"
  /\ slot' = 1
  /\ UNCHANGED <<func, when, now, set_back>>

Due(i) == i \in Active /\ when[i] <= now

\* Mutant: the cached minimum survives the run.
RunSlotKeepsCache ==
  /\ pc = "run"
  /\ slot \in Slots
  /\ Due(slot)
  /\ when' = [when EXCEPT ![slot] = now + Freq[func[slot]]]
  /\ slot' = slot + 1
  /\ UNCHANGED <<func, event_time_min, now, set_back, pc>>

\* Mutant: the run caches the next time of the last event that ran.
RunSlotCachesLast ==
  /\ pc = "run"
  /\ slot \in Slots
  /\ Due(slot)
  /\ when' = [when EXCEPT ![slot] = now + Freq[func[slot]]]
  /\ event_time_min' = now + Freq[func[slot]]
  /\ slot' = slot + 1
  /\ set_back' = FALSE
  /\ UNCHANGED <<func, now, pc>>

\* eventRun, one slot: the handler runs first, then the slot's next time is
\* set, whatever the handler did to the slot, and the cache is invalidated.
RunSlot ==
  /\ pc = "run"
  /\ slot \in Slots
  /\ Due(slot)
  /\ \/ UNCHANGED func /\ when' = [when EXCEPT ![slot] = now + Freq[func[slot]]]
     \/ \E e \in Events \ {Kills} :
          \/ \E i \in Slots \ Active :
               /\ \A j \in 1 .. i - 1 : j \in Active
               /\ func' = [func EXCEPT ![i] = e]
               /\ when' = [when EXCEPT ![i] = now + Freq[e],
                                       ![slot] = now + Freq[func[slot]]]
          \/ \E i \in Active :
               /\ func[i] = e
               /\ \A j \in 1 .. i - 1 : func[j] # e
               /\ func' = [func EXCEPT ![i] = NoEvent]
               /\ when' = [when EXCEPT ![slot] = now + Freq[func[slot]]]
  /\ event_time_min' = -1
  /\ set_back' = FALSE
  /\ slot' = slot + 1
  /\ UNCHANGED <<now, pc>>

SkipSlot ==
  /\ pc = "run"
  /\ slot \in Slots
  /\ ~Due(slot)
  /\ slot' = slot + 1
  /\ UNCHANGED <<func, when, event_time_min, now, set_back, pc>>

EventRunDone ==
  /\ pc = "run"
  /\ slot \notin Slots
  /\ pc' = "loop"
  /\ slot' = 1
  /\ UNCHANGED <<func, when, event_time_min, now, set_back>>

-----------------------------------------------------------------------------
(* comm_select: the clock is read, then the handlers of the input run, and *)
(* with them the module loads and unloads that add and delete events.      *)

ClockForward ==
  /\ pc = "poll"
  /\ \E t \in now .. now + MaxStep :
       /\ t \in Time
       /\ now' = t
  /\ pc' = "dispatch"
  /\ UNCHANGED <<func, when, event_time_min, set_back, slot>>

\* set_time with a clock that went back calls set_back_events.
SetBackEvents(by) ==
  when' = [i \in Slots |-> IF when[i] > by THEN when[i] - by ELSE 0]

ClockBackward ==
  /\ pc = "poll"
  /\ \E by \in 1 .. now :
       /\ now' = now - by
       /\ SetBackEvents(by)
  /\ set_back' = TRUE
  /\ pc' = "dispatch"
  /\ UNCHANGED <<func, event_time_min, slot>>

ModuleAdds(e) ==
  /\ pc = "dispatch"
  /\ EventAdd(e)
  /\ UNCHANGED <<now, set_back, pc, slot>>

ModuleDeletes(e) ==
  /\ pc = "dispatch"
  /\ EventDelete(e)
  /\ UNCHANGED <<now, set_back, pc, slot>>

DispatchDone ==
  /\ pc = "dispatch"
  /\ pc' = "loop"
  /\ UNCHANGED <<func, when, event_time_min, now, set_back, slot>>

-----------------------------------------------------------------------------

Next ==
  \/ LoopHead \/ RunSlot \/ SkipSlot \/ EventRunDone
  \/ ClockForward \/ ClockBackward \/ DispatchDone
  \/ \E e \in Events \ {Kills} : ModuleAdds(e) \/ ModuleDeletes(e)

Spec == Init /\ [][Next]_vars

\* The loop is one thread of straight code: it never waits but in comm_select.
FairSpec == Spec /\ WF_vars(LoopHead \/ RunSlot \/ SkipSlot \/ EventRunDone)

-----------------------------------------------------------------------------

\* Every variable has its type: nothing is written past the end of event_table.
TypeOK ==
  /\ func \in [Slots -> Events \cup {NoEvent}]
  /\ when \in [Slots -> Nat]
  /\ event_time_min \in Nat \cup {-1}
  /\ now \in Nat
  /\ set_back \in BOOLEAN
  /\ pc \in {"loop", "run", "poll", "dispatch"}
  /\ slot \in 1 .. MaxEvents + 1

\* When the loop goes to wait for input, every event that is due has run: the
\* cached minimum (eventNextTime) never hides one, though eventDelete leaves
\* it alone and eventAdd only lowers it.  A clock that is set back breaks this
\* until the old minimum is reached, since set_back_events leaves it alone too.
NothingOverdue ==
  pc = "poll" /\ ~set_back => \A i \in Active : when[i] > now

\* No event has to wait longer than its frequency for its next run, also when
\* the clock was set back meanwhile (set_back_events).
RunsWithinFrequency ==
  \A i \in Active : when[i] <= now + Freq[func[i]]

\* while (eventNextTime() <= CurrentTime) eventRun(); terminates although the
\* clock is not read in it and the minimum may be that of a deleted event: the
\* one-second "Check kills" is always due with it and its run clears the cache.
LoopSettles == (pc = "loop") ~> (pc = "poll")
=============================================================================
