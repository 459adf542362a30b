------------------------------ MODULE MCCore -------------------------------
(* What services run on: a behaviour is one of the event table, of a block   *)
(* heap, of the kill queue, of the protection of nicknames, which has the    *)
(* queue's promise for a part, or of modules that come and go.  "aborted" is *)
(* that of whichever part moves.                                             *)
EXTENDS KillQueue, TLC

CONSTANTS
  Events, Kills, Freq, MaxEvents, NoEvent, MaxTime, MaxStep,   \* EventTable
  Blocks, elemsPerBlock,                                       \* Heap
  Users, Enforcers, Nicks, Guests, Protected, Account, Off, NoOne, OperForbids,
  MaxOut, MaxEntries, m1, m2,  \* NickSession; m1 and m2 are its Nicks
  Nothing, MaxLoads            \* Modules

VARIABLES part,
  func, when, event_time_min, now, set_back, pc, slot,                 \* EventTable
  base, free_list, blockFree, freeElems, blocksAllocated, held, down,  \* Heap
  real, nick, status, session, identified, enforce, enforce_list, release_list,
  release_to, release_name, killing, out,                                           \* NickSession
  modules, loads, tree, chain, services, commands, events, database, clients,
  protocolMoved                                                          \* Modules

evars == <<func, when, event_time_min, now, set_back, pc, slot>>
hvars == <<base, free_list, blockFree, freeElems, blocksAllocated, held, down>>
svars == <<real, nick, status, session, identified, enforce, enforce_list, release_list,
           release_to, release_name, killing, out>>
mvars == <<modules, loads, tree, chain, services, commands, events, database, clients,
           protocolMoved>>
queue == <<live, loaded, kill_node, kill_list, request, walking, todo, stale>>

MCAccount == m1 :> "a1" @@ m2 :> "a2"

\* "Check kills" every second and two other events.
MCFreq(k, a, b) == [e \in Events |-> IF e = "kills" THEN k ELSE IF e = "a" THEN a ELSE b]
EventFreq == MCFreq(1, 2, 3)

E == INSTANCE EventTable
H == INSTANCE Heap
S == INSTANCE NickSession
M == INSTANCE Modules WITH loaded <- modules

\* The table has slots, periods last and blocks have elements; NULL is no message.
ASSUME EventAssumption ==
  /\ MaxEvents \in Nat \ {0} /\ MaxTime \in Nat /\ MaxStep \in Nat
  /\ NoEvent \notin Events /\ Kills \in Events
  /\ Freq \in [Events -> Nat \ {0}]
ASSUME HeapAssumption == elemsPerBlock \in Nat \ {0} /\ IsFiniteSet(Blocks)
ASSUME ModulesAssumption == Nothing \notin M!Modules \X Nat /\ MaxLoads \in Nat

\* The parts that do not move stay in their initial states.
MCInit ==
  /\ part \in {"events", "heap", "queue", "nicknames", "modules"}
  /\ Init /\ E!Init /\ H!Init /\ S!Init /\ M!Init
  /\ part # "heap" => base = {CHOOSE b \in Blocks : TRUE}

MCNext ==
  /\ part' = part
  /\ \/ part = "events" /\ E!Next /\ UNCHANGED <<vars, hvars, svars, mvars>>
     \/ part = "heap" /\ H!Next /\ UNCHANGED <<vars, evars, svars, mvars>>
     \/ part = "queue" /\ Next /\ UNCHANGED <<evars, hvars, svars, mvars>>
     \/ part = "nicknames" /\ S!Next /\ UNCHANGED <<queue, evars, hvars, mvars>>
     \/ part = "modules" /\ M!Next /\ UNCHANGED <<vars, evars, hvars, svars>>

\* The fairness of the parts; that of NickSession enables nothing in another one.
MCSpec ==
  /\ MCInit /\ [][MCNext]_<<part, vars, evars, hvars, svars, mvars>>
  /\ WF_evars(part = "events" /\ (E!LoopHead \/ E!RunSlot \/ E!SkipSlot \/ E!EventRunDone))
  /\ WF_vars(part = "queue" /\ ~aborted /\ CheckKills)
  /\ WF_vars(part = "queue" /\ ~aborted /\ \E n \in Nodes : SendKill(n))
  /\ WF_vars(part = "queue" /\ ~aborted /\ CheckKillsDone)
  /\ S!Fairness

-----------------------------------------------------------------------------
\* The loop goes to wait for input only when every due event has run, unless the
\* clock was set back (see EventTable), and it does go there.
NothingOverdue == part = "events" => E!NothingOverdue
LoopSettles == part = "events" /\ pc = "loop" ~> pc = "poll"

\* What a heap hands out is its own, and nobody else's (see Heap).
BlocksAreOwn == part = "heap" => H!BlocksAreOwn

\* Who is on nick_enforce_list loses the nickname, identifies or leaves (see
\* NickSession).
EnforcementActs == S!EnforcementActs

\* What services have left to call is there, and the trees that find it are
\* sound (see Modules).
CallsAreLive == part = "modules" => M!TreesAreSound /\ M!CallsAreLive /\ M!ProtocolIsOftc

\* The trie of messages is the table it stands for (see ModuleTable).
TreeIsTable == M!TreeIsTable
=============================================================================
