-------------------------------- MODULE Heap --------------------------------
(***************************************************************************)
(* A block heap, libio/mem/balloc.c: elements of one size in blocks that   *)
(* are mapped when there is no free element and unmapped by the garbage    *)
(* collection.  Nearly everything services keep (clients, channels, list   *)
(* nodes, queues) lives in one.                                            *)
(*                                                                         *)
(* The order of the blocks and of their free elements is left out: any     *)
(* free element may be handed out next.  What the code keeps twice, lists  *)
(* and counts of them, is kept twice here.                                 *)
(***************************************************************************)
EXTENDS Integers, FiniteSets

CONSTANTS
  Blocks,         \* addresses at which blocks are mapped
  elemsPerBlock   \* at least 1

VARIABLES
  base,             \* the blocks
  free_list,        \* of each block: its free elements
  blockFree,        \* of each block: freeElems
  freeElems,        \* of the heap
  blocksAllocated,
  held,             \* history: the elements handed out and not given back
  down              \* outofmemory or a failed assertion has ended the program

vars == <<base, free_list, blockFree, freeElems, blocksAllocated, held, down>>

Elements(b) == {<<b, i>> : i \in 1 .. elemsPerBlock}

\* A heap as it is kept, for operators that are applied one after the other.
Now == [base |-> base, list |-> free_list, count |-> blockFree, free |-> freeElems,
        allocated |-> blocksAllocated]

Become(h) ==
  /\ base' = h.base /\ free_list' = h.list /\ blockFree' = h.count
  /\ freeElems' = h.free /\ blocksAllocated' = h.allocated

\* newblock: mapped at b.
NewBlock(h, b) ==
  [base |-> h.base \cup {b}, list |-> [h.list EXCEPT ![b] = Elements(b)],
   count |-> [h.count EXCEPT ![b] = elemsPerBlock],
   free |-> h.free + elemsPerBlock, allocated |-> h.allocated + 1]

\* calloc's zeros.
Empty == [base |-> {}, list |-> [b \in Blocks |-> {}], count |-> [b \in Blocks |-> 0],
          free |-> 0, allocated |-> 0]

\* BlockHeapCreate: without memory for the first block the program ends.
Init ==
  \E b \in Blocks :
    LET h == NewBlock(Empty, b)
    IN  /\ base = h.base /\ free_list = h.list /\ blockFree = h.count
        /\ freeElems = h.free /\ blocksAllocated = h.allocated
        /\ held = {} /\ down = FALSE

\* The blocks that are all free, by their count.
Unused(h) == {b \in h.base : h.count[b] = elemsPerBlock}

\* Mutant: the heap goes on to count the elements of blocks that are gone.
CollectedMutant(h) ==
  IF h.free < elemsPerBlock \/ h.allocated = 1 THEN h
  ELSE [h EXCEPT !.base = @ \ Unused(h), !.allocated = @ - Cardinality(Unused(h))]

\* BlockHeapGarbageCollect: every block that is all free goes, the first too.
Collected(h) ==
  IF h.free < elemsPerBlock \/ h.allocated = 1 THEN h
  ELSE [h EXCEPT !.base = @ \ Unused(h),
                 !.allocated = @ - Cardinality(Unused(h)),
                 !.free = @ - elemsPerBlock * Cardinality(Unused(h))]

\* Mutant: the element stays on the list of its block.
TakenMutant(h, e) == [h EXCEPT !.free = @ - 1, !.count[e[1]] = @ - 1]

\* The element e of a block that counts a free one.
Taken(h, e) ==
  [h EXCEPT !.free = @ - 1, !.count[e[1]] = @ - 1, !.list[e[1]] = @ \ {e}]

\* outofmemory, or an assertion, which ends the program as well.
OutOfMemory ==
  /\ down' = TRUE
  /\ UNCHANGED <<base, free_list, blockFree, freeElems, blocksAllocated, held>>

\* BlockHeapAlloc with the heap h at hand; it asserts that some block has a
\* free element.
Hand(h) ==
  IF \A b \in h.base : h.count[b] = 0 THEN OutOfMemory
  ELSE /\ \E b \in h.base :
            /\ h.count[b] > 0
            /\ \E e \in h.list[b] : Become(Taken(h, e)) /\ held' = held \cup {e}
       /\ UNCHANGED down

\* BlockHeapAlloc: a block is mapped when all is used; when that fails the
\* garbage is collected, and it is tried again.
BlockHeapAlloc ==
  /\ ~down
  /\ IF freeElems # 0 THEN Hand(Now)
     ELSE \/ \E b \in Blocks \ base : Hand(NewBlock(Now, b))
          \/ \E b \in Blocks \ Collected(Now).base : Hand(NewBlock(Collected(Now), b))
          \/ OutOfMemory

\* Mutant: the element is put on the list of some other block.
BlockHeapFreeMutant(e) ==
  /\ ~down /\ e \in held
  /\ \E b \in base \ {e[1]} :
       Become([Now EXCEPT !.free = @ + 1, !.count[b] = @ + 1, !.list[b] = @ \cup {e}])
  /\ held' = held \ {e} /\ UNCHANGED down

\* BlockHeapFree, of an element that was handed out.
BlockHeapFree(e) ==
  /\ ~down /\ e \in held
  /\ Become([Now EXCEPT !.free = @ + 1, !.count[e[1]] = @ + 1, !.list[e[1]] = @ \cup {e}])
  /\ held' = held \ {e} /\ UNCHANGED down

\* heap_garbage_collection, an event.
HeapGarbageCollection == ~down /\ Become(Collected(Now)) /\ UNCHANGED <<held, down>>

Next ==
  \/ BlockHeapAlloc
  \/ \E e \in held : BlockHeapFree(e)
  \/ HeapGarbageCollection

Spec == Init /\ [][Next]_vars

-----------------------------------------------------------------------------

\* No element is lost, none is handed out twice and none is used whose block is
\* unmapped: those of the mapped blocks are held or on their block's list, the
\* counts that BlockHeapAlloc and the garbage collection trust are true, and the
\* assertion of BlockHeapAlloc holds.
BlocksAreOwn ==
  /\ held \subseteq UNION {Elements(b) : b \in base}
  /\ \A b \in base :
       /\ free_list[b] = Elements(b) \ held
       /\ blockFree[b] = Cardinality(free_list[b])
  /\ blocksAllocated = Cardinality(base)
  /\ freeElems = blocksAllocated * elemsPerBlock - Cardinality(held)
  /\ freeElems > 0 => \E b \in base : blockFree[b] > 0
=============================================================================
