---------------------------- MODULE KillPromise ----------------------------
(***************************************************************************)
(* What the rest of services is promised of a kill (include/kill.h): a     *)
(* client that was killed stays marked until it exits, an exit takes one   *)
(* client and its own mark and nobody else's, and only clients that are    *)
(* there are marked.  KillQueue implements this until an unload of a       *)
(* module frees requests; NickSession relies on it.                        *)
(***************************************************************************)
CONSTANT Clients

VARIABLES
  live,   \* the clients that are there
  doomed  \* those somebody has killed

vars == <<live, doomed>>

Init ==
  /\ live = {}
  /\ doomed = {}

\* A handler: clients appear, and some of those that are there are killed.
Handle ==
  \E new \in SUBSET (Clients \ live) :
    /\ live' = live \cup new
    /\ \E killed \in SUBSET (live \cup new) : doomed' = doomed \cup killed

\* A client exits, by its kill or before it, and its mark goes with it.
Exit(c) ==
  /\ c \in live
  /\ live' = live \ {c}
  /\ doomed' = doomed \ {c}

Next == Handle \/ \E c \in Clients : Exit(c)

Spec == Init /\ [][Next]_vars
=============================================================================
