---------------------------- MODULE ModuleTable ----------------------------
(***************************************************************************)
(* What the table of server messages promises, without trees: loading a    *)
(* module makes every message of the module its own, unloading it leaves   *)
(* them without a handler, and no other message changes.                   *)
(***************************************************************************)
CONSTANTS
  Modules,
  Names(_),      \* the messages of a module
  AllNames,
  Versions,      \* loads of modules, numbered
  Nothing

VARIABLE table

Init == table = [w \in AllNames |-> Nothing]

Handle(m, v) == table' = [w \in AllNames |-> IF w \in Names(m) THEN v ELSE table[w]]

Next == \E m \in Modules : Handle(m, Nothing) \/ \E n \in Versions : Handle(m, <<m, n>>)

Spec == Init /\ [][Next]_table
=============================================================================
