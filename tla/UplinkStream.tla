---------------------------- MODULE UplinkStream ---------------------------
(***************************************************************************)
(* What the send queue promises to those who call sendto_server: lines go  *)
(* out in the order they were queued, each unit at most once.  Units are   *)
(* lost only from the end of what is queued and all at once, so the stream *)
(* may have a gap - even inside a line - but never a repetition or a line  *)
(* that overtakes another.                                                 *)
(***************************************************************************)
EXTENDS Naturals, Sequences

CONSTANT UnitsPerLine

VARIABLES
  queue,  \* units that wait
  wire,   \* units the socket has taken
  lines   \* number of lines queued so far

vars == <<queue, wire, lines>>

Line(k) == [p \in 1 .. UnitsPerLine |-> <<k, p>>]

Init == queue = << >> /\ wire = << >> /\ lines = 0

\* Queue at most one line, pass on some of the queue, and then either keep
\* the rest or lose all of it.
Step ==
  \E line \in {<< >>, Line(lines + 1)} :
    LET all == queue \o line
    IN  \E n \in 0 .. Len(all) :
          /\ lines' = IF line = << >> THEN lines ELSE lines + 1
          /\ wire' = wire \o SubSeq(all, 1, n)
          /\ queue' \in {SubSeq(all, n + 1, Len(all)), << >>}

Spec == Init /\ [][Step]_vars
=============================================================================
