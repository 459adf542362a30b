------------------------------ MODULE DnsNames ------------------------------
(***************************************************************************)
(* The names in DNS messages, libio/net/reslib.c: what irc_res_mkquery     *)
(* writes into a question, and what irc_dn_expand and irc_dn_skipname make *)
(* of the bytes of an answer, in which a name may go on somewhere else.    *)
(***************************************************************************)
EXTENDS Integers, SequencesExt

CONSTANTS
  Bytes,     \* the bytes messages are made of
  Size,      \* of a message
  MaxName,   \* NS_MAXCDNAME, 255 in the code
  Letters,   \* characters of host names
  MaxText    \* bound on the length of a host name

VARIABLES
  text,  \* the host of a question, NoText for a message from elsewhere
  msg,   \* the message, its bytes at positions 0, 1 ...
  src,   \* where irc_dn_expand starts
  out    \* what it returns and the bytes it copies

vars == <<text, msg, src, out>>

NoText == <<0>>
Unread == [len |-> 0, name |-> <<>>]
Error == [len |-> -1, name |-> <<>>]

\* NS_CMPRSFLGS: the two high bits tell a label from a pointer.
IsLabel(n) == n \in 1..63
IsPointer(n) == n >= 192
End(m) == Cardinality(DOMAIN m)
Target(m, p) == (m[p] % 64) * 256 + m[p + 1]

-----------------------------------------------------------------------------
(* Writing *)

Dot == 46
Nowhere == [dst |-> <<>>, label |-> <<>>, ok |-> TRUE]

\* A label has its length before it.
Close(w) == [w EXCEPT !.dst = @ \o <<Len(w.label)>> \o w.label, !.label = <<>>]

\* irc_ns_name_pton, for one character: an empty label is an error.
PtonChar(w, c) ==
  IF c # Dot THEN [w EXCEPT !.label = Append(@, c)]
  ELSE IF w.label = <<>> THEN [w EXCEPT !.ok = FALSE] ELSE Close(w)

\* irc_dn_comp: the bytes of a name, without pointers since a question has one
\* name; "." and "" are the root.
DnComp(t) ==
  LET read == IF t = <<Dot>> THEN Nowhere ELSE FoldLeft(PtonChar, Nowhere, t)
      w == IF read.label = <<>> THEN read ELSE Close(read)
      bytes == Append(w.dst, 0)
  IN  IF w.ok /\ Len(bytes) <= MaxName THEN [len |-> Len(bytes), name |-> bytes] ELSE Error

-----------------------------------------------------------------------------
(* Reading *)

RECURSIVE UnpackFrom(_, _, _, _, _), SkipFrom(_, _)

\* Mutant: a pointer behind a pointer counts as the end of the name.
UnpackFromMutant(m, srcp, dst, len, checked) ==
  LET n == m[srcp]
  IN  CASE n = 0 -> [len |-> IF len < 0 THEN srcp + 1 - src ELSE len, name |-> dst]
        [] IsLabel(n) ->
             IF Len(dst) + n + 1 >= MaxName \/ srcp + 1 + n >= End(m) THEN Error
             ELSE UnpackFrom(m, srcp + 1 + n, dst \o [i \in 1..(n + 1) |-> m[srcp + i - 1]],
                             len, checked + n + 1)
        [] IsPointer(n) ->
             IF srcp + 1 >= End(m) \/ checked + 2 >= End(m) THEN Error
             ELSE IF Target(m, srcp) >= End(m) THEN Error
             ELSE UnpackFrom(m, Target(m, srcp), dst, srcp + 2 - src, checked + 2)
        [] OTHER -> Error

\* irc_ns_name_unpack from the label at srcp, with the bytes copied so far, the
\* bytes consumed (-1 as long as the name goes on) and the bytes looked at.
UnpackFrom(m, srcp, dst, len, checked) ==
  LET n == m[srcp]
  IN  CASE n = 0 -> [len |-> IF len < 0 THEN srcp + 1 - src ELSE len, name |-> dst]
        [] IsLabel(n) ->
             IF Len(dst) + n + 1 >= MaxName \/ srcp + 1 + n >= End(m) THEN Error
             ELSE UnpackFrom(m, srcp + 1 + n, dst \o [i \in 1..(n + 1) |-> m[srcp + i - 1]],
                             len, checked + n + 1)
        [] IsPointer(n) ->
             IF srcp + 1 >= End(m) \/ checked + 2 >= End(m) THEN Error
             ELSE IF Target(m, srcp) >= End(m) THEN Error
             ELSE UnpackFrom(m, Target(m, srcp), dst, IF len < 0 THEN srcp + 2 - src ELSE len,
                             checked + 2)
        [] OTHER -> Error

\* irc_ns_name_ntop: the labels with dots between them; the root is "" to the
\* callers of irc_dn_expand.
NameNtop(name) ==
  LET byte(w, c) == IF w.left = 0 THEN [left |-> c, text |-> IF w.text = <<>> THEN <<>> ELSE Append(w.text, Dot)]
                    ELSE [left |-> w.left - 1, text |-> Append(w.text, c)]
  IN  FoldLeft(byte, [left |-> 0, text |-> <<>>], name).text

\* irc_dn_expand
DnExpand == out' = UnpackFrom(msg, src, <<>>, -1, 0) /\ UNCHANGED <<text, msg, src>>

\* irc_ns_name_skip from cp: where it stops, or -1.
SkipFrom(m, cp) ==
  IF cp >= End(m) THEN (IF cp > End(m) THEN -1 ELSE cp)
  ELSE CASE m[cp] = 0 -> cp + 1
         [] IsLabel(m[cp]) -> SkipFrom(m, cp + 1 + m[cp])
         [] IsPointer(m[cp]) -> IF cp + 2 > End(m) THEN -1 ELSE cp + 2
         [] OTHER -> -1

\* irc_dn_skipname
DnSkipname(m, ptr) == IF SkipFrom(m, ptr) = -1 THEN -1 ELSE SkipFrom(m, ptr) - ptr

-----------------------------------------------------------------------------

HostNames == UNION {[1..n -> Letters \cup {Dot}] : n \in 0..MaxText}

\* The bytes of an answer, or a question and its name read back.
Init ==
  /\ out = Unread
  /\ \/ text = NoText /\ msg \in [0..(Size - 1) -> Bytes] /\ src \in 0..(Size - 1)
     \/ /\ text \in {t \in HostNames : DnComp(t) # Error}
        /\ LET bytes == DnComp(text).name IN msg = [p \in 0..(Len(bytes) - 1) |-> bytes[p + 1]]
        /\ src = 0

Next == out = Unread /\ DnExpand

Spec == Init /\ [][Next]_vars

-----------------------------------------------------------------------------
(* What a name is, for any message *)

Lost == -1

\* Where the label after the one at position p is.
After(p) ==
  IF p = Lost THEN Lost
  ELSE CASE msg[p] = 0 -> p
         [] IsLabel(msg[p]) -> IF p + 1 + msg[p] < End(msg) THEN p + 1 + msg[p] ELSE Lost
         [] IsPointer(msg[p]) /\ p + 1 < End(msg) -> IF Target(msg, p) < End(msg) THEN Target(msg, p) ELSE Lost
         [] OTHER -> Lost

\* The labels a reader meets; a name has fewer than the message has bytes.
Way == LET w[i \in 0..End(msg)] == IF i = 0 THEN src ELSE After(w[i - 1]) IN w
HasName == Way[End(msg)] # Lost /\ msg[Way[End(msg)]] = 0
Name == FoldLeft(LAMBDA name, i : IF IsLabel(msg[Way[i]])
                                  THEN name \o [k \in 1..(msg[Way[i]] + 1) |-> msg[Way[i] + k - 1]] ELSE name,
                 <<>>, [i \in 1..End(msg) |-> i - 1])

\* No byte of the message is used twice.
Bytewise ==
  LET Used(p) == IF IsPointer(msg[p]) THEN {p, p + 1} ELSE p..(p + msg[p])
  IN  \A i, j \in DOMAIN Way : Way[i] # Way[j] => Used(Way[i]) \cap Used(Way[j]) = {}

\* irc_dn_expand returns the name that is there and what irc_dn_skipname would
\* skip; it returns every name that is short enough and uses no byte twice, and
\* no loop of pointers keeps it; a question's name reads back as its host, but
\* for a dot at the end.
\* (irc_ns_name_unpack, irc_ns_name_skip, irc_ns_name_pton, irc_ns_name_ntop)
NamesAreRead ==
  out # Unread =>
    /\ out # Error => HasName /\ out.name = Name /\ out.len = DnSkipname(msg, src)
    /\ HasName /\ Bytewise /\ Len(Name) < MaxName => out # Error
    /\ text # NoText => out # Error /\ NameNtop(out.name) \in {text, SubSeq(text, 1, Len(text) - 1)}
=============================================================================
