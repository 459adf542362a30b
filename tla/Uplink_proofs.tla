----------------------------- MODULE Uplink_proofs -----------------------------
(***************************************************************************)
(* The connection to the uplink, for any script, buffers and limits: the    *)
(* variables keep their types, outside read_packet me.uplink is NULL or an  *)
(* open connection, the send queue keeps the promise of UplinkStream, and   *)
(* the lines that are parsed are the lines that were sent.  Then the lookup *)
(* of the uplink's host: answers find their own questions.  Last the        *)
(* servers and users: services know those there are.                        *)
(***************************************************************************)
EXTENDS MCLink, SequenceTheorems, FiniteSetTheorems, TLAPS

-----------------------------------------------------------------------------
(* Sequences that are passed on from the front.                            *)

\* Some of the queue q has gone to the wire w, and the rest was kept or lost.
Passed(q, w, q2, w2) ==
  \E n \in 0 .. Len(q) :
    /\ w2 = w \o SubSeq(q, 1, n)
    /\ q2 \in {SubSeq(q, n + 1, Len(q)), << >>}

\* A part of a sequence.
LEMMA Part ==
  ASSUME NEW S, NEW q \in Seq(S), NEW a \in Nat, NEW b \in Nat,
         1 <= a, a <= b + 1, b <= Len(q)
  PROVE  /\ SubSeq(q, a, b) \in Seq(S)
         /\ Len(SubSeq(q, a, b)) = b - a + 1
         /\ \A i \in 1 .. b - a + 1 : SubSeq(q, a, b)[i] = q[a + i - 1]
<1>1. \A i \in 1 .. Len(q) : q[i] \in S
  BY ElementOfSeq
<1>2. Len(q) \in Nat
  BY LenProperties
<1>3. \A i \in a .. b : q[i] \in S
  BY <1>1, <1>2
<1>4. a \in Int /\ b \in Int
  OBVIOUS
<1>5. /\ SubSeq(q, a, b) \in Seq(S)
      /\ Len(SubSeq(q, a, b)) = IF a <= b THEN b - a + 1 ELSE 0
      /\ \A i \in 1 .. b - a + 1 : SubSeq(q, a, b)[i] = q[a + i - 1]
  BY <1>3, <1>4, SubSeqProperties
<1>6. (IF a <= b THEN b - a + 1 ELSE 0) = b - a + 1
  OBVIOUS
<1> QED BY <1>5, <1>6

\* A part of what follows the first n.
LEMMA PartOfRest ==
  ASSUME NEW S, NEW q \in Seq(S), NEW n \in Nat, NEW a \in Nat, NEW b \in Nat,
         1 <= a, a <= b + 1, n + b <= Len(q)
  PROVE  SubSeq(SubSeq(q, n + 1, Len(q)), a, b) = SubSeq(q, n + a, n + b)
<1> DEFINE r == SubSeq(q, n + 1, Len(q))
           x == SubSeq(r, a, b)
           y == SubSeq(q, n + a, n + b)
<1>1. Len(q) \in Nat
  BY LenProperties
<1>2. /\ n + 1 \in Nat /\ 1 <= n + 1 /\ n + 1 <= Len(q) + 1
      /\ n + a \in Nat /\ 1 <= n + a /\ n + a <= n + b + 1 /\ n + b \in Nat
  BY <1>1
<1>3. /\ r \in Seq(S)
      /\ Len(r) = Len(q) - (n + 1) + 1
      /\ \A i \in 1 .. Len(q) - (n + 1) + 1 : r[i] = q[n + 1 + i - 1]
  BY <1>1, <1>2, Part
<1>4. b <= Len(r)
  BY <1>1, <1>3
<1>5. /\ y \in Seq(S)
      /\ Len(y) = n + b - (n + a) + 1
      /\ \A i \in 1 .. n + b - (n + a) + 1 : y[i] = q[n + a + i - 1]
  BY <1>1, <1>2, Part
<1> HIDE DEF r, y
<1>6. /\ x \in Seq(S)
      /\ Len(x) = b - a + 1
      /\ \A i \in 1 .. b - a + 1 : x[i] = r[a + i - 1]
  BY <1>3, <1>4, Part, SMTT(30)
<1> HIDE DEF x
<1>7. Len(x) = Len(y)
  BY <1>5, <1>6
<1>8. ASSUME NEW i \in 1 .. Len(x) PROVE x[i] = y[i]
  <2>1. i \in Nat /\ i <= b - a + 1 /\ 1 <= i
    BY <1>6
  <2>2. a + i - 1 \in 1 .. Len(q) - (n + 1) + 1
    BY <1>1, <2>1
  <2>3. r[a + i - 1] = q[n + 1 + (a + i - 1) - 1]
    BY <1>3, <2>2
  <2>4. i \in 1 .. n + b - (n + a) + 1
    BY <2>1
  <2>5. y[i] = q[n + a + i - 1]
    BY <1>5, <2>4
  <2>6. n + 1 + (a + i - 1) - 1 = n + a + i - 1
    BY <2>1
  <2>7. x[i] = r[a + i - 1]
    BY <1>6, <2>1
  <2> QED BY <2>3, <2>5, <2>6, <2>7
<1>9. x = y
  BY <1>5, <1>6, <1>7, <1>8, SeqEqual
<1> QED BY <1>9 DEF x, r, y

\* Passing nothing on.
LEMMA PassedNothing ==
  ASSUME NEW S, NEW q \in Seq(S), NEW w \in Seq(S)
  PROVE  Passed(q, w, q, w)
<1>1. SubSeq(q, 1, 0) = << >>
  BY SubSeqEmpty
<1>2. w = w \o SubSeq(q, 1, 0)
  BY <1>1, ConcatEmptySeq
<1>3. SubSeq(q, 0 + 1, Len(q)) = q
  BY SubSeqFull
<1>4. 0 \in 0 .. Len(q)
  BY LenProperties
<1> QED BY <1>2, <1>3, <1>4 DEF Passed

\* What is passed on is still of the same kind.
LEMMA PassedTypes ==
  ASSUME NEW S, NEW q \in Seq(S), NEW w \in Seq(S), NEW q2, NEW w2, Passed(q, w, q2, w2)
  PROVE  q2 \in Seq(S) /\ w2 \in Seq(S) /\ Len(q2) <= Len(q)
<1>1. PICK n \in 0 .. Len(q) : /\ w2 = w \o SubSeq(q, 1, n)
                               /\ q2 \in {SubSeq(q, n + 1, Len(q)), << >>}
  BY DEF Passed
<1>2. Len(q) \in Nat /\ \A i \in 1 .. Len(q) : q[i] \in S
  BY LenProperties, ElementOfSeq
<1>3. SubSeq(q, 1, n) \in Seq(S)
  BY <1>2, SubSeqProperties
<1>4. /\ SubSeq(q, n + 1, Len(q)) \in Seq(S)
      /\ Len(SubSeq(q, n + 1, Len(q))) <= Len(q)
  BY <1>2, SubSeqProperties
<1>5. << >> \in Seq(S) /\ Len(<< >>) <= Len(q)
  BY <1>2, EmptySeq
<1>6. w2 \in Seq(S)
  BY <1>1, <1>3, ConcatProperties
<1> QED BY <1>1, <1>4, <1>5, <1>6

\* Passing on twice is passing on.
LEMMA PassedTwice ==
  ASSUME NEW S, NEW q \in Seq(S), NEW w \in Seq(S),
         NEW q2, NEW w2, NEW q3, NEW w3,
         Passed(q, w, q2, w2), Passed(q2, w2, q3, w3)
  PROVE  Passed(q, w, q3, w3)
<1>1. PICK n \in 0 .. Len(q) : /\ w2 = w \o SubSeq(q, 1, n)
                               /\ q2 \in {SubSeq(q, n + 1, Len(q)), << >>}
  BY DEF Passed
<1>2. PICK m \in 0 .. Len(q2) : /\ w3 = w2 \o SubSeq(q2, 1, m)
                                /\ q3 \in {SubSeq(q2, m + 1, Len(q2)), << >>}
  BY DEF Passed
<1>3. Len(q) \in Nat /\ q2 \in Seq(S) /\ w2 \in Seq(S)
  BY LenProperties, PassedTypes
<1>4. n \in Nat /\ n <= Len(q)
  BY <1>3
<1>5. SubSeq(q, 1, n) \in Seq(S)
  BY <1>3, <1>4, Part
<1>6. CASE q2 = << >>
  <2>1. Len(q2) = 0 /\ m = 0
    BY <1>6
  <2>2. SubSeq(q2, 1, 0) = << >> /\ SubSeq(q2, 0 + 1, 0) = << >>
    BY SubSeqEmpty
  <2>3. w3 = w2 /\ q3 = << >>
    BY <1>2, <1>3, <2>1, <2>2, ConcatEmptySeq
  <2> QED BY <1>1, <2>3 DEF Passed
<1>7. CASE q2 = SubSeq(q, n + 1, Len(q))
  <2>1. Len(q2) = Len(q) - n
    BY <1>3, <1>4, <1>7, Part
  <2>2. m \in Nat /\ n + m \in Nat /\ n + m <= Len(q) /\ m <= Len(q2)
    BY <1>3, <1>4, <2>1
  <2>3. SubSeq(q2, 1, m) = SubSeq(q, n + 1, n + m)
    BY <1>7, <1>4, <2>2, PartOfRest
  <2>4. /\ 1 \in 1 .. Len(q) + 1 /\ n \in 1 - 1 .. Len(q) /\ n + m \in n .. Len(q)
    BY <1>3, <1>4, <2>2
  <2>5. SubSeq(q, 1, n) \o SubSeq(q, n + 1, n + m) = SubSeq(q, 1, n + m)
    BY <2>4, ConcatAdjacentSubSeq
  <2>6. SubSeq(q2, 1, m) \in Seq(S)
    BY <1>3, <2>2, Part
  <2>7. (w \o SubSeq(q, 1, n)) \o SubSeq(q2, 1, m) = w \o (SubSeq(q, 1, n) \o SubSeq(q2, 1, m))
    <3> DEFINE a == SubSeq(q, 1, n)
               b == SubSeq(q2, 1, m)
    <3>1. w \in Seq(S) /\ a \in Seq(S) /\ b \in Seq(S)
      BY <1>5, <2>6
    <3> HIDE DEF a, b
    <3>2. (w \o a) \o b = w \o (a \o b)
      BY <3>1, ConcatAssociative, SMTT(30)
    <3> QED BY <3>2 DEF a, b
  <2>8. w3 = w \o SubSeq(q, 1, n + m)
    BY <1>1, <1>2, <2>3, <2>5, <2>7
  <2>9. /\ m + 1 \in Nat /\ Len(q2) \in Nat /\ 1 <= m + 1 /\ m + 1 <= Len(q2) + 1
        /\ n + Len(q2) = Len(q) /\ n + (m + 1) = (n + m) + 1
    BY <1>3, <1>4, <2>1, <2>2
  <2>10. SubSeq(q2, m + 1, Len(q2)) = SubSeq(q, n + (m + 1), n + Len(q2))
    BY <1>4, <1>7, <2>9, PartOfRest
  <2>11. q3 \in {SubSeq(q, (n + m) + 1, Len(q)), << >>}
    BY <1>2, <2>9, <2>10
  <2>12. n + m \in 0 .. Len(q)
    BY <1>3, <2>2
  <2> QED BY <2>8, <2>11, <2>12 DEF Passed
<1> QED BY <1>1, <1>6, <1>7

-----------------------------------------------------------------------------
(***************************************************************************)
(* What the operators on a struct Server do to it.                         *)
(***************************************************************************)

Shape(s) == s = [sendq |-> s.sendq, recvq |-> s.recvq, wire |-> s.wire,
                 lines |-> s.lines, kept |-> s.kept, parsed |-> s.parsed]

\* One field of a struct Server is set.
LEMMA SetSendq ==
  ASSUME NEW s, Shape(s), NEW x
  PROVE  LET t == [s EXCEPT !.sendq = x]
         IN  Shape(t) /\ t.sendq = x /\ t.wire = s.wire /\ t.lines = s.lines
BY DEF Shape

LEMMA SetWire ==
  ASSUME NEW s, Shape(s), NEW x
  PROVE  LET t == [s EXCEPT !.wire = x]
         IN  Shape(t) /\ t.sendq = s.sendq /\ t.wire = x /\ t.lines = s.lines
BY DEF Shape

LEMMA SetLines ==
  ASSUME NEW s, Shape(s), NEW x
  PROVE  LET t == [s EXCEPT !.lines = x]
         IN  Shape(t) /\ t.sendq = s.sendq /\ t.wire = s.wire /\ t.lines = x
BY DEF Shape

LEMMA SetRecvq ==
  ASSUME NEW s, Shape(s), NEW x
  PROVE  LET t == [s EXCEPT !.recvq = x]
         IN  Shape(t) /\ t.sendq = s.sendq /\ t.wire = s.wire /\ t.lines = s.lines
BY DEF Shape

LEMMA SetKept ==
  ASSUME NEW s, Shape(s), NEW x
  PROVE  LET t == [s EXCEPT !.kept = x]
         IN  Shape(t) /\ t.sendq = s.sendq /\ t.wire = s.wire /\ t.lines = s.lines
BY DEF Shape

LEMMA SetParsed ==
  ASSUME NEW s, Shape(s), NEW x
  PROVE  LET t == [s EXCEPT !.parsed = x]
         IN  Shape(t) /\ t.sendq = s.sendq /\ t.wire = s.wire /\ t.lines = s.lines
BY DEF Shape

\* The socket buffer holds no more than it has room for.
Room(s) == acked \in 0 .. Len(s.wire) /\ Len(s.wire) <= acked + SockRoom

Queues(s) ==
  /\ Shape(s)
  /\ s.sendq \in Seq(Units) /\ s.wire \in Seq(Units)
  /\ s.lines \in 0 .. MaxLines
  /\ Room(s)

Good(s) == Queues(s) /\ Len(s.sendq) <= LimitUnknown

\* From s to t nothing new is queued, and some goes out; or a line is queued
\* before some goes out.
Quiet(s, t) == t.lines = s.lines /\ Passed(s.sendq, s.wire, t.sendq, t.wire)
Lined(s, t) == /\ t.lines = s.lines + 1
               /\ Passed(s.sendq \o Line(s.lines + 1), s.wire, t.sendq, t.wire)
Effect(s, t) == Quiet(s, t) \/ Lined(s, t)

LEMMA MinOfTwo ==
  ASSUME NEW a \in Int, NEW b \in Int
  PROVE  Min({a, b}) \in {a, b} /\ Min({a, b}) <= a /\ Min({a, b}) <= b
<1>1. \E x \in {a, b} : \A y \in {a, b} : x <= y
  OBVIOUS
<1>2. Min({a, b}) \in {a, b} /\ \A y \in {a, b} : Min({a, b}) <= y
  BY <1>1 DEF Min
<1> QED BY <1>2

\* The kernel takes no more than there is, and than it has room for.
LEMMA TakesFits ==
  ASSUME UplinkAssumption, NEW s, Queues(s), NEW n \in Takes(s)
  PROVE  n \in 0 .. Len(s.sendq) /\ Len(s.wire) + n <= acked + SockRoom
<1> DEFINE room == SockRoom - (Len(s.wire) - acked)
           most == Min({Len(s.sendq), room})
<1>1. /\ Len(s.sendq) \in Nat /\ Len(s.wire) \in Nat /\ acked \in Nat /\ SockRoom \in Nat
      /\ Len(s.wire) <= acked + SockRoom
  BY LenProperties DEF Queues, Room, UplinkAssumption
<1>2. room \in Nat /\ Len(s.wire) + room = acked + SockRoom
  BY <1>1
<1> HIDE DEF room
<1>3. most \in {Len(s.sendq), room} /\ most <= Len(s.sendq) /\ most <= room
  <2>1. Len(s.sendq) \in Int /\ room \in Int
    BY <1>1, <1>2
  <2>2. \A a, b \in Int : Min({a, b}) \in {a, b} /\ Min({a, b}) <= a /\ Min({a, b}) <= b
    BY MinOfTwo
  <2> QED BY <2>1, <2>2
<1>4. n = most \/ n = 0
  BY DEF Takes, room
<1> HIDE DEF most
<1> QED BY <1>1, <1>2, <1>3, <1>4

LEMMA SentEffect ==
  ASSUME UplinkAssumption, NEW s, Queues(s), NEW n \in Takes(s)
  PROVE  /\ Queues(Sent(s, n))
         /\ Sent(s, n).wire = s.wire \o SubSeq(s.sendq, 1, n)
         /\ Sent(s, n).sendq = SubSeq(s.sendq, n + 1, Len(s.sendq))
         /\ Sent(s, n).lines = s.lines
<1> DEFINE q == SubSeq(s.sendq, n + 1, Len(s.sendq))
           p == SubSeq(s.sendq, 1, n)
           t == Sent(s, n)
<1>1. /\ n \in 0 .. Len(s.sendq) /\ Len(s.wire) + n <= acked + SockRoom
      /\ s.sendq \in Seq(Units) /\ s.wire \in Seq(Units)
  BY TakesFits DEF Queues
<1>2. Len(s.sendq) \in Nat /\ Len(s.wire) \in Nat /\ n \in Nat /\ n + 1 \in Nat
  BY <1>1, LenProperties
<1>3. p \in Seq(Units) /\ Len(p) = n - 1 + 1
  BY <1>1, <1>2, Part
<1>4. q \in Seq(Units)
  BY <1>1, <1>2, Part
<1>5. /\ t.wire = s.wire \o p /\ t.sendq = q /\ t.lines = s.lines
      /\ Shape(t)
  <2>1. t = [[s EXCEPT !.wire = s.wire \o p] EXCEPT !.sendq = q]
    BY DEF Sent, Queues, Shape
  <2> HIDE DEF p, q, t
  <2> DEFINE a == [s EXCEPT !.wire = s.wire \o p]
  <2>2. Shape(a) /\ a.sendq = s.sendq /\ a.wire = s.wire \o p /\ a.lines = s.lines
    BY SetWire DEF Queues
  <2>3. t = [a EXCEPT !.sendq = q]
    BY <2>1
  <2> HIDE DEF a
  <2> QED BY <2>2, <2>3, SetSendq
<1> HIDE DEF p, q, t
<1>6. s.wire \o p \in Seq(Units) /\ Len(s.wire \o p) = Len(s.wire) + n
  <2>1. s.wire \o p \in Seq(Units) /\ Len(s.wire \o p) = Len(s.wire) + Len(p)
    BY <1>1, <1>3, ConcatProperties
  <2> QED BY <1>2, <1>3, <2>1
<1>7. Room(t)
  BY <1>1, <1>2, <1>5, <1>6 DEF Queues, Room, UplinkAssumption
<1>8. Queues(t)
  BY <1>4, <1>5, <1>6, <1>7 DEF Queues
<1> QED BY <1>5, <1>8 DEF p, q, t

\* dead_link_on_write and close_connection leave the wire as it is.
LEMMA ClearedEffect ==
  ASSUME NEW s, Queues(s)
  PROVE  /\ Queues(Cleared(s)) /\ Cleared(s).sendq = << >>
         /\ Cleared(s).wire = s.wire /\ Cleared(s).lines = s.lines
<1>1. /\ Shape(Cleared(s)) /\ Cleared(s).sendq = << >>
      /\ Cleared(s).wire = s.wire /\ Cleared(s).lines = s.lines
  <2> DEFINE a == [s EXCEPT !.sendq = << >>]
             b == [a EXCEPT !.recvq = << >>]
             c == [b EXCEPT !.kept = << >>]
  <2>1. Cleared(s) = [c EXCEPT !.parsed = << >>]
    BY DEF Cleared, Queues, Shape
  <2>2. Shape(a) /\ a.sendq = << >> /\ a.wire = s.wire /\ a.lines = s.lines
    BY SetSendq DEF Queues
  <2> HIDE DEF a
  <2>3. Shape(b) /\ b.sendq = << >> /\ b.wire = s.wire /\ b.lines = s.lines
    BY <2>2, SetRecvq
  <2> HIDE DEF b
  <2>4. Shape(c) /\ c.sendq = << >> /\ c.wire = s.wire /\ c.lines = s.lines
    BY <2>3, SetKept
  <2> HIDE DEF c
  <2> QED BY <2>1, <2>4, SetParsed, SMTT(30)
<1>2. << >> \in Seq(Units)
  BY EmptySeq
<1> QED BY <1>1, <1>2 DEF Queues, Room

\* send_queued_write leaves nothing behind, and queues nothing.
LEMMA WriteEffect ==
  ASSUME UplinkAssumption, NEW s, Queues(s), NEW t \in SendQueuedWrite(s)
  PROVE  Good(t) /\ t.sendq = << >> /\ Quiet(s, t)
<1>1. PICK n \in Takes(s) :
        t = IF n = Len(s.sendq) THEN Sent(s, n) ELSE DeadLinkOnWrite(Sent(s, n))
  BY DEF SendQueuedWrite
<1>2. /\ Queues(Sent(s, n))
      /\ Sent(s, n).wire = s.wire \o SubSeq(s.sendq, 1, n)
      /\ Sent(s, n).sendq = SubSeq(s.sendq, n + 1, Len(s.sendq))
      /\ Sent(s, n).lines = s.lines
  BY SentEffect
<1>3. n \in 0 .. Len(s.sendq) /\ Len(s.sendq) \in Nat
  BY TakesFits, LenProperties DEF Queues
<1>4. SubSeq(s.sendq, Len(s.sendq) + 1, Len(s.sendq)) = << >>
  BY <1>3, SubSeqEmpty
<1>5. /\ Queues(t) /\ t.sendq = << >> /\ t.lines = s.lines
      /\ t.wire = s.wire \o SubSeq(s.sendq, 1, n)
  <2>1. CASE n = Len(s.sendq)
    BY <2>1, <1>1, <1>2, <1>4
  <2>2. CASE n # Len(s.sendq)
    BY <2>2, <1>1, <1>2, ClearedEffect DEF DeadLinkOnWrite
  <2> QED BY <2>1, <2>2
<1>6. Quiet(s, t)
  BY <1>3, <1>5 DEF Quiet, Passed
<1>7. Len(<< >>) <= LimitUnknown
  BY EmptySeq DEF UplinkAssumption
<1> QED BY <1>5, <1>6, <1>7 DEF Good

\* close_connection: the same, and the rest of the queues goes too.
LEMMA CloseEffect ==
  ASSUME UplinkAssumption, NEW s, Queues(s), NEW t \in CloseConnection(s)
  PROVE  Good(t) /\ Quiet(s, t)
<1>1. PICK u \in SendQueuedWrite(s) : t = Cleared(u)
  BY DEF CloseConnection
<1>2. Good(u) /\ u.sendq = << >> /\ Quiet(s, u)
  BY WriteEffect
<1>3. Queues(t) /\ t.sendq = << >> /\ t.wire = u.wire /\ t.lines = u.lines
  BY <1>1, <1>2, ClearedEffect DEF Good
<1> QED BY <1>2, <1>3 DEF Good, Quiet

\* A line is made of units of its own.
LEMMA LineIsOfUnits ==
  ASSUME UplinkAssumption, NEW k \in 1 .. MaxLines
  PROVE  Line(k) \in Seq(Units) /\ Line(k) # << >>
<1>1. UnitsPerLine \in Nat /\ UnitsPerLine > 2
  BY DEF UplinkAssumption
<1>2. \A p \in 1 .. UnitsPerLine : <<k, p>> \in Units
  BY DEF Units
<1>3. Line(k) \in [1 .. UnitsPerLine -> Units]
  BY <1>2 DEF Line
<1>4. Line(k) \in Seq(Units)
  BY <1>1, <1>3, SeqDef
<1>5. 1 \in DOMAIN Line(k)
  BY <1>1 DEF Line
<1>6. Line(k) # << >>
  BY <1>5
<1> QED BY <1>4, <1>6

\* sendto_server queues a line, and send_message may write.
LEMMA SendEffect ==
  ASSUME UplinkAssumption, NEW s, Queues(s), s.lines < MaxLines, NEW t \in SendtoServer(s)
  PROVE  Good(t) /\ Lined(s, t)
<1> DEFINE all == s.sendq \o Line(s.lines + 1)
           q   == [s EXCEPT !.sendq = @ \o Line(s.lines + 1), !.lines = @ + 1]
<1>1. s.lines \in Nat /\ s.lines + 1 \in 1 .. MaxLines /\ s.lines + 1 \in 0 .. MaxLines
  BY DEF Queues, UplinkAssumption
<1>2. all \in Seq(Units)
  BY <1>1, LineIsOfUnits, ConcatProperties DEF Queues
<1>3. /\ q.sendq = all /\ q.wire = s.wire /\ q.lines = s.lines + 1
      /\ Shape(q)
  <2>1. q = [[s EXCEPT !.sendq = all] EXCEPT !.lines = s.lines + 1]
    BY DEF Queues, Shape
  <2> HIDE DEF all, q
  <2> DEFINE a == [s EXCEPT !.sendq = all]
  <2>2. Shape(a) /\ a.sendq = all /\ a.wire = s.wire /\ a.lines = s.lines
    BY SetSendq DEF Queues
  <2>3. q = [a EXCEPT !.lines = s.lines + 1]
    BY <2>1
  <2> HIDE DEF a
  <2> QED BY <2>2, <2>3, SetLines
<1>4. t \in IF Len(q.sendq) > (IF known THEN Limit ELSE LimitUnknown)
              THEN SendQueuedWrite(q) ELSE {q}
  BY DEF SendtoServer
<1> HIDE DEF all, q
<1>5. Queues(q)
  BY <1>1, <1>2, <1>3 DEF Queues, Room
<1>6. CASE t \in SendQueuedWrite(q)
  <2>1. Good(t) /\ Quiet(q, t)
    BY <1>5, <1>6, WriteEffect
  <2> QED BY <2>1, <1>3 DEF Quiet, Lined, all
<1>7. CASE t = q /\ ~(Len(q.sendq) > (IF known THEN Limit ELSE LimitUnknown))
  <2>1. Len(q.sendq) \in Nat
    BY <1>5, LenProperties DEF Queues
  <2>2. Len(q.sendq) <= LimitUnknown
    BY <1>7, <2>1 DEF UplinkAssumption
  <2>3. s.wire \in Seq(Units)
    BY DEF Queues
  <2>4. Passed(all, s.wire, all, s.wire)
    BY <1>2, <2>3, PassedNothing
  <2> QED BY <1>3, <1>5, <1>7, <2>2, <2>4 DEF Good, Lined, all
<1> QED BY <1>4, <1>6, <1>7

\* A struct Server that stays as it is.
LEMMA NoEffect ==
  ASSUME NEW s, Queues(s), NEW t, t.sendq = s.sendq, t.wire = s.wire, t.lines = s.lines
  PROVE  Quiet(s, t)
BY PassedNothing DEF Quiet, Queues

\* A handler, a timer or a callback sends a line or does not.
LEMMA MaySendEffect ==
  ASSUME UplinkAssumption, NEW s, Good(s), NEW t \in MaySend(s)
  PROVE  Good(t) /\ Effect(s, t)
<1>1. CASE t = s
  BY <1>1, NoEffect DEF Good, Effect
<1>2. CASE s.lines < MaxLines /\ t \in SendtoServer(s)
  BY <1>2, SendEffect DEF Good, Effect
<1> QED BY <1>1, <1>2 DEF MaySend

\* oftc_server_connected: a line, and one more write.
LEMMA HandshakeEffect ==
  ASSUME UplinkAssumption, NEW s, Good(s), s.lines < MaxLines,
         NEW u \in SendtoServer(s), NEW t \in SendQueuedWrite(u)
  PROVE  Good(t) /\ Lined(s, t)
<1> DEFINE all == s.sendq \o Line(s.lines + 1)
<1>1. Good(u) /\ Lined(s, u)
  BY SendEffect DEF Good
<1>2. Good(t) /\ Quiet(u, t)
  BY <1>1, WriteEffect DEF Good
<1>3. s.lines + 1 \in 1 .. MaxLines /\ s.wire \in Seq(Units)
  BY DEF Good, Queues, UplinkAssumption
<1>4. all \in Seq(Units)
  BY <1>3, LineIsOfUnits, ConcatProperties DEF Good, Queues
<1>5. Passed(all, s.wire, u.sendq, u.wire) /\ Passed(u.sendq, u.wire, t.sendq, t.wire)
  BY <1>1, <1>2 DEF Lined, Quiet
<1> HIDE DEF all
<1>6. Passed(all, s.wire, t.sendq, t.wire)
  BY <1>3, <1>4, <1>5, PassedTwice
<1> QED BY <1>1, <1>2, <1>6 DEF Lined, Quiet, all

-----------------------------------------------------------------------------
(***************************************************************************)
(* The inductive invariant.                                                *)
(***************************************************************************)

\* The types of what is not in the struct Server.
Outside ==
  /\ proc \in {"up", "crashed", "exited"}
  /\ pc \in {"events", "select", "connected", "introduce", "recv", "parse",
             "parse again", "flush"}
  /\ conn \in {"resolving", "connecting", "open", "closed"}
  /\ uplink \in BOOLEAN /\ known \in BOOLEAN
  /\ peer \in {"open", "closed", "reset"}
  /\ offered \in 0 .. StreamLen /\ read \in 0 .. offered

\* The uplink sends whole lines.
Whole == \E k \in Nat : offered = k * UnitsPerLine

\* Where me.uplink can be set and the connection not open, and where services
\* are before me.uplink is set: they have then sent what the handshake takes.
Control ==
  /\ uplink => /\ pc \notin {"connected", "introduce"}
               /\ conn = "open" \/ (conn = "closed" /\ pc \in {"parse", "parse again"})
  /\ proc = "up" /\ ~uplink =>
       \/ pc = "flush"
       \/ pc \in {"events", "select"} /\ conn \in {"resolving", "connecting"} /\ server.lines = 0
       \/ pc = "connected" /\ conn = "open" /\ server.lines = 0
       \/ pc = "introduce" /\ conn = "open" /\ server.lines = 1

Inv == Outside /\ Good(server) /\ Whole /\ Control

LEMMA InvTypes == Inv => TypeOK
BY DEF Inv, Outside, Good, Queues, Room, TypeOK

LEMMA InvOpen == Inv => UplinkIsOpen
BY DEF Inv, Control, UplinkIsOpen

LEMMA StreamLenIsNat == ASSUME UplinkAssumption PROVE StreamLen \in Nat
<1>1. Len(Script) \in Nat /\ UnitsPerLine \in Nat
  BY LenProperties DEF UplinkAssumption
<1>2. \A a, b \in Nat : a * b \in Nat
  OBVIOUS
<1> QED BY <1>1, <1>2 DEF StreamLen

LEMMA InvInit == ASSUME UplinkAssumption, Init PROVE Inv
<1>1. << >> \in Seq(Units) /\ Len(<< >>) = 0
  BY EmptySeq
<1>2. Good(MakeServer)
  BY <1>1 DEF Init, MakeServer, Good, Queues, Shape, Room, UplinkAssumption
<1>3. Whole
  <2>1. 0 = 0 * UnitsPerLine
    BY DEF UplinkAssumption
  <2> QED BY <2>1 DEF Init, Whole
<1>4. 0 \in 0 .. StreamLen /\ 0 \in 0 .. 0
  BY StreamLenIsNat
<1>5. Outside
  BY <1>4 DEF Init, Outside, ConnectServer
<1>6. Control
  BY DEF Init, Control, ConnectServer, MakeServer
<1> QED BY <1>2, <1>3, <1>5, <1>6 DEF Inv, Init

\* What a step does to the struct Server: nothing the stream can tell, or it
\* has an effect.
ServerStep == Good(server)' /\ Effect(server, server')

LEMMA GoodStays ==
  ASSUME NEW t, Good(t), acked' = acked, server' = t
  PROVE  Good(server)'
BY DEF Good, Queues, Room, Shape

LEMMA ServerSame ==
  ASSUME Good(server), acked' = acked, server' = server
  PROVE  ServerStep
BY GoodStays, NoEffect DEF ServerStep, Effect, Good

\* Whole is about what the network does only.
LEMMA WholeStays == ASSUME Whole, offered' = offered PROVE Whole'
BY DEF Whole

LEMMA EventsStep ==
  ASSUME UplinkAssumption, Inv, Events
  PROVE  Inv' /\ ServerStep
<1>1. ServerStep
  BY MaySendEffect, ServerSame, GoodStays DEF Events, Inv, ServerStep, netVars
<1>2. Outside' /\ Whole'
  BY WholeStays DEF Events, Inv, Outside, ConnectServer, netVars
<1>3. ~uplink => server' = server
  BY DEF Events
<1>4. Control'
  BY <1>3 DEF Events, Inv, Outside, Control, ConnectServer
<1> QED BY <1>1, <1>2, <1>4 DEF Inv, ServerStep

LEMMA ConnectStep ==
  ASSUME UplinkAssumption, Inv, Resolved \/ ConnectEvent
  PROVE  Inv' /\ ServerStep
<1>1. /\ proc = "up" /\ pc = "select" /\ conn \in {"resolving", "connecting"}
      /\ UNCHANGED <<uplink, known, server, read, acked, peer, offered>>
  BY DEF Resolved, ConnectEvent, netVars
<1>2. ~uplink /\ server.lines = 0
  BY <1>1 DEF Inv, Outside, Control
<1>3. \/ conn' = "open" /\ pc' = "connected" /\ proc' = proc
      \/ conn' = "connecting" /\ pc' = "flush" /\ proc' = proc
      \/ proc' = "exited" /\ conn' = conn /\ pc' = pc
  BY DEF Resolved, ConnectEvent, TryConnect, ConnectCallback
<1>4. ServerStep
  BY <1>1, ServerSame DEF Inv
<1>5. Outside' /\ Whole'
  BY <1>1, <1>3, WholeStays DEF Inv, Outside
<1>6. Control'
  BY <1>1, <1>2, <1>3 DEF Control
<1> QED BY <1>4, <1>5, <1>6 DEF Inv, ServerStep

LEMMA HandshakeStep ==
  ASSUME UplinkAssumption, Inv, Handshake
  PROVE  Inv' /\ ServerStep
<1>1. ~uplink /\ server.lines = 0 /\ conn = "open"
  BY DEF Handshake, Inv, Outside, Control
<1>2. PICK u \in SendtoServer(server) : server' \in SendQueuedWrite(u)
  BY DEF Handshake
<1>3. server.lines < MaxLines
  BY <1>1 DEF UplinkAssumption
<1>4. Good(server') /\ Lined(server, server')
  BY <1>2, <1>3, HandshakeEffect DEF Inv
<1>5. ServerStep
  BY <1>4, GoodStays DEF Handshake, ServerStep, Effect, netVars
<1>6. server'.lines = 1
  BY <1>1, <1>4 DEF Lined
<1>7. Outside' /\ Whole'
  BY WholeStays DEF Handshake, Inv, Outside, netVars
<1>8. Control'
  BY <1>1, <1>6 DEF Handshake, Control
<1> QED BY <1>5, <1>7, <1>8 DEF Inv, ServerStep

LEMMA IntroduceStep ==
  ASSUME UplinkAssumption, Inv, Introduce
  PROVE  Inv' /\ ServerStep
<1>1. server.lines = 1 /\ conn = "open"
  BY DEF Introduce, Inv, Outside, Control
<1>2. server.lines < MaxLines
  BY <1>1 DEF UplinkAssumption
<1>3. Good(server') /\ Lined(server, server')
  BY <1>2, SendEffect DEF Introduce, Inv, Good
<1>4. ServerStep
  BY <1>3, GoodStays DEF Introduce, ServerStep, Effect, netVars
<1>5. Outside' /\ Whole'
  BY WholeStays DEF Introduce, Inv, Outside, netVars
<1>6. Control'
  BY <1>1 DEF Introduce, Control
<1> QED BY <1>4, <1>5, <1>6 DEF Inv, ServerStep

LEMMA IdleStep ==
  ASSUME UplinkAssumption, Inv, SelectIdle
  PROVE  Inv' /\ ServerStep
<1>1. ServerStep
  BY ServerSame DEF SelectIdle, Inv, netVars
<1>2. Outside' /\ Whole'
  BY WholeStays DEF SelectIdle, Inv, Outside, netVars
<1>3. Control'
  BY DEF SelectIdle, Inv, Outside, Control
<1> QED BY <1>1, <1>2, <1>3 DEF Inv, ServerStep

\* read_packet runs on a connection that is me.uplink.
LEMMA ReadingIsUp == ASSUME Inv, Reading PROVE uplink
BY DEF Reading, Inv, Outside, Control

LEMMA RecvStep ==
  ASSUME UplinkAssumption, Inv, Recv
  PROVE  Inv' /\ ServerStep
<1>1. uplink /\ conn = "open"
  BY ReadingIsUp DEF Recv, Reading
<1>2. PICK n \in 1 .. Min({ReadBuf, offered - read}) :
        /\ read' = read + n
        /\ \E got : server' = [server EXCEPT !.recvq = @ \o got, !.kept = @ \o got]
        /\ pc' = IF n = ReadBuf THEN "parse again" ELSE "parse"
  BY DEF Recv
<1>3. /\ offered \in 0 .. StreamLen /\ read \in 0 .. offered /\ offered > read
      /\ StreamLen \in Nat
  BY StreamLenIsNat DEF Recv, Inv, Outside
<1>4. Min({ReadBuf, offered - read}) <= offered - read
      /\ Min({ReadBuf, offered - read}) \in Int
  <2>1. ReadBuf \in Int /\ offered - read \in Int
    BY <1>3 DEF UplinkAssumption
  <2>2. \A a, b \in Int : Min({a, b}) \in {a, b} /\ Min({a, b}) <= b
    BY MinOfTwo
  <2> DEFINE d == offered - read
  <2> HIDE DEF d
  <2>3. d \in Int
    BY <2>1 DEF d
  <2>4. Min({ReadBuf, d}) \in {ReadBuf, d} /\ Min({ReadBuf, d}) <= d
    BY <2>1, <2>2, <2>3
  <2>5. Min({ReadBuf, d}) \in Int
    BY <2>1, <2>3, <2>4
  <2> QED BY <2>4, <2>5 DEF d
<1>5. read + n \in 0 .. offered
  <2> DEFINE m == Min({ReadBuf, offered - read})
  <2>1. n \in 1 .. m /\ m <= offered - read /\ m \in Int
    BY <1>4
  <2> HIDE DEF m
  <2> QED BY <1>3, <2>1
<1>6. PICK got : server' = [server EXCEPT !.recvq = @ \o got, !.kept = @ \o got]
  BY <1>2
<1>7. /\ Shape(server') /\ server'.sendq = server.sendq
      /\ server'.wire = server.wire /\ server'.lines = server.lines
  <2> DEFINE x == server.recvq \o got
             y == server.kept \o got
             a == [server EXCEPT !.recvq = x]
  <2>1. server' = [a EXCEPT !.kept = y]
    BY <1>6 DEF Inv, Good, Queues, Shape
  <2> HIDE DEF x, y
  <2>2. /\ Shape(a) /\ a.sendq = server.sendq
        /\ a.wire = server.wire /\ a.lines = server.lines
    BY SetRecvq DEF Inv, Good, Queues
  <2> HIDE DEF a
  <2> QED BY <2>1, <2>2, SetKept
<1>8. Good(server')
  BY <1>7 DEF Inv, Good, Queues, Room
<1>9. ServerStep
  BY <1>7, <1>8, GoodStays, NoEffect DEF Recv, ServerStep, Effect, Inv, Good, netVars
<1>10. Outside'
  BY <1>2, <1>5 DEF Recv, Inv, Outside, netVars
<1>11. Whole'
  BY WholeStays DEF Recv, Inv, netVars
<1>12. Control'
  BY <1>1, <1>2 DEF Recv, Control
<1> QED BY <1>8, <1>9, <1>10, <1>11, <1>12 DEF Inv, ServerStep

LEMMA LostStep ==
  ASSUME UplinkAssumption, Inv, Lost, acked' = acked
  PROVE  ServerStep
<1>1. CASE conn = "open"
  <2>1. server' \in CloseConnection(server)
    BY <1>1 DEF Lost
  <2>2. Good(server') /\ Quiet(server, server')
    BY <2>1, CloseEffect DEF Inv, Good
  <2> QED BY <2>2, GoodStays DEF ServerStep, Effect
<1>2. CASE conn # "open"
  BY <1>2, ServerSame DEF Lost, Inv
<1> QED BY <1>1, <1>2

LEMMA NothingStep ==
  ASSUME UplinkAssumption, Inv, RecvNothing
  PROVE  Inv' /\ ServerStep
<1>1. uplink /\ conn = "open"
  BY ReadingIsUp DEF RecvNothing, Reading
<1>2. CASE UNCHANGED <<conn, uplink, server>>
  <2>1. ServerStep
    BY <1>2, ServerSame DEF RecvNothing, Inv, netVars
  <2>2. Outside' /\ Whole'
    BY <1>2, WholeStays DEF RecvNothing, Inv, Outside, netVars
  <2>3. Control'
    BY <1>1, <1>2 DEF RecvNothing, Control
  <2> QED BY <2>1, <2>2, <2>3 DEF Inv, ServerStep
<1>3. CASE Lost
  <2>1. ServerStep
    BY <1>3, LostStep DEF RecvNothing, netVars
  <2>2. Outside' /\ Whole'
    BY <1>3, WholeStays DEF RecvNothing, Inv, Outside, Lost, netVars
  <2>3. Control'
    BY <1>3 DEF RecvNothing, Control, Lost
  <2> QED BY <2>1, <2>2, <2>3 DEF Inv, ServerStep
<1> QED BY <1>2, <1>3 DEF RecvNothing

LEMMA ParseStep ==
  ASSUME UplinkAssumption, Inv, Parse
  PROVE  Inv' /\ ServerStep
<1> DEFINE x == ExtractOneLine(server.recvq)
           s == [server EXCEPT !.recvq = x.rest, !.parsed = Append(@, x.line)]
<1>1. uplink /\ proc = "up" /\ pc \in {"parse", "parse again"}
  BY DEF Parse, Inv, Outside, Control
<1>2. \/ server' \in CloseConnection(s) /\ conn' = "closed"
      \/ server' \in MaySend(s) /\ conn' = conn
  BY DEF Parse
<1>3. UNCHANGED <<proc, pc, uplink, read, acked, peer, offered>> /\ known' \in BOOLEAN
  BY DEF Parse, netVars, Inv, Outside
<1>4. /\ Shape(s) /\ s.sendq = server.sendq
      /\ s.wire = server.wire /\ s.lines = server.lines
  <2> DEFINE u == x.rest
             v == Append(server.parsed, x.line)
             a == [server EXCEPT !.recvq = u]
  <2>1. s = [a EXCEPT !.parsed = v]
    BY DEF Inv, Good, Queues, Shape
  <2> HIDE DEF u, v, s
  <2>2. /\ Shape(a) /\ a.sendq = server.sendq
        /\ a.wire = server.wire /\ a.lines = server.lines
    BY SetRecvq DEF Inv, Good, Queues
  <2> HIDE DEF a
  <2> QED BY <2>1, <2>2, SetParsed
<1> HIDE DEF s
<1>5. Good(s)
  BY <1>4 DEF Inv, Good, Queues, Room
<1>6. Good(server') /\ Effect(s, server')
  BY <1>2, <1>5, CloseEffect, MaySendEffect DEF Good, Effect
<1>7. Effect(server, server')
  BY <1>4, <1>6 DEF Effect, Quiet, Lined
<1>8. ServerStep
  BY <1>3, <1>6, <1>7, GoodStays DEF ServerStep
<1>9. Outside' /\ Whole'
  BY <1>2, <1>3, WholeStays DEF Inv, Outside
<1>10. Control'
  BY <1>1, <1>2, <1>3 DEF Inv, Control
<1> QED BY <1>8, <1>9, <1>10 DEF Inv, ServerStep

LEMMA ParseDoneStep ==
  ASSUME UplinkAssumption, Inv, ParseDone
  PROVE  Inv' /\ ServerStep
<1>1. uplink /\ proc = "up" /\ pc \in {"parse", "parse again"}
  BY DEF ParseDone, Inv, Outside, Control
<1>2. UNCHANGED <<proc, known, read, acked, peer, offered>>
  BY DEF ParseDone, netVars
<1>3. CASE conn = "open"
  <2>1. PICK r : server' = [server EXCEPT !.recvq = r]
    BY <1>3 DEF ParseDone
  <2>2. /\ Shape(server') /\ server'.sendq = server.sendq
        /\ server'.wire = server.wire /\ server'.lines = server.lines
    BY <2>1, SetRecvq DEF Inv, Good, Queues
  <2>3. Good(server')
    BY <2>2 DEF Inv, Good, Queues, Room
  <2>4. ServerStep
    BY <1>2, <2>2, <2>3, GoodStays, NoEffect DEF ServerStep, Effect, Inv, Good
  <2>5. conn' = conn /\ uplink' = uplink /\ pc' \in {"recv", "flush"}
    BY <1>3 DEF ParseDone
  <2>6. Outside' /\ Whole'
    BY <1>2, <2>5, WholeStays DEF Inv, Outside
  <2>7. Control'
    BY <1>1, <1>3, <2>5 DEF Control
  <2> QED BY <2>4, <2>6, <2>7 DEF Inv, ServerStep
<1>4. CASE conn # "open"
  <2>1. Lost /\ pc' = "flush"
    BY <1>4 DEF ParseDone
  <2>2. ServerStep
    BY <1>2, <2>1, LostStep
  <2>3. Outside' /\ Whole'
    BY <1>2, <2>1, WholeStays DEF Inv, Outside, Lost
  <2>4. Control'
    BY <2>1 DEF Control, Lost
  <2> QED BY <2>2, <2>3, <2>4 DEF Inv, ServerStep
<1> QED BY <1>3, <1>4

LEMMA FlushStep ==
  ASSUME UplinkAssumption, Inv, Flush
  PROVE  Inv' /\ ServerStep
<1>1. UNCHANGED <<conn, uplink, known, read, acked, peer, offered>> /\ pc' = "events"
  BY DEF Flush, netVars
<1>2. CASE uplink
  <2>1. server' \in SendQueuedWrite(server) /\ proc' = proc
    BY <1>2 DEF Flush, SendQueuedAll
  <2>2. Good(server') /\ Quiet(server, server')
    BY <2>1, WriteEffect DEF Inv, Good
  <2>3. ServerStep
    BY <1>1, <2>2, GoodStays DEF ServerStep, Effect
  <2>4. conn = "open"
    BY <1>2 DEF Flush, Inv, Control
  <2> QED BY <1>1, <1>2, <2>1, <2>3, <2>4, WholeStays DEF Inv, Outside, Control, ServerStep
<1>3. CASE ~uplink
  <2>1. proc' = "crashed" /\ server' = server
    BY <1>3 DEF Flush, SendQueuedAll
  <2>2. ServerStep
    BY <1>1, <2>1, ServerSame DEF Inv
  <2> QED BY <1>1, <1>3, <2>1, <2>2, WholeStays DEF Inv, Outside, Control, ServerStep
<1> QED BY <1>2, <1>3

LEMMA DieStep ==
  ASSUME UplinkAssumption, Inv, ServicesDie
  PROVE  Inv' /\ ServerStep
<1>1. UNCHANGED <<pc, conn, uplink, known, read, acked, peer, offered>> /\ pc = "select"
  BY DEF ServicesDie, netVars
<1>2. CASE uplink
  <2>1. server' \in SendQueuedWrite(server) /\ proc' = "exited"
    BY <1>2 DEF ServicesDie
  <2>2. Good(server') /\ Quiet(server, server')
    BY <2>1, WriteEffect DEF Inv, Good
  <2>3. ServerStep
    BY <1>1, <2>2, GoodStays DEF ServerStep, Effect
  <2> QED BY <1>1, <1>2, <2>1, <2>3, WholeStays DEF Inv, Outside, Control, ServerStep
<1>3. CASE ~uplink
  <2>1. proc' = "crashed" /\ server' = server
    BY <1>3 DEF ServicesDie
  <2>2. ServerStep
    BY <1>1, <2>1, ServerSame DEF Inv
  <2> QED BY <1>1, <1>3, <2>1, <2>2, WholeStays DEF Inv, Outside, Control, ServerStep
<1> QED BY <1>2, <1>3

\* The network leaves the queues alone.
LEMMA NetworkStep ==
  ASSUME UplinkAssumption, Inv, PeerReads \/ PeerSends \/ PeerCloses
  PROVE  Inv' /\ ServerStep
<1>1. UNCHANGED <<proc, pc, conn, uplink, known, server, read>>
  BY DEF PeerReads, PeerSends, PeerCloses
<1>2. Control'
  BY <1>1 DEF Inv, Control
<1>3. acked' \in {acked, Len(server.wire)}
  BY DEF PeerReads, PeerSends, PeerCloses
<1>4. Good(server)'
  <2>1. Len(server.wire) \in Nat
    BY LenProperties DEF Inv, Good, Queues
  <2>2. Room(server)'
    BY <1>1, <1>3, <2>1 DEF Inv, Good, Queues, Room, UplinkAssumption
  <2> QED BY <1>1, <2>2 DEF Inv, Good, Queues, Shape
<1>5. Effect(server, server')
  BY <1>1, NoEffect DEF Effect, Inv, Good
<1>6. Outside' /\ Whole'
  <2>1. CASE offered' = offered
    BY <1>1, <2>1, WholeStays DEF Inv, Outside, PeerReads, PeerSends, PeerCloses
  <2>2. CASE offered' # offered
    <3>1. offered < StreamLen /\ offered' = offered + UnitsPerLine /\ peer' = peer
      BY <2>2 DEF PeerReads, PeerSends, PeerCloses
    <3>2. PICK k \in Nat : offered = k * UnitsPerLine
      BY DEF Inv, Whole
    <3>3. /\ UnitsPerLine \in Nat \ {0} /\ Len(Script) \in Nat
          /\ StreamLen = Len(Script) * UnitsPerLine
      BY LenProperties DEF UplinkAssumption, StreamLen
    <3>4. \A a, b, u \in Nat : a >= b => a * u >= b * u
      OBVIOUS
    <3>5. k < Len(Script)
      BY <3>1, <3>2, <3>3, <3>4
    <3>6. (k + 1) * UnitsPerLine = offered + UnitsPerLine
      BY <3>2, <3>3
    <3>7. (k + 1) * UnitsPerLine <= StreamLen
      BY <3>3, <3>4, <3>5
    <3>8. offered \in Nat /\ read \in 0 .. offered /\ StreamLen \in Nat
      <4>1. StreamLen \in Nat
        BY StreamLenIsNat
      <4>2. offered \in 0 .. StreamLen /\ read \in 0 .. offered
        BY DEF Inv, Outside
      <4> QED BY <4>1, <4>2
    <3> DEFINE n == (k + 1) * UnitsPerLine
    <3>9. offered' = n /\ k + 1 \in Nat
      BY <3>1, <3>6
    <3>10. Whole'
      BY <3>9 DEF Whole
    <3>11. n = offered + UnitsPerLine /\ n <= StreamLen
      BY <3>6, <3>7
    <3> HIDE DEF n
    <3>12. offered' \in 0 .. StreamLen /\ read' \in 0 .. offered'
      BY <1>1, <3>3, <3>8, <3>9, <3>11
    <3> QED BY <1>1, <3>1, <3>10, <3>12 DEF Inv, Outside
  <2> QED BY <2>1, <2>2
<1> QED BY <1>2, <1>4, <1>5, <1>6 DEF Inv, ServerStep

LEMMA StutterStep ==
  ASSUME Inv, UNCHANGED vars
  PROVE  Inv'
BY DEF Inv, Outside, Good, Queues, Shape, Room, Whole, Control, vars

\* Every step keeps the invariant and has an effect on the queue, or none.
LEMMA InvNext ==
  ASSUME UplinkAssumption, Inv, Next
  PROVE  Inv' /\ ServerStep
BY EventsStep, ConnectStep, HandshakeStep, IntroduceStep, IdleStep, RecvStep, NothingStep,
   ParseStep, ParseDoneStep, FlushStep, DieStep, NetworkStep DEF Next, Loop

LEMMA Invariance == Spec => []Inv
<1> USE UplinkAssumption
<1>1. Init => Inv
  BY InvInit
<1>2. Inv /\ [Next]_vars => Inv'
  BY InvNext, StutterStep
<1> QED BY <1>1, <1>2, PTL DEF Spec

-----------------------------------------------------------------------------
\* Every variable of the connection keeps its type; send_message keeps the send
\* queue within the larger of its limits, and what waits in the socket buffer is
\* never more than it has room for.
THEOREM TypeCorrect == Spec => []TypeOK
BY Invariance, InvTypes, PTL

\* Outside read_packet me.uplink is NULL or a connection that is open: memset
\* and dead_link_on_write never leave a timer or callback a closed descriptor.
THEOREM OpenOrNull == Spec => []UplinkIsOpen
BY Invariance, InvOpen, PTL

\* An effect on the struct Server is a step of the promise.
LEMMA EffectIsStep ==
  ASSUME UplinkAssumption, Good(server), ServerStep
  PROVE  Stream!Step
<1>1. CASE Quiet(server, server')
  <2>1. PICK n \in 0 .. Len(server.sendq) :
           /\ server'.wire = server.wire \o SubSeq(server.sendq, 1, n)
           /\ server'.sendq \in {SubSeq(server.sendq, n + 1, Len(server.sendq)), << >>}
    BY <1>1 DEF Quiet, Passed
  <2>2. server.sendq \o << >> = server.sendq
    BY ConcatEmptySeq DEF Good, Queues
  <2> QED BY <1>1, <2>1, <2>2 DEF Quiet, Stream!Step
<1>2. CASE Lined(server, server')
  <2> DEFINE all == server.sendq \o Line(server.lines + 1)
  <2>1. PICK n \in 0 .. Len(all) :
           /\ server'.wire = server.wire \o SubSeq(all, 1, n)
           /\ server'.sendq \in {SubSeq(all, n + 1, Len(all)), << >>}
    BY <1>2 DEF Lined, Passed
  <2>2. Line(server.lines + 1) # << >>
    <3>1. 1 \in DOMAIN Line(server.lines + 1)
      BY DEF Line, UplinkAssumption
    <3> QED BY <3>1
  <2>3. Stream!Line(server.lines + 1) = Line(server.lines + 1)
    BY DEF Stream!Line, Line
  <2> QED BY <1>2, <2>1, <2>2, <2>3 DEF Lined, Stream!Step
<1> QED BY <1>1, <1>2 DEF ServerStep, Effect

\* The send queue implements UplinkStream, whatever the limits of send_message,
\* the socket buffer and what the other end does: no unit goes out twice, none
\* overtakes another, and what is lost is the end of the queue.
THEOREM QueueKeepsStream == Spec => StreamKept
<1> USE UplinkAssumption
<1>1. Init => Stream!Init
  BY DEF Init, Stream!Init, MakeServer
<1>2. Inv /\ [Next]_vars => [Stream!Step]_Stream!vars
  <2>1. CASE Next
    BY <2>1, InvNext, EffectIsStep DEF Inv
  <2>2. CASE UNCHANGED vars
    BY <2>2 DEF vars, Stream!vars
  <2> QED BY <2>1, <2>2
<1> QED BY <1>1, <1>2, Invariance, PTL DEF Spec, StreamKept, Stream!Spec

-----------------------------------------------------------------------------
(***************************************************************************)
(* The lines that arrive.                                                  *)
(***************************************************************************)

\* The units that can arrive.
Arrivals == {Unit(n) : n \in Nat}

LEMMA FirstOfNat ==
  ASSUME NEW T \in SUBSET Nat, T # {}
  PROVE  \E n \in T : \A k \in T : n <= k
<1>1. PICK n \in T : \A k \in T : ~ (<<k, n>> \in OpToRel(<, Nat))
  BY NatLessThanWellFounded, WFMin
<1>2. \A k \in T : ~ (k < n)
  BY <1>1 DEF OpToRel
<1> QED BY <1>2

LEMMA EolOrNot == ASSUME NEW u PROVE IsEol(u) = TRUE \/ IsEol(u) = FALSE
BY DEF IsEol

\* What From finds, and what it passes over.
LEMMA FromFinds ==
  ASSUME NEW q, Len(q) \in Nat, NEW i \in 1 .. Len(q) + 1, NEW eol \in BOOLEAN
  PROVE  /\ From(q, i, eol) \in i .. Len(q) + 1
         /\ \A j \in i .. From(q, i, eol) - 1 : IsEol(q[j]) = ~eol
         /\ From(q, i, eol) <= Len(q) => IsEol(q[From(q, i, eol)]) = eol
<1> DEFINE T == {j \in i .. Len(q) : IsEol(q[j]) = eol} \cup {Len(q) + 1}
           f == From(q, i, eol)
<1>1. T \in SUBSET Nat /\ T # {}
  OBVIOUS
<1>2. f = Min(T)
  BY DEF From
<1>3. f \in T /\ \A k \in T : f <= k
  BY <1>1, <1>2, FirstOfNat DEF Min
<1> HIDE DEF f
<1>4. f \in i .. Len(q) + 1
  BY <1>3
<1>5. ASSUME NEW j \in i .. f - 1 PROVE IsEol(q[j]) = ~eol
  <2>1. j \in i .. Len(q) /\ ~(f <= j)
    BY <1>4
  <2>2. j \notin T
    BY <1>3, <2>1
  <2>3. IsEol(q[j]) # eol
    BY <2>1, <2>2
  <2> QED BY <2>3, EolOrNot
<1>6. f <= Len(q) => IsEol(q[f]) = eol
  BY <1>3
<1> QED BY <1>4, <1>5, <1>6 DEF f

LEMMA EndsFinite ==
  ASSUME NEW q, Len(q) \in Nat, NEW k \in Nat
  PROVE  /\ IsFiniteSet(Ends(q)) /\ IsFiniteSet(Ends(q) \cap 1 .. k)
         /\ Cardinality(Ends(q)) \in Nat /\ Cardinality(Ends(q) \cap 1 .. k) \in Nat
<1>1. IsFiniteSet(2 .. Len(q))
  BY FS_Interval
<1>2. Ends(q) \subseteq 2 .. Len(q) /\ Ends(q) \cap 1 .. k \subseteq 2 .. Len(q)
  BY DEF Ends
<1>3. IsFiniteSet(Ends(q)) /\ IsFiniteSet(Ends(q) \cap 1 .. k)
  BY <1>1, <1>2, FS_Subset
<1> QED BY <1>3, FS_CardinalityType

\* Nothing ends in a run of line ends that follows the beginning or another.
LEMMA EolsEndNothing ==
  ASSUME NEW q, Len(q) \in Nat, NEW k \in 0 .. Len(q), NEW m \in k .. Len(q),
         k = 0 \/ IsEol(q[k]), \A i \in k + 1 .. m : IsEol(q[i])
  PROVE  Ends(q) \cap 1 .. m = Ends(q) \cap 1 .. k /\ (m = 0 \/ IsEol(q[m]))
<1>1. ASSUME NEW i \in Ends(q), i \in 1 .. m PROVE i \in 1 .. k
  <2> SUFFICES ASSUME i \notin 1 .. k PROVE FALSE
    OBVIOUS
  <2>1. i \in 2 .. Len(q) /\ ~IsEol(q[i - 1])
    BY DEF Ends
  <2>2. i - 1 \in k .. m /\ i - 1 # 0
    BY <1>1, <2>1
  <2>3. i - 1 = k \/ i - 1 \in k + 1 .. m
    BY <2>2
  <2> QED BY <2>1, <2>2, <2>3
<1>2. \A i \in 1 .. k : i \in 1 .. m
  OBVIOUS
<1>3. m = k \/ m \in k + 1 .. m
  OBVIOUS
<1> QED BY <1>1, <1>2, <1>3

\* The n-th line that was parsed is the n-th of q.
InOrder(q, p) ==
  \A n \in DOMAIN p : \E e \in Ends(q), a \in 1 .. Len(q) :
    a < e /\ IsLine(q, a, e) /\ p[n] = SubSeq(q, a, e - 1) /\ Cardinality(Ends(q) \cap 1 .. e) = n

\* What waits is what follows k, where m lines have ended.
WaitsAfter(q, r, m, k) ==
  /\ k = 0 \/ IsEol(q[k])
  /\ r = SubSeq(q, k + 1, Len(q))
  /\ Cardinality(Ends(q) \cap 1 .. k) = m

Arrived(s) ==
  /\ s.kept \in Seq(Arrivals) /\ s.parsed \in Seq(Seq(Arrivals))
  /\ InOrder(s.kept, s.parsed)
  /\ \E k \in 0 .. Len(s.kept) : WaitsAfter(s.kept, s.recvq, Len(s.parsed), k)

Done(s) == Len(s.parsed) = Cardinality(Ends(s.kept))

\* The queue has been read as far as it goes outside of parse_client_queued.
LinesInv == Arrived(server) /\ (pc \notin {"parse", "parse again"} => Done(server))

\* What was kept is the last of the stream that was read.
Streamed ==
  /\ Len(server.kept) <= read
  /\ \A i \in 1 .. Len(server.kept) : server.kept[i] = Unit(read - Len(server.kept) + i)

LEMMA LinesInvHandles == ASSUME LinesInv, Streamed PROVE LinesHandled
BY DEF LinesInv, Streamed, Arrived, InOrder, WaitsAfter, Done, LinesHandled

LEMMA NothingArrived ==
  ASSUME NEW t, t.recvq = << >>, t.kept = << >>, t.parsed = << >>
  PROVE  Arrived(t) /\ Done(t)
<1>1. /\ << >> \in Seq(Arrivals) /\ << >> \in Seq(Seq(Arrivals))
      /\ Len(t.kept) = 0 /\ Len(t.parsed) = 0 /\ DOMAIN t.parsed = {}
  BY EmptySeq
<1>2. Ends(t.kept) = {}
  BY <1>1 DEF Ends
<1>3. Ends(t.kept) \cap 1 .. 0 = {}
  BY <1>2
<1>4. Cardinality(Ends(t.kept)) = 0 /\ Cardinality(Ends(t.kept) \cap 1 .. 0) = 0
  BY <1>2, <1>3, FS_EmptySet
<1>5. SubSeq(t.kept, 0 + 1, Len(t.kept)) = << >>
  BY <1>1, SubSeqEmpty
<1>6. WaitsAfter(t.kept, t.recvq, Len(t.parsed), 0)
  BY <1>1, <1>4, <1>5 DEF WaitsAfter
<1>7. InOrder(t.kept, t.parsed)
  BY <1>1 DEF InOrder
<1> QED BY <1>1, <1>4, <1>6, <1>7 DEF Arrived, Done

SameIn(s, t) == t.recvq = s.recvq /\ t.kept = s.kept /\ t.parsed = s.parsed
NoneIn(t) == t.recvq = << >> /\ t.kept = << >> /\ t.parsed = << >>

\* What goes out leaves what has come in, or the link goes with all of it.
Kept(s, t) == SameIn(s, t) \/ NoneIn(t)

LEMMA KeptArrived ==
  ASSUME NEW s, NEW t, Kept(s, t), Arrived(s)
  PROVE  Arrived(t) /\ (Done(s) => Done(t))
<1>1. CASE SameIn(s, t)
  BY <1>1 DEF SameIn, Arrived, Done
<1>2. CASE NoneIn(t)
  BY <1>2, NothingArrived DEF NoneIn
<1> QED BY <1>1, <1>2 DEF Kept

LEMMA SetOut ==
  ASSUME NEW s, Shape(s), NEW x
  PROVE  /\ Shape([s EXCEPT !.sendq = x]) /\ SameIn(s, [s EXCEPT !.sendq = x])
         /\ Shape([s EXCEPT !.wire = x]) /\ SameIn(s, [s EXCEPT !.wire = x])
         /\ Shape([s EXCEPT !.lines = x]) /\ SameIn(s, [s EXCEPT !.lines = x])
BY DEF Shape, SameIn

\* What came in, of a struct Server.
In(s, r, q, p) == Shape(s) /\ s.recvq = r /\ s.kept = q /\ s.parsed = p

LEMMA SetIn ==
  ASSUME NEW s, NEW r, NEW q, NEW p, In(s, r, q, p), NEW x
  PROVE  /\ In([s EXCEPT !.recvq = x], x, q, p)
         /\ In([s EXCEPT !.kept = x], r, x, p)
         /\ In([s EXCEPT !.parsed = x], r, q, x)
BY DEF In, Shape

LEMMA SentKeeps ==
  ASSUME NEW s, Shape(s), NEW n
  PROVE  Shape(Sent(s, n)) /\ SameIn(s, Sent(s, n))
<1> DEFINE w == s.wire \o SubSeq(s.sendq, 1, n)
           q == SubSeq(s.sendq, n + 1, Len(s.sendq))
           a == [s EXCEPT !.wire = w]
<1>1. Sent(s, n) = [a EXCEPT !.sendq = q]
  BY DEF Sent, Shape
<1> HIDE DEF w, q
<1>2. Shape(a) /\ SameIn(s, a)
  BY SetOut
<1> HIDE DEF a
<1>3. Shape([a EXCEPT !.sendq = q]) /\ SameIn(a, [a EXCEPT !.sendq = q])
  BY <1>2, SetOut
<1> QED BY <1>1, <1>2, <1>3 DEF SameIn

LEMMA ClearedIsNone ==
  ASSUME NEW s, Shape(s)
  PROVE  Shape(Cleared(s)) /\ NoneIn(Cleared(s))
<1> DEFINE a == [s EXCEPT !.sendq = << >>]
           b == [a EXCEPT !.recvq = << >>]
           c == [b EXCEPT !.kept = << >>]
<1>1. Cleared(s) = [c EXCEPT !.parsed = << >>]
  BY DEF Cleared, Shape
<1>2. In(a, s.recvq, s.kept, s.parsed)
  BY SetOut DEF In, SameIn
<1> HIDE DEF a
<1>3. In(b, << >>, s.kept, s.parsed)
  BY <1>2, SetIn
<1> HIDE DEF b
<1>4. In(c, << >>, << >>, s.parsed)
  BY <1>3, SetIn
<1> HIDE DEF c
<1>5. In([c EXCEPT !.parsed = << >>], << >>, << >>, << >>)
  BY <1>4, SetIn
<1> QED BY <1>1, <1>5 DEF In, NoneIn

LEMMA WriteKeeps ==
  ASSUME NEW s, Shape(s), NEW t \in SendQueuedWrite(s)
  PROVE  Shape(t) /\ Kept(s, t)
<1>1. PICK n \in Takes(s) :
        t = IF n = Len(s.sendq) THEN Sent(s, n) ELSE DeadLinkOnWrite(Sent(s, n))
  BY DEF SendQueuedWrite
<1>2. Shape(Sent(s, n)) /\ SameIn(s, Sent(s, n))
  BY SentKeeps
<1>3. Shape(Cleared(Sent(s, n))) /\ NoneIn(Cleared(Sent(s, n)))
  BY <1>2, ClearedIsNone
<1> QED BY <1>1, <1>2, <1>3 DEF DeadLinkOnWrite, Kept

LEMMA CloseKeeps ==
  ASSUME NEW s, Shape(s), NEW t \in CloseConnection(s)
  PROVE  NoneIn(t)
BY WriteKeeps, ClearedIsNone DEF CloseConnection

LEMMA SendKeeps ==
  ASSUME NEW s, Shape(s), NEW t \in SendtoServer(s)
  PROVE  Shape(t) /\ Kept(s, t)
<1> DEFINE all == s.sendq \o Line(s.lines + 1)
           m   == s.lines + 1
           q   == [s EXCEPT !.sendq = @ \o Line(s.lines + 1), !.lines = @ + 1]
           a   == [s EXCEPT !.sendq = all]
<1>1. q = [a EXCEPT !.lines = m]
  BY DEF Shape
<1>2. t \in SendQueuedWrite(q) \/ t = q
  BY DEF SendtoServer
<1> HIDE DEF all, m, q
<1>3. Shape(a) /\ SameIn(s, a)
  BY SetOut
<1> HIDE DEF a
<1>4. Shape(q) /\ SameIn(s, q)
  BY <1>1, <1>3, SetOut DEF SameIn
<1>5. CASE t = q
  BY <1>4, <1>5 DEF Kept
<1>6. CASE t \in SendQueuedWrite(q)
  <2>1. Shape(t) /\ Kept(q, t)
    BY <1>4, <1>6, WriteKeeps
  <2> QED BY <2>1, <1>4 DEF Kept, SameIn
<1> QED BY <1>2, <1>5, <1>6

LEMMA MaySendKeeps ==
  ASSUME NEW s, Shape(s), NEW t \in MaySend(s)
  PROVE  Kept(s, t)
<1>1. CASE t = s
  BY <1>1 DEF Kept, SameIn
<1>2. CASE t \in SendtoServer(s)
  BY <1>2, SendKeeps
<1> QED BY <1>1, <1>2 DEF MaySend

\* Two sequences of arrivals, one after the other.
LEMMA MoreArrives ==
  ASSUME NEW q \in Seq(Arrivals), NEW g \in Seq(Arrivals), NEW k \in 0 .. Len(q)
  PROVE  /\ q \o g \in Seq(Arrivals) /\ Len(q \o g) = Len(q) + Len(g)
         /\ \A i \in 1 .. Len(q) : (q \o g)[i] = q[i]
         /\ Ends(q \o g) \cap 1 .. k = Ends(q) \cap 1 .. k
         /\ Ends(q) \subseteq Ends(q \o g)
         /\ SubSeq(q \o g, k + 1, Len(q \o g)) = SubSeq(q, k + 1, Len(q)) \o g
<1> DEFINE c == q \o g
<1>1. /\ c \in Seq(Arrivals) /\ Len(c) = Len(q) + Len(g)
      /\ \A i \in 1 .. Len(c) : c[i] = IF i <= Len(q) THEN q[i] ELSE g[i - Len(q)]
  BY ConcatProperties
<1>2. Len(q) \in Nat /\ Len(g) \in Nat /\ k \in Nat /\ k <= Len(q)
  BY LenProperties
<1>3. \A i \in 1 .. Len(q) : c[i] = q[i]
  BY <1>1, <1>2
<1> HIDE DEF c
<1>4. \A i \in 1 .. Len(q) : i \in Ends(c) <=> i \in Ends(q)
  <2>1. \A i \in 2 .. Len(q) : i \in 2 .. Len(c) /\ c[i] = q[i] /\ c[i - 1] = q[i - 1]
    BY <1>1, <1>2, <1>3
  <2>2. \A i \in 1 .. Len(q) : i # 1 => i \in 2 .. Len(q)
    BY <1>2
  <2> QED BY <2>1, <2>2 DEF Ends
<1>5. Ends(c) \cap 1 .. k = Ends(q) \cap 1 .. k
  BY <1>2, <1>4
<1>6. Ends(q) \subseteq Ends(c)
  BY <1>2, <1>4 DEF Ends
<1> DEFINE x == SubSeq(c, k + 1, Len(c))
           y == SubSeq(q, k + 1, Len(q))
<1>7. /\ x \in Seq(Arrivals) /\ Len(x) = Len(c) - (k + 1) + 1
      /\ \A i \in 1 .. Len(c) - (k + 1) + 1 : x[i] = c[k + 1 + i - 1]
  BY <1>1, <1>2, Part
<1>8. /\ y \in Seq(Arrivals) /\ Len(y) = Len(q) - (k + 1) + 1
      /\ \A i \in 1 .. Len(q) - (k + 1) + 1 : y[i] = q[k + 1 + i - 1]
  BY <1>2, Part
<1> HIDE DEF x, y
<1> DEFINE z == y \o g
<1>9. /\ z \in Seq(Arrivals) /\ Len(z) = Len(y) + Len(g)
      /\ \A i \in 1 .. Len(z) : z[i] = IF i <= Len(y) THEN y[i] ELSE g[i - Len(y)]
  <2>1. y \in Seq(Arrivals)
    BY <1>8
  <2> QED BY <2>1, ConcatProperties
<1> HIDE DEF z
<1>10. Len(x) = Len(z) /\ Len(x) = Len(q) + Len(g) - k /\ Len(y) = Len(q) - k
  BY <1>1, <1>2, <1>7, <1>8, <1>9
<1>11. ASSUME NEW i \in 1 .. Len(x) PROVE x[i] = z[i]
  <2>1. i \in Nat /\ 1 <= i /\ i <= Len(q) + Len(g) - k
    BY <1>2, <1>10
  <2>2. x[i] = c[k + i]
    <3>1. i \in 1 .. Len(c) - (k + 1) + 1 /\ k + 1 + i - 1 = k + i
      BY <2>1, <1>1, <1>2
    <3> QED BY <3>1, <1>7
  <2>3. c[k + i] = IF k + i <= Len(q) THEN q[k + i] ELSE g[k + i - Len(q)]
    <3>1. \A j \in 1 .. Len(c) : c[j] = IF j <= Len(q) THEN q[j] ELSE g[j - Len(q)]
      BY <1>1 DEF c
    <3>2. k + i \in 1 .. Len(c)
      BY <2>1, <1>1, <1>2
    <3> QED BY <3>1, <3>2
  <2>4. CASE k + i <= Len(q)
    <3>1. i \in 1 .. Len(q) - (k + 1) + 1 /\ k + 1 + i - 1 = k + i /\ i <= Len(y) /\ i \in 1 .. Len(z)
      BY <2>1, <2>4, <1>2, <1>10
    <3>2. y[i] = q[k + i]
      BY <3>1, <1>8
    <3> QED BY <2>2, <2>3, <2>4, <3>1, <3>2, <1>9
  <2>5. CASE ~(k + i <= Len(q))
    <3>1. ~(i <= Len(y)) /\ i \in 1 .. Len(z) /\ i - Len(y) = k + i - Len(q)
      BY <2>1, <2>5, <1>2, <1>10
    <3>2. z[i] = g[i - Len(y)]
      BY <3>1, <1>9
    <3> QED BY <2>2, <2>3, <2>5, <3>1, <3>2
  <2> QED BY <2>4, <2>5
<1>12. x = z
  BY <1>7, <1>9, <1>10, <1>11, SeqEqual
<1> QED BY <1>1, <1>3, <1>5, <1>6, <1>12 DEF c, x, y, z

\* The same part of two sequences that begin alike.
LEMMA PartAlike ==
  ASSUME NEW q \in Seq(Arrivals), NEW c \in Seq(Arrivals), Len(q) <= Len(c),
         \A i \in 1 .. Len(q) : c[i] = q[i],
         NEW a \in Nat, NEW b \in Nat, 1 <= a, a <= b + 1, b <= Len(q)
  PROVE  SubSeq(c, a, b) = SubSeq(q, a, b)
<1> DEFINE x == SubSeq(c, a, b)
           y == SubSeq(q, a, b)
<1>1. Len(q) \in Nat /\ Len(c) \in Nat
  BY LenProperties
<1>2. /\ x \in Seq(Arrivals) /\ Len(x) = b - a + 1
      /\ \A i \in 1 .. b - a + 1 : x[i] = c[a + i - 1]
  BY <1>1, Part
<1>3. /\ y \in Seq(Arrivals) /\ Len(y) = b - a + 1
      /\ \A i \in 1 .. b - a + 1 : y[i] = q[a + i - 1]
  BY Part
<1> HIDE DEF x, y
<1>4. ASSUME NEW i \in 1 .. Len(x) PROVE x[i] = y[i]
  <2>1. i \in 1 .. b - a + 1 /\ a + i - 1 \in 1 .. Len(q)
    BY <1>1, <1>2
  <2> QED BY <2>1, <1>2, <1>3
<1>5. x = y
  BY <1>2, <1>3, <1>4, SeqEqual
<1> QED BY <1>5 DEF x, y

\* recv puts more at the end of what was kept and of what waits.
LEMMA ReceivedArrives ==
  ASSUME NEW s, NEW t, Arrived(s), NEW g \in Seq(Arrivals),
         t.kept = s.kept \o g, t.recvq = s.recvq \o g, t.parsed = s.parsed
  PROVE  Arrived(t)
<1> DEFINE q == s.kept
           c == q \o g
           p == s.parsed
<1>1. PICK k \in 0 .. Len(q) : WaitsAfter(q, s.recvq, Len(p), k)
  BY DEF Arrived
<1>2. q \in Seq(Arrivals) /\ Len(q) \in Nat /\ Len(g) \in Nat /\ k \in Nat /\ InOrder(q, p)
  BY LenProperties DEF Arrived
<1>3. /\ c \in Seq(Arrivals) /\ Len(c) = Len(q) + Len(g)
      /\ \A i \in 1 .. Len(q) : c[i] = q[i]
      /\ Ends(q) \subseteq Ends(c)
  BY <1>2, MoreArrives
<1>4. \A j \in 0 .. Len(q) :
        /\ Ends(c) \cap 1 .. j = Ends(q) \cap 1 .. j
        /\ SubSeq(c, j + 1, Len(c)) = SubSeq(q, j + 1, Len(q)) \o g
  <2> TAKE j \in 0 .. Len(q)
  <2>1. q \in Seq(Arrivals)
    BY <1>2
  <2> HIDE DEF q
  <2> QED BY <2>1, MoreArrives
<1> HIDE DEF c, q, p
<1>5. WaitsAfter(c, s.recvq \o g, Len(p), k) /\ k \in 0 .. Len(c)
  <2>1. k = 0 \/ (k \in 1 .. Len(q) /\ IsEol(q[k]))
    BY <1>1, <1>2 DEF WaitsAfter
  <2>2. k = 0 \/ IsEol(c[k])
    BY <2>1, <1>3
  <2>3. k \in 0 .. Len(c)
    BY <1>2, <1>3
  <2> QED BY <1>1, <1>4, <2>2, <2>3 DEF WaitsAfter
<1>6. InOrder(c, p)
  <2> SUFFICES ASSUME NEW n \in DOMAIN p
               PROVE  \E e \in Ends(c), a \in 1 .. Len(c) :
                        /\ a < e /\ IsLine(c, a, e) /\ p[n] = SubSeq(c, a, e - 1)
                        /\ Cardinality(Ends(c) \cap 1 .. e) = n
    BY DEF InOrder
  <2>1. PICK e \in Ends(q), a \in 1 .. Len(q) :
          /\ a < e /\ IsLine(q, a, e) /\ p[n] = SubSeq(q, a, e - 1)
          /\ Cardinality(Ends(q) \cap 1 .. e) = n
    BY <1>2 DEF InOrder
  <2>2. e \in 2 .. Len(q) /\ a \in Nat /\ 1 <= a
    BY <1>2 DEF Ends
  <2>3. e \in Nat /\ e - 1 \in Nat /\ a <= (e - 1) + 1 /\ e - 1 <= Len(q) /\ e \in 0 .. Len(q)
        /\ a \in 1 .. Len(c) /\ Len(q) <= Len(c)
    BY <1>2, <1>3, <2>1, <2>2
  <2>4. SubSeq(c, a, e - 1) = SubSeq(q, a, e - 1)
    BY <1>2, <1>3, <2>2, <2>3, PartAlike
  <2>5. IsLine(c, a, e)
    <3>1. e \in Ends(c)
      BY <1>3
    <3>2. \A i \in a .. e - 1 : ~IsEol(c[i])
      <4>1. \A i \in a .. e - 1 : i \in 1 .. Len(q)
        BY <1>2, <2>2, <2>3
      <4> QED BY <4>1, <1>3, <2>1 DEF IsLine
    <3>3. a = 1 \/ IsEol(c[a - 1])
      <4>1. a = 1 \/ a - 1 \in 1 .. Len(q)
        BY <1>2, <2>2, <2>3
      <4> QED BY <4>1, <1>3, <2>1 DEF IsLine
    <3> QED BY <3>1, <3>2, <3>3 DEF IsLine
  <2> QED BY <1>3, <1>4, <2>1, <2>3, <2>4, <2>5
<1> QED BY <1>3, <1>5, <1>6 DEF Arrived, c, q, p

\* What extract_one_line looks at of what was kept: it skips line ends, then a
\* line goes up to the next line end, or the queue does.
Scanned(q, k, r, first, end, next) ==
  /\ r \in Seq(Arrivals) /\ Len(r) = Len(q) - k
  /\ first \in 1 .. Len(r) + 1 /\ end \in first .. Len(r) + 1 /\ next \in end .. Len(r) + 1
  /\ \A i \in k + 1 .. k + first - 1 : IsEol(q[i])
  /\ \A i \in k + first .. k + end - 1 : ~IsEol(q[i])
  /\ \A i \in k + end .. k + next - 1 : IsEol(q[i])
  /\ first <= Len(r) => ~IsEol(q[k + first])
  /\ end <= Len(r) => IsEol(q[k + end]) /\ first < end /\ end < next

LEMMA Scan ==
  ASSUME NEW q \in Seq(Arrivals), NEW k \in 0 .. Len(q), k = 0 \/ IsEol(q[k]),
         NEW r, r = SubSeq(q, k + 1, Len(q))
  PROVE  LET first == From(r, 1, FALSE)
             end   == From(r, first, TRUE)
             next  == From(r, end, FALSE)
         IN  Scanned(q, k, r, first, end, next)
<1> DEFINE first == From(r, 1, FALSE)
           end   == From(r, first, TRUE)
           next  == From(r, end, FALSE)
<1>1. Len(q) \in Nat /\ k \in Nat /\ k <= Len(q)
  BY LenProperties
<1>2. /\ r \in Seq(Arrivals) /\ Len(r) = Len(q) - (k + 1) + 1
      /\ \A i \in 1 .. Len(q) - (k + 1) + 1 : r[i] = q[k + 1 + i - 1]
  BY <1>1, Part
<1>3. Len(r) = Len(q) - k /\ Len(r) \in Nat
  BY <1>1, <1>2
<1>4. \A i \in 1 .. Len(r) : r[i] = q[k + i]
  <2> TAKE i \in 1 .. Len(r)
  <2>1. i \in 1 .. Len(q) - (k + 1) + 1 /\ k + 1 + i - 1 = k + i
    BY <1>1, <1>3
  <2> QED BY <2>1, <1>2
<1>5. /\ first \in 1 .. Len(r) + 1
      /\ \A j \in 1 .. first - 1 : IsEol(r[j]) = ~FALSE
      /\ first <= Len(r) => IsEol(r[first]) = FALSE
  <2>1. 1 \in 1 .. Len(r) + 1
    BY <1>3
  <2> QED BY <1>3, <2>1, FromFinds
<1> HIDE DEF first
<1>6. /\ end \in first .. Len(r) + 1
      /\ \A j \in first .. end - 1 : IsEol(r[j]) = ~TRUE
      /\ end <= Len(r) => IsEol(r[end]) = TRUE
  BY <1>3, <1>5, FromFinds
<1> HIDE DEF end
<1>7. /\ next \in end .. Len(r) + 1
      /\ \A j \in end .. next - 1 : IsEol(r[j]) = ~FALSE
      /\ next <= Len(r) => IsEol(r[next]) = FALSE
  <2>1. end \in 1 .. Len(r) + 1
    BY <1>3, <1>5, <1>6
  <2> QED BY <1>3, <2>1, FromFinds
<1> HIDE DEF next
<1>8. ASSUME NEW lo \in 1 .. Len(r) + 1, NEW hi \in lo .. Len(r) + 1, NEW b \in BOOLEAN,
             \A j \in lo .. hi - 1 : IsEol(r[j]) = b
      PROVE  \A i \in k + lo .. k + hi - 1 : IsEol(q[i]) = b
  <2> TAKE i \in k + lo .. k + hi - 1
  <2>1. i - k \in lo .. hi - 1 /\ i - k \in 1 .. Len(r) /\ k + (i - k) = i
    BY <1>1, <1>3
  <2> QED BY <2>1, <1>4, <1>8
<1>9. 1 \in 1 .. Len(r) + 1 /\ end \in 1 .. Len(r) + 1
  BY <1>3, <1>5, <1>6
<1>10. \A i \in k + 1 .. k + first - 1 : IsEol(q[i]) = TRUE
  BY <1>5, <1>8, <1>9
<1>11. \A i \in k + first .. k + end - 1 : IsEol(q[i]) = FALSE
  BY <1>5, <1>6, <1>8
<1>12. \A i \in k + end .. k + next - 1 : IsEol(q[i]) = TRUE
  BY <1>7, <1>8, <1>9
<1>13. first <= Len(r) => IsEol(q[k + first]) = FALSE
  <2>1. first <= Len(r) => first \in 1 .. Len(r)
    BY <1>3, <1>5
  <2> QED BY <2>1, <1>4, <1>5
<1>14. ASSUME end <= Len(r) PROVE IsEol(q[k + end]) = TRUE /\ first < end /\ end < next
  <2>1. end \in 1 .. Len(r) /\ first <= Len(r) /\ first <= end /\ end <= next
    BY <1>3, <1>5, <1>6, <1>7, <1>14
  <2>2. IsEol(q[k + end]) = TRUE
    BY <1>4, <1>6, <2>1
  <2>3. first # end
    BY <1>5, <1>6, <2>1
  <2>4. next # end
    BY <1>6, <1>7, <2>1
  <2> QED BY <1>3, <1>5, <1>6, <1>7, <2>1, <2>2, <2>3, <2>4
<1>15. Scanned(q, k, r, first, end, next)
  BY <1>2, <1>3, <1>5, <1>6, <1>7, <1>10, <1>11, <1>12, <1>13, <1>14 DEF Scanned
<1> QED BY <1>15 DEF first, end, next

\* The line extract_one_line returns is the next one, and what stays begins
\* after it.
LEMMA LineExtracted ==
  ASSUME NEW q \in Seq(Arrivals), NEW k \in 0 .. Len(q), NEW r, NEW m,
         WaitsAfter(q, r, m, k), ExtractOneLine(r).line # << >>
  PROVE  /\ ExtractOneLine(r).line \in Seq(Arrivals)
         /\ \E e \in Ends(q), a \in 1 .. Len(q) :
              /\ a < e /\ IsLine(q, a, e) /\ ExtractOneLine(r).line = SubSeq(q, a, e - 1)
              /\ Cardinality(Ends(q) \cap 1 .. e) = m + 1
         /\ \E j \in 0 .. Len(q) : WaitsAfter(q, ExtractOneLine(r).rest, m + 1, j)
<1> DEFINE first == From(r, 1, FALSE)
           end   == From(r, first, TRUE)
           next  == From(r, end, FALSE)
           a     == k + first
           e     == k + end
           j     == k + next - 1
<1>1. Len(q) \in Nat /\ k \in Nat /\ k <= Len(q) /\ r = SubSeq(q, k + 1, Len(q))
      /\ (k = 0 \/ IsEol(q[k])) /\ Cardinality(Ends(q) \cap 1 .. k) = m
  BY LenProperties DEF WaitsAfter
<1>0. Scanned(q, k, r, first, end, next)
  BY <1>1, Scan
<1> HIDE DEF first, end, next
<1>2. /\ r \in Seq(Arrivals) /\ Len(r) = Len(q) - k
      /\ first \in 1 .. Len(r) + 1 /\ end \in first .. Len(r) + 1
      /\ next \in end .. Len(r) + 1
      /\ \A i \in k + 1 .. k + first - 1 : IsEol(q[i])
      /\ \A i \in k + first .. k + end - 1 : ~IsEol(q[i])
      /\ \A i \in k + end .. k + next - 1 : IsEol(q[i])
      /\ first <= Len(r) => ~IsEol(q[k + first])
      /\ end <= Len(r) => IsEol(q[k + end]) /\ first < end /\ end < next
  BY <1>0 DEF Scanned
<1>3. /\ end <= Len(r)
      /\ ExtractOneLine(r).line = SubSeq(r, first, end - 1)
      /\ ExtractOneLine(r).rest = SubSeq(r, next, Len(r))
  BY DEF ExtractOneLine, first, end, next
<1>4. /\ first \in Nat /\ end \in Nat /\ next \in Nat /\ Len(r) \in Nat
      /\ 1 <= first /\ first < end /\ end < next /\ next <= Len(r) + 1
  BY <1>1, <1>2, <1>3
<1>N. /\ k \in Nat /\ Len(q) \in Nat /\ first \in Nat /\ end \in Nat /\ next \in Nat
      /\ 1 <= first /\ first < end /\ end < next /\ k + next <= Len(q) + 1
  BY <1>1, <1>2, <1>4
<1>5. /\ a \in 1 .. Len(q) /\ e \in 2 .. Len(q) /\ a < e /\ e - 1 \in a .. e - 1
      /\ j \in e .. Len(q) /\ j \in 0 .. Len(q) /\ a - 1 \in k .. Len(q) /\ a - 1 = k + first - 1
  BY <1>N
<1>6. e \in Ends(q)
  <2>1. \A i \in Nat : k + first <= i /\ i < k + end => ~IsEol(q[i])
    <3> TAKE i \in Nat
    <3>1. k + first <= i /\ i < k + end => i \in k + first .. k + end - 1
      BY <1>N
    <3> QED BY <3>1, <1>2
  <2>3. e - 1 \in Nat /\ k + first <= e - 1 /\ e - 1 < k + end
    BY <1>N
  <2>4. ~IsEol(q[e - 1])
    BY <2>1, <2>3
  <2>5. IsEol(q[k + end])
    BY <1>2, <1>3
  <2>2. ~IsEol(q[e - 1]) /\ IsEol(q[e])
    BY <2>4, <2>5
  <2> QED BY <2>2, <1>5 DEF Ends
<1>7. Ends(q) \cap 1 .. a - 1 = Ends(q) \cap 1 .. k /\ (a - 1 = 0 \/ IsEol(q[a - 1]))
  <2> DEFINE b == a - 1
  <2>1. b \in k .. Len(q) /\ \A i \in k + 1 .. b : IsEol(q[i])
    BY <1>2, <1>5
  <2> HIDE DEF b
  <2>2. Ends(q) \cap 1 .. b = Ends(q) \cap 1 .. k /\ (b = 0 \/ IsEol(q[b]))
    BY <1>1, <2>1, EolsEndNothing
  <2> QED BY <2>2 DEF b
<1>8. IsLine(q, a, e)
  BY <1>2, <1>5, <1>6, <1>7 DEF IsLine
<1>9. Ends(q) \cap 1 .. e = (Ends(q) \cap 1 .. k) \cup {e} /\ e \notin Ends(q) \cap 1 .. k
  <2>1. ASSUME NEW i \in Ends(q), i \in 1 .. e, i # e PROVE i \in 1 .. k
    <3>1. i \in Nat /\ i \in 1 .. e - 1 /\ IsEol(q[i])
      BY <2>1, <1>1, <1>5 DEF Ends
    <3>2. i \notin k + first .. k + end - 1
      BY <3>1, <1>2
    <3>3. i < k + first
      BY <3>1, <3>2, <1>N
    <3>4. i \in 1 .. a - 1
      BY <3>1, <3>3, <1>N
    <3> QED BY <3>4, <1>7
  <2>2. \A i \in 1 .. k : i \in 1 .. e /\ i # e
    BY <1>N
  <2>3. e \in 1 .. e
    BY <1>5
  <2> QED BY <2>1, <2>2, <2>3, <1>6
<1>10. Cardinality(Ends(q) \cap 1 .. e) = m + 1
  <2>1. IsFiniteSet(Ends(q) \cap 1 .. k)
    BY <1>1, EndsFinite
  <2> QED BY <1>1, <1>9, <2>1, FS_AddElement
<1>11. Ends(q) \cap 1 .. j = Ends(q) \cap 1 .. e /\ (j = 0 \/ IsEol(q[j]))
  <2>1. IsEol(q[e]) /\ e \in 0 .. Len(q)
    BY <1>2, <1>3, <1>5
  <2>2. \A i \in e + 1 .. j : i \in k + end .. k + next - 1
    BY <1>N
  <2>3. \A i \in e + 1 .. j : IsEol(q[i])
    BY <2>2, <1>2
  <2> HIDE DEF e, j
  <2> QED BY <1>1, <1>5, <2>1, <2>3, EolsEndNothing
<1>12. ExtractOneLine(r).line = SubSeq(q, a, e - 1)
  <2>1. end - 1 \in Nat /\ first <= (end - 1) + 1 /\ k + (end - 1) <= Len(q)
        /\ k + (end - 1) = e - 1
    BY <1>N
  <2> DEFINE b == end - 1
  <2> HIDE DEF b
  <2>2. SubSeq(SubSeq(q, k + 1, Len(q)), first, b) = SubSeq(q, k + first, k + b)
    <3>1. b \in Nat /\ first <= b + 1 /\ k + b <= Len(q)
      BY <2>1 DEF b
    <3> QED BY <1>N, <3>1, PartOfRest
  <2> QED BY <1>1, <1>3, <2>1, <2>2 DEF b
<1>13. ExtractOneLine(r).line \in Seq(Arrivals)
  <2>1. end - 1 \in Nat /\ first <= (end - 1) + 1 /\ end - 1 <= Len(r)
    BY <1>2, <1>3, <1>4
  <2> QED BY <1>2, <1>3, <1>4, <2>1, Part
<1>14. ExtractOneLine(r).rest = SubSeq(q, j + 1, Len(q))
  <2>1. k + Len(r) = Len(q) /\ k + next = j + 1
    BY <1>1, <1>2, <1>4
  <2> DEFINE b == Len(r)
  <2>2. b \in Nat /\ next <= b + 1 /\ k + b <= Len(q) /\ 1 <= next
    BY <1>4, <2>1, <1>N
  <2> HIDE DEF b
  <2>3. SubSeq(SubSeq(q, k + 1, Len(q)), next, b) = SubSeq(q, k + next, k + b)
    BY <1>N, <2>2, PartOfRest
  <2> QED BY <1>1, <1>3, <2>1, <2>3 DEF b
<1>15. WaitsAfter(q, ExtractOneLine(r).rest, m + 1, j)
  BY <1>10, <1>11, <1>14 DEF WaitsAfter
<1> QED BY <1>5, <1>6, <1>8, <1>10, <1>12, <1>13, <1>15

\* When extract_one_line returns 0 no line has ended in what waits.
LEMMA NothingExtracted ==
  ASSUME NEW q \in Seq(Arrivals), NEW k \in 0 .. Len(q), NEW r, NEW m,
         WaitsAfter(q, r, m, k), ExtractOneLine(r).line = << >>
  PROVE  /\ Cardinality(Ends(q)) = m
         /\ \E j \in 0 .. Len(q) : WaitsAfter(q, ExtractOneLine(r).rest, m, j)
<1> DEFINE first == From(r, 1, FALSE)
           end   == From(r, first, TRUE)
           next  == From(r, end, FALSE)
           j     == k + first - 1
<1>1. Len(q) \in Nat /\ k \in Nat /\ k <= Len(q) /\ r = SubSeq(q, k + 1, Len(q))
      /\ (k = 0 \/ IsEol(q[k])) /\ Cardinality(Ends(q) \cap 1 .. k) = m
  BY LenProperties DEF WaitsAfter
<1>0. Scanned(q, k, r, first, end, next)
  BY <1>1, Scan
<1> HIDE DEF first, end, next
<1>2. /\ r \in Seq(Arrivals) /\ Len(r) = Len(q) - k
      /\ first \in 1 .. Len(r) + 1 /\ end \in first .. Len(r) + 1
      /\ next \in end .. Len(r) + 1
      /\ \A i \in k + 1 .. k + first - 1 : IsEol(q[i])
      /\ \A i \in k + first .. k + end - 1 : ~IsEol(q[i])
      /\ \A i \in k + end .. k + next - 1 : IsEol(q[i])
      /\ first <= Len(r) => ~IsEol(q[k + first])
      /\ end <= Len(r) => IsEol(q[k + end]) /\ first < end /\ end < next
  BY <1>0 DEF Scanned
<1>3. /\ end <= Len(r) => ExtractOneLine(r).line = SubSeq(r, first, end - 1)
      /\ ~(end <= Len(r)) => ExtractOneLine(r).rest = SubSeq(r, first, Len(r))
  BY DEF ExtractOneLine, first, end, next
<1>N. /\ k \in Nat /\ Len(q) \in Nat /\ k <= Len(q) /\ Len(r) = Len(q) - k
      /\ first \in 1 .. Len(r) + 1 /\ end \in first .. Len(r) + 1
  BY <1>1, <1>2
<1>4. /\ first \in Nat /\ end \in Nat /\ Len(r) \in Nat /\ 1 <= first /\ first <= Len(r) + 1
      /\ first <= end /\ end <= Len(r) + 1
  BY <1>N
<1>5. ~(end <= Len(r))
  <2> SUFFICES ASSUME end <= Len(r) PROVE FALSE
    OBVIOUS
  <2>1. end - 1 \in Nat /\ first <= (end - 1) + 1 /\ end - 1 <= Len(r) /\ (end - 1) - first + 1 # 0
    BY <1>2, <1>4
  <2>2. Len(SubSeq(r, first, end - 1)) = (end - 1) - first + 1
    BY <1>2, <1>4, <2>1, Part
  <2>3. Len(<< >>) = 0
    BY EmptySeq
  <2> QED BY <1>3, <2>1, <2>2, <2>3
<1>6. end = Len(r) + 1 /\ k + end - 1 = Len(q) /\ j \in k .. Len(q) /\ j \in 0 .. Len(q)
  <2>2. end = Len(r) + 1
    BY <1>4, <1>5
  <2>3. k + end - 1 = Len(q)
    BY <1>N, <2>2
  <2>4. first - 1 \in 0 .. Len(r)
    BY <1>4
  <2>5. k + (first - 1) \in k .. Len(q) /\ k + (first - 1) \in 0 .. Len(q)
    BY <1>N, <2>4
  <2>6. j = k + (first - 1)
    BY <1>N
  <2> QED BY <2>2, <2>3, <2>5, <2>6
<1>7. Ends(q) \cap 1 .. j = Ends(q) \cap 1 .. k /\ (j = 0 \/ IsEol(q[j]))
  <2>1. \A i \in k + 1 .. j : IsEol(q[i])
    BY <1>2
  <2> HIDE DEF j
  <2> QED BY <1>1, <1>6, <2>1, EolsEndNothing
<1>8. Ends(q) = Ends(q) \cap 1 .. k
  <2>1. ASSUME NEW i \in Ends(q) PROVE i \in 1 .. j
    <3>1. i \in 2 .. Len(q) /\ IsEol(q[i])
      BY DEF Ends
    <3>2. i \notin k + first .. k + end - 1
      BY <3>1, <1>2
    <3> QED BY <3>1, <3>2, <1>N, <1>4, <1>6
  <2> QED BY <2>1, <1>7
<1>9. ExtractOneLine(r).rest = SubSeq(q, j + 1, Len(q))
  <2>1. k + Len(r) = Len(q) /\ k + first = j + 1
    BY <1>1, <1>2, <1>4
  <2> DEFINE b == Len(r)
  <2>2. b \in Nat /\ first <= b + 1 /\ k + b <= Len(q)
    BY <1>1, <1>4, <2>1
  <2> HIDE DEF b
  <2>3. SubSeq(SubSeq(q, k + 1, Len(q)), first, b) = SubSeq(q, k + first, k + b)
    BY <1>N, <1>4, <2>2, PartOfRest
  <2> QED BY <1>1, <1>3, <1>5, <2>1, <2>3 DEF b
<1>10. WaitsAfter(q, ExtractOneLine(r).rest, m, j)
  BY <1>1, <1>7, <1>9 DEF WaitsAfter
<1> QED BY <1>1, <1>6, <1>8, <1>10

\* A line is parsed and taken out of the queue.
LEMMA ParsedArrives ==
  ASSUME NEW s, NEW t, Arrived(s), ExtractOneLine(s.recvq).line # << >>,
         t.kept = s.kept, t.recvq = ExtractOneLine(s.recvq).rest,
         t.parsed = Append(s.parsed, ExtractOneLine(s.recvq).line)
  PROVE  Arrived(t)
<1> DEFINE q == s.kept
           p == s.parsed
           x == ExtractOneLine(s.recvq)
           l == x.line
           p2 == Append(p, l)
           m == Len(p) + 1
<1>1. PICK k \in 0 .. Len(q) : WaitsAfter(q, s.recvq, Len(p), k)
  BY DEF Arrived
<1>2. q \in Seq(Arrivals) /\ p \in Seq(Seq(Arrivals)) /\ Len(p) \in Nat /\ InOrder(q, p)
  BY LenProperties DEF Arrived
<1>3. /\ l \in Seq(Arrivals)
      /\ \E e \in Ends(q), a \in 1 .. Len(q) :
           /\ a < e /\ IsLine(q, a, e) /\ l = SubSeq(q, a, e - 1)
           /\ Cardinality(Ends(q) \cap 1 .. e) = m
      /\ \E j \in 0 .. Len(q) : WaitsAfter(q, x.rest, m, j)
  BY <1>1, <1>2, LineExtracted
<1> HIDE DEF q, p, l, m
<1>4. /\ p2 \in Seq(Seq(Arrivals)) /\ Len(p2) = m /\ p2[m] = l
      /\ \A n \in 1 .. Len(p) : p2[n] = p[n]
  BY <1>2, <1>3, AppendProperties DEF m
<1>5. DOMAIN p = 1 .. Len(p) /\ DOMAIN p2 = 1 .. m
  BY <1>2, <1>4, LenProperties
<1> HIDE DEF p2
<1>6. InOrder(q, p2)
  <2> SUFFICES ASSUME NEW n \in 1 .. m
               PROVE  \E e \in Ends(q), a \in 1 .. Len(q) :
                        /\ a < e /\ IsLine(q, a, e) /\ p2[n] = SubSeq(q, a, e - 1)
                        /\ Cardinality(Ends(q) \cap 1 .. e) = n
    BY <1>5 DEF InOrder
  <2>1. CASE n = m
    BY <2>1, <1>3, <1>4
  <2>2. CASE n # m
    <3>1. n \in 1 .. Len(p)
      BY <2>2, <1>2 DEF m
    <3> QED BY <3>1, <1>2, <1>4, <1>5 DEF InOrder
  <2> QED BY <2>1, <2>2
<1> QED BY <1>2, <1>3, <1>4, <1>6 DEF Arrived, q, p, p2, l

LEMMA KeptKeeps ==
  ASSUME LinesInv, Kept(server, server'), pc \notin {"parse", "parse again"} \/ pc' = pc
  PROVE  LinesInv'
<1>1. Arrived(server') /\ (Done(server) => Done(server'))
  BY KeptArrived DEF LinesInv
<1> QED BY <1>1 DEF LinesInv, Arrived, Done

LEMMA NoneKeeps == ASSUME NoneIn(server') PROVE LinesInv'
BY NothingArrived DEF NoneIn, LinesInv, Arrived, Done

LEMMA SameKeeps == ASSUME NEW s PROVE Kept(s, s)
BY DEF Kept, SameIn

LEMMA LostKeeps == ASSUME Inv, Lost PROVE Kept(server, server')
<1>1. Shape(server)
  BY DEF Inv, Good, Queues
<1> QED BY <1>1, CloseKeeps, SameKeeps DEF Lost, Kept

\* What recv got is put into buf_recvq.
Put(s, t, u, v) == t = [[s EXCEPT !.recvq = u] EXCEPT !.kept = v]

LEMMA RecvSets ==
  ASSUME NEW s, Shape(s), NEW u, NEW v, NEW t, Put(s, t, u, v)
  PROVE  In(t, u, v, s.parsed)
<1> DEFINE a == [s EXCEPT !.recvq = u]
<1>1. In(s, s.recvq, s.kept, s.parsed)
  BY DEF In
<1>2. In(a, u, s.kept, s.parsed)
  BY <1>1, SetIn
<1>3. t = [a EXCEPT !.kept = v]
  BY DEF Put
<1> HIDE DEF a
<1> QED BY <1>2, <1>3, SetIn

LEMMA RecvLines ==
  ASSUME StreamLen \in Nat, Inv, LinesInv, Streamed, Recv
  PROVE  LinesInv' /\ Streamed'
<1>1. \E n \in Nat :
        LET got == [i \in 1 .. n |-> Unit(read + i)]
        IN  /\ server' = [server EXCEPT !.recvq = @ \o got, !.kept = @ \o got]
            /\ pc' = IF n = ReadBuf THEN "parse again" ELSE "parse"
            /\ read' = read + n
  <2>1. PICK n \in 1 .. Min({ReadBuf, offered - read}) :
        LET got == [i \in 1 .. n |-> Unit(read + i)]
        IN  /\ server' = [server EXCEPT !.recvq = @ \o got, !.kept = @ \o got]
            /\ pc' = IF n = ReadBuf THEN "parse again" ELSE "parse"
            /\ read' = read + n
    BY DEF Recv
  <2>2. n \in Nat
    OBVIOUS
  <2> QED BY <2>1, <2>2
<1>7. PICK n \in Nat :
        LET got == [i \in 1 .. n |-> Unit(read + i)]
        IN  /\ server' = [server EXCEPT !.recvq = @ \o got, !.kept = @ \o got]
            /\ pc' = IF n = ReadBuf THEN "parse again" ELSE "parse"
            /\ read' = read + n
  BY <1>1
<1> DEFINE got == [i \in 1 .. n |-> Unit(read + i)]
<1>2. read \in Nat
  <2>1. offered \in 0 .. StreamLen /\ read \in 0 .. offered /\ StreamLen \in Nat
    BY DEF Inv, Outside
  <2> QED BY <2>1
<1>3. got \in Seq(Arrivals) /\ Len(got) = n /\ \A i \in 1 .. n : got[i] = Unit(read + i)
  <2>1. \A i \in 1 .. n : Unit(read + i) \in Arrivals
    BY <1>2 DEF Arrivals
  <2>2. got \in [1 .. n -> Arrivals]
    BY <2>1
  <2>3. got \in Seq(Arrivals)
    BY <2>2, SeqDef
  <2>4. DOMAIN got = 1 .. n
    OBVIOUS
  <2>5. Len(got) = n
    BY <2>3, <2>4, LenProperties
  <2> QED BY <2>3, <2>5
<1> DEFINE rq == server.recvq \o got
           kq == server.kept \o got
<1>4. Put(server, server', rq, kq) /\ pc' \in {"parse", "parse again"}
      /\ read' = read + n
  BY <1>7 DEF Put, Inv, Good, Queues, Shape
<1>5. Shape(server) /\ Arrived(server)
  BY DEF Inv, Good, Queues, LinesInv
<1> HIDE DEF got, rq, kq
<1>8. In(server', rq, kq, server.parsed)
  BY <1>4, <1>5, RecvSets
<1>6. Arrived(server')
  BY <1>3, <1>5, <1>8, ReceivedArrives DEF rq, kq, In
<1> DEFINE q == server.kept
<1>9. /\ q \in Seq(Arrivals) /\ Len(q) \in Nat /\ Len(q) <= read
      /\ \A i \in 1 .. Len(q) : q[i] = Unit(read - Len(q) + i)
  BY <1>5, LenProperties DEF Arrived, Streamed
<1> HIDE DEF q
<1>10. /\ Len(q \o got) = Len(q) + n
       /\ \A i \in 1 .. Len(q) + n : (q \o got)[i] = IF i <= Len(q) THEN q[i] ELSE got[i - Len(q)]
  BY <1>3, <1>9, ConcatProperties
<1>11. server'.kept = q \o got
  BY <1>8 DEF In, kq, q
<1>12. Streamed'
  <2> DEFINE c == server'.kept
  <2>3. Len(c) = Len(q) + n /\ read' = read + n
    BY <1>4, <1>10, <1>11
  <2>4. (read + n) - (Len(q) + n) = read - Len(q) /\ Len(q) + n <= read + n
    BY <1>2, <1>9
  <2>1. Len(c) = Len(q) + n /\ read' - Len(c) = read - Len(q) /\ Len(c) <= read'
    BY <2>3, <2>4
  <2>2. ASSUME NEW i \in 1 .. Len(q) + n PROVE c[i] = Unit((read - Len(q)) + i)
    <3>1. CASE i <= Len(q)
      <4>1. i \in 1 .. Len(q)
        BY <3>1, <1>9
      <4> QED BY <4>1, <1>9, <1>10, <1>11
    <3>2. CASE ~(i <= Len(q))
      <4>1. i - Len(q) \in 1 .. n /\ read + (i - Len(q)) = (read - Len(q)) + i
        BY <3>2, <1>2, <1>9
      <4> QED BY <3>2, <4>1, <1>3, <1>10, <1>11
    <3> QED BY <3>1, <3>2
  <2> QED BY <2>1, <2>2 DEF Streamed
<1> QED BY <1>4, <1>6, <1>12 DEF LinesInv, Arrived

LEMMA StreamedKeeps ==
  ASSUME StreamLen \in Nat, Inv, Streamed, read' = read, server'.kept \in {server.kept, << >>}
  PROVE  Streamed'
<1>1. read \in Nat
  <2>1. offered \in 0 .. StreamLen /\ read \in 0 .. offered
    BY DEF Inv, Outside
  <2> QED BY <2>1
<1>2. CASE server'.kept = server.kept
  BY <1>2 DEF Streamed
<1>3. CASE server'.kept = << >>
  <2>1. Len(<< >>) = 0
    BY EmptySeq
  <2> QED BY <1>1, <1>3, <2>1 DEF Streamed
<1> QED BY <1>2, <1>3

LEMMA ParseLines ==
  ASSUME Inv, LinesInv, Parse
  PROVE  LinesInv' /\ read' = read /\ server'.kept \in {server.kept, << >>}
<1> DEFINE x == ExtractOneLine(server.recvq)
           u == x.rest
           v == Append(server.parsed, x.line)
           s == [server EXCEPT !.recvq = x.rest, !.parsed = Append(@, x.line)]
           a == [server EXCEPT !.recvq = u]
<1>1. /\ x.line # << >> /\ pc' = pc /\ pc \in {"parse", "parse again"} /\ read' = read
      /\ server' \in CloseConnection(s) \/ server' \in MaySend(s)
  BY DEF Parse
<1>2. Shape(server)
  BY DEF Inv, Good, Queues
<1>3. s = [a EXCEPT !.parsed = v]
  BY DEF Inv, Good, Queues, Shape
<1> HIDE DEF s
<1>4. In(s, u, server.kept, v)
  <2>1. In(server, server.recvq, server.kept, server.parsed)
    BY <1>2 DEF In
  <2> HIDE DEF u, v
  <2>2. In(a, u, server.kept, server.parsed)
    BY <2>1, SetIn
  <2> HIDE DEF a
  <2> QED BY <1>3, <2>2, SetIn
<1>5. Arrived(s)
  BY <1>1, <1>4, ParsedArrives DEF LinesInv, In
<1>6. Kept(s, server')
  BY <1>1, <1>4, CloseKeeps, MaySendKeeps DEF Kept, In
<1>7. Arrived(server')
  BY <1>5, <1>6, KeptArrived
<1>8. server'.kept \in {server.kept, << >>}
  BY <1>4, <1>6 DEF Kept, SameIn, NoneIn, In
<1> QED BY <1>1, <1>7, <1>8 DEF LinesInv, Arrived

LEMMA ParseDoneLines ==
  ASSUME Inv, LinesInv, ParseDone
  PROVE  LinesInv' /\ read' = read /\ server'.kept \in {server.kept, << >>}
<1> DEFINE x == ExtractOneLine(server.recvq)
           q == server.kept
           m == Len(server.parsed)
<1>1. PICK k \in 0 .. Len(q) : WaitsAfter(q, server.recvq, m, k)
  BY DEF LinesInv, Arrived
<1>2. q \in Seq(Arrivals) /\ x.line = << >>
  BY DEF LinesInv, Arrived, ParseDone
<1>3. Cardinality(Ends(q)) = m /\ \E j \in 0 .. Len(q) : WaitsAfter(q, x.rest, m, j)
  <2> HIDE DEF q, m
  <2> QED BY <1>1, <1>2, NothingExtracted
<1>4. Done(server)
  BY <1>3 DEF Done
<1>7. read' = read
  BY DEF ParseDone
<1>5. CASE conn = "open"
  <2> DEFINE r == x.rest
  <2>1. server' = [server EXCEPT !.recvq = r]
    BY <1>5 DEF ParseDone
  <2>2. In(server, server.recvq, server.kept, server.parsed)
    BY DEF Inv, Good, Queues, In
  <2> HIDE DEF r
  <2>3. In([server EXCEPT !.recvq = r], r, server.kept, server.parsed)
    BY <2>2, SetIn
  <2>5. server'.recvq = r /\ server'.kept = server.kept /\ server'.parsed = server.parsed
    BY <2>1, <2>3 DEF In
  <2>4. Arrived(server') /\ Done(server')
    BY <1>3, <1>4, <2>5 DEF LinesInv, Arrived, Done, r
  <2> QED BY <1>7, <2>5, <2>4 DEF LinesInv, Arrived, Done
<1>6. CASE conn # "open"
  <2>1. Kept(server, server')
    BY <1>6, LostKeeps DEF ParseDone
  <2>2. Arrived(server') /\ Done(server')
    BY <1>4, <2>1, KeptArrived DEF LinesInv
  <2> QED BY <1>7, <2>1, <2>2 DEF LinesInv, Arrived, Done, Kept, SameIn, NoneIn
<1> QED BY <1>5, <1>6

\* What any other step keeps.
LEMMA QuietLines ==
  ASSUME StreamLen \in Nat, Inv, LinesInv, Streamed, Kept(server, server'),
         read' = read, pc \notin {"parse", "parse again"} \/ pc' = pc
  PROVE  LinesInv' /\ Streamed'
BY KeptKeeps, StreamedKeeps DEF Kept, SameIn, NoneIn

LEMMA LinesNext ==
  ASSUME StreamLen \in Nat, Inv, LinesInv, Streamed, Next
  PROVE  LinesInv' /\ Streamed'
<1>1. Shape(server)
  BY DEF Inv, Good, Queues
<1>2. CASE Events
  <2>1. Kept(server, server')
    BY <1>1, <1>2, MaySendKeeps, SameKeeps DEF Events
  <2> QED BY <1>2, <2>1, QuietLines DEF Events
<1>3. CASE Resolved \/ ConnectEvent
  BY <1>3, SameKeeps, QuietLines DEF Resolved, ConnectEvent
<1>4. CASE Handshake
  <2>1. PICK s \in SendtoServer(server) : server' \in SendQueuedWrite(s)
    BY <1>4 DEF Handshake
  <2>2. Shape(s) /\ Kept(server, s) /\ Kept(s, server')
    BY <1>1, <2>1, SendKeeps, WriteKeeps
  <2>3. Kept(server, server')
    BY <2>2 DEF Kept, SameIn, NoneIn
  <2> QED BY <1>4, <2>3, QuietLines DEF Handshake
<1>5. CASE Introduce
  BY <1>1, <1>5, SendKeeps, QuietLines DEF Introduce
<1>6. CASE SelectIdle
  BY <1>6, SameKeeps, QuietLines DEF SelectIdle
<1>7. CASE Recv
  BY <1>7, RecvLines
<1>8. CASE RecvNothing
  <2>1. Kept(server, server')
    BY <1>8, LostKeeps, SameKeeps DEF RecvNothing
  <2>2. pc \notin {"parse", "parse again"} /\ read' = read
    BY <1>8 DEF RecvNothing, Reading
  <2> QED BY <2>1, <2>2, QuietLines
<1>9. CASE Parse \/ ParseDone
  BY <1>9, ParseLines, ParseDoneLines, StreamedKeeps
<1>10. CASE Flush \/ ServicesDie
  <2>1. Kept(server, server')
    BY <1>1, <1>10, WriteKeeps, SameKeeps DEF Flush, SendQueuedAll, ServicesDie
  <2> QED BY <1>10, <2>1, QuietLines DEF Flush, ServicesDie
<1>11. CASE PeerReads \/ PeerSends \/ PeerCloses
  BY <1>11, SameKeeps, QuietLines DEF PeerReads, PeerSends, PeerCloses
<1> QED BY <1>2, <1>3, <1>4, <1>5, <1>6, <1>7, <1>8, <1>9, <1>10, <1>11 DEF Next, Loop

\* The lines services handle are the lines the uplink sent, for any script, any
\* size of the reads and wherever a write is refused or the link goes: the n-th
\* parsed is the n-th that was kept, in full, none is left when read_packet is
\* done, and they came over a connection that is open whenever me.uplink is set.
THEOREM LinesArrive == MCSpec => []LinesAsSent
<1> USE UplinkAssumption
<1>1. MCInit => Inv /\ LinesInv /\ Streamed
  <2> SUFFICES ASSUME MCInit PROVE Inv /\ LinesInv /\ Streamed
    OBVIOUS
  <2>1. Init
    BY DEF MCInit
  <2>2. Arrived(server) /\ Done(server)
    BY <2>1, NothingArrived DEF Init, MakeServer
  <2>3. Streamed
    BY <2>1, EmptySeq DEF Init, MakeServer, Streamed
  <2> QED BY <2>1, <2>2, <2>3, InvInit DEF LinesInv
<1>2. Inv /\ LinesInv /\ Streamed /\ [MCNext]_<<part, vars, rvars, nvars>> => Inv' /\ LinesInv' /\ Streamed'
  <2> SUFFICES ASSUME Inv, LinesInv, Streamed, [MCNext]_<<part, vars, rvars, nvars>> PROVE Inv' /\ LinesInv' /\ Streamed'
    OBVIOUS
  <2>1. CASE Next
    BY <2>1, InvNext, LinesNext, StreamLenIsNat
  <2>2. CASE UNCHANGED vars
    <3>1. Kept(server, server') /\ read' = read /\ pc' = pc
      BY <2>2, SameKeeps DEF vars
    <3> QED BY <2>2, <3>1, StutterStep, QuietLines, StreamLenIsNat
  <2> QED BY <2>1, <2>2 DEF MCNext
<1>3. Inv /\ LinesInv /\ Streamed => LinesAsSent
  BY InvTypes, InvOpen, LinesInvHandles DEF LinesAsSent
<1> QED BY <1>1, <1>2, <1>3, PTL DEF MCSpec

-----------------------------------------------------------------------------
(* The lookup of the uplink's host.                                        *)

Requests == [state : {"AAAA"}, type : {"AAAA", "A"}, id : Ids \cup {0},
             retries : Int, age : Int, timeout : Int]
Results == {R!Untold, R!Failed, R!Empty}
           \cup [is : {"address"}, of : Queries, type : {"AAAA", "A"}]

\* A lookup that has a result has no request, and the walk over the requests
\* meets none that is gone.
LookupsTyped ==
  /\ host \in [Queries -> {"name", "address", "bad"}]
  /\ request \in [Queries -> {R!NoRequest} \cup Requests]
  /\ result \in [Queries -> Results]
  /\ questions \subseteq [id : Ids, q : Queries, type : {"AAAA", "A"}]
  /\ due \subseteq R!Waiting
  /\ reused \in BOOLEAN
  /\ \A q \in Queries : result[q] # R!Untold => request[q] = R!NoRequest

\* The question that has the id of a request is one of that request.
IdsDistinguish ==
  ~reused => /\ \A m \in questions, q \in R!Waiting : request[q].id = m.id => m.q = q
             /\ \A q \in Queries : result[q].is = "address" => result[q].of = q

LEMMA NotARequest == R!NoRequest \notin Requests /\ R!Untold \notin Results \ {R!Untold}
<1>1. \A r \in Requests : r.state = "AAAA"
  BY DEF Requests
<1>2. R!NoRequest.state = "none"
  BY DEF R!NoRequest
<1> QED BY <1>1, <1>2

\* A question is asked for a lookup without a result.
LEMMA QuestionAsked ==
  ASSUME LookupsTyped, IdsDistinguish,
         NEW q \in Queries, NEW r \in Requests, NEW type \in {"AAAA", "A"},
         R!QueryName(q, r, type), result[q] = R!Untold, result' = result, host' = host,
         due' \subseteq R!Waiting
  PROVE  LookupsTyped' /\ IdsDistinguish'
<1>1. CASE host[q] = "bad"
  <2> DEFINE new == [r EXCEPT !.type = type]
  <2>1. /\ request' = [request EXCEPT ![q] = new] /\ questions' = questions
        /\ reused' = (reused \/ r.id \in R!Unanswered)
    BY <1>1 DEF R!QueryName
  <2>2. new \in Requests /\ new.id = r.id
    BY DEF Requests
  <2> HIDE DEF new
  <2>3. /\ request' \in [Queries -> {R!NoRequest} \cup Requests] /\ request'[q] = new
        /\ \A p \in Queries \ {q} : request'[p] = request[p]
    BY <2>1, <2>2 DEF LookupsTyped
  <2>4. R!Waiting' = R!Waiting \cup {q}
    BY <2>2, <2>3, NotARequest DEF R!Waiting, R!NoRequest
  <2>5. LookupsTyped'
    BY <2>1, <2>3, <2>4 DEF LookupsTyped
  <2>6. ASSUME ~reused', NEW m \in questions', NEW p \in R!Waiting', request'[p].id = m.id
        PROVE  m.q = p
    <3>1. ~reused /\ r.id \notin R!Unanswered
      BY <2>1, <2>6
    <3>2. CASE p = q
      BY <2>1, <2>2, <2>3, <2>6, <3>1, <3>2 DEF R!Unanswered
    <3>3. CASE p # q
      BY <2>1, <2>3, <2>4, <2>6, <3>1, <3>3 DEF IdsDistinguish, R!Waiting
    <3> QED BY <3>2, <3>3
  <2>7. IdsDistinguish'
    <3>1. ~reused' => ~reused
      BY <2>1 DEF LookupsTyped
    <3> QED BY <2>6, <3>1 DEF IdsDistinguish
  <2> QED BY <2>5, <2>7
<1>2. CASE host[q] # "bad"
  <2>1. PICK id \in R!FreeIds :
          /\ request' = [request EXCEPT ![q] = [r EXCEPT !.type = type, !.id = id]]
          /\ questions' = IF open THEN questions \cup {[id |-> id, q |-> q, type |-> type]} ELSE questions
          /\ reused' = (reused \/ id \in R!Unanswered)
    BY <1>2 DEF R!QueryName
  <2>2. id \in Ids /\ id \notin R!LiveIds
    BY <2>1 DEF R!FreeIds, R!Unanswered, LookupsTyped
  <2> DEFINE new == [r EXCEPT !.type = type, !.id = id]
             ask == [id |-> id, q |-> q, type |-> type]
  <2>3. new \in Requests /\ new.id = id
    BY <2>2 DEF Requests
  <2>4. ask \in [id : Ids, q : Queries, type : {"AAAA", "A"}] /\ ask.id = id /\ ask.q = q
    BY <2>2
  <2>5. request' = [request EXCEPT ![q] = new] /\ questions' \subseteq questions \cup {ask}
    BY <2>1
  <2> HIDE DEF new, ask
  <2>6. /\ request' \in [Queries -> {R!NoRequest} \cup Requests] /\ request'[q] = new
        /\ \A p \in Queries \ {q} : request'[p] = request[p]
    BY <2>3, <2>5 DEF LookupsTyped
  <2>7. R!Waiting' = R!Waiting \cup {q}
    BY <2>3, <2>6, NotARequest DEF R!Waiting, R!NoRequest
  <2>8. LookupsTyped'
    <3>1. reused' \in BOOLEAN
      BY <2>1
    <3>2. questions' \subseteq [id : Ids, q : Queries, type : {"AAAA", "A"}]
      BY <2>4, <2>5 DEF LookupsTyped
    <3> QED BY <2>6, <2>7, <3>1, <3>2 DEF LookupsTyped
  <2>9. ASSUME ~reused', NEW m \in questions', NEW p \in R!Waiting', request'[p].id = m.id
        PROVE  m.q = p
    <3>1. ~reused /\ id \notin R!Unanswered
      BY <2>1, <2>9
    <3>2. m = ask \/ (m \in questions /\ m.id # id)
      BY <2>5, <2>9, <3>1 DEF R!Unanswered
    <3>3. CASE p = q
      BY <2>3, <2>4, <2>6, <2>9, <3>2, <3>3
    <3>4. CASE p # q
      <4>1. p \in R!Waiting /\ request'[p] = request[p] /\ request[p].id # id
        BY <2>2, <2>6, <2>7, <2>9, <3>4 DEF R!Waiting, R!LiveIds
      <4> QED BY <2>4, <2>9, <3>1, <3>2, <4>1 DEF IdsDistinguish
    <3> QED BY <3>3, <3>4
  <2>10. IdsDistinguish'
    <3>1. ~reused' => ~reused
      BY <2>1 DEF LookupsTyped
    <3> QED BY <2>9, <3>1 DEF IdsDistinguish
  <2> QED BY <2>8, <2>10
<1> QED BY <1>1, <1>2

\* A lookup ends with an address of its own, or with none.
LEMMA LookupEnded ==
  ASSUME LookupsTyped, IdsDistinguish,
         NEW q \in Queries, NEW what \in Results \ {R!Untold}, R!Finish(q, what),
         ~reused /\ what.is = "address" => what.of = q,
         questions' = questions, reused' = reused, host' = host, due' \subseteq R!Waiting \ {q}
  PROVE  LookupsTyped' /\ IdsDistinguish'
<1>1. result' = [result EXCEPT ![q] = what] /\ request' = [request EXCEPT ![q] = R!NoRequest]
  BY DEF R!Finish
<1>2. R!Waiting' = R!Waiting \ {q}
  BY <1>1 DEF R!Waiting, LookupsTyped
<1>3. LookupsTyped'
  BY <1>1, <1>2 DEF LookupsTyped, R!Untold, R!NoRequest
<1>4. IdsDistinguish'
  <2> SUFFICES ASSUME ~reused PROVE IdsDistinguish'
    BY DEF IdsDistinguish
  <2>1. \A m \in questions, p \in R!Waiting' : request'[p].id = m.id => m.q = p
    BY <1>1, <1>2 DEF IdsDistinguish, R!Waiting, LookupsTyped
  <2>2. \A p \in Queries : result'[p].is = "address" => result'[p].of = p
    BY <1>1 DEF IdsDistinguish, LookupsTyped
  <2> QED BY <2>1, <2>2 DEF IdsDistinguish
<1> QED BY <1>3, <1>4

\* A lookup with a request has no result yet.
LEMMA StillUntold ==
  ASSUME LookupsTyped, NEW q \in Queries, request[q] # R!NoRequest
  PROVE  /\ result[q] = R!Untold /\ request[q] \in Requests /\ q \in R!Waiting
BY DEF LookupsTyped, R!Waiting

LEMMA ConnectKeeps ==
  ASSUME LookupsTyped, IdsDistinguish, NEW q \in Queries, R!Connect(q)
  PROVE  LookupsTyped' /\ IdsDistinguish'
<1> DEFINE own == R!Address([q |-> q, type |-> "A"])
<1>1. CASE host[q] = "address"
  <2>1. own \in Results /\ own.of = q
    BY DEF Results, R!Address
  <2>2. result' = [result EXCEPT ![q] = own]
        /\ UNCHANGED <<request, questions, reused, host, open, due>>
    BY <1>1 DEF R!Connect
  <2> HIDE DEF own
  <2>3. request[q] = R!NoRequest
    BY DEF R!Connect
  <2>4. LookupsTyped'
    BY <2>1, <2>2, <2>3 DEF LookupsTyped, R!Waiting
  <2>5. \A p \in Queries : result'[p] = IF p = q THEN own ELSE result[p]
    BY <2>2 DEF LookupsTyped
  <2>6. IdsDistinguish'
    BY <2>1, <2>2, <2>5 DEF IdsDistinguish, R!Waiting
  <2> QED BY <2>4, <2>6
<1>2. CASE host[q] # "address"
  <2>1. /\ R!QueryName(q, R!NewRequest, "AAAA") /\ result' = result
        /\ host' = host /\ due' = due /\ result[q] = R!Untold
    BY <1>2 DEF R!Connect
  <2>2. R!NewRequest \in Requests
    BY LookupAssumption DEF R!NewRequest, Requests, R!Retries
  <2>3. due' \subseteq R!Waiting
    BY <2>1 DEF LookupsTyped
  <2> QED BY <2>1, <2>2, <2>3, QuestionAsked
<1> QED BY <1>1, <1>2

LEMMA TickKeeps ==
  ASSUME LookupsTyped, IdsDistinguish, R!Tick
  PROVE  LookupsTyped' /\ IdsDistinguish'
<1>1. ASSUME NEW q \in R!Waiting
      PROVE  /\ request'[q] = [request[q] EXCEPT !.age = request[q].age + 1]
             /\ request'[q] \in Requests /\ request'[q].id = request[q].id
  <2>1. request'[q] = [request[q] EXCEPT !.age = request[q].age + 1]
    BY DEF R!Tick, R!Waiting
  <2>2. request[q] \in Requests
    BY DEF LookupsTyped, R!Waiting
  <2>3. request[q].age + 1 \in Int
    BY <2>2 DEF Requests
  <2> QED BY <2>1, <2>2, <2>3 DEF Requests
<1>2. \A q \in Queries \ R!Waiting : request'[q] = R!NoRequest /\ request[q] = R!NoRequest
  BY DEF R!Tick, R!Waiting
<1>3. request' \in [Queries -> {R!NoRequest} \cup Requests]
  <2>1. request' = [q \in Queries |-> request'[q]]
    BY DEF R!Tick
  <2>2. \A q \in Queries : request'[q] \in {R!NoRequest} \cup Requests
    BY <1>1, <1>2
  <2> QED BY <2>1, <2>2
<1>4. R!Waiting' = R!Waiting
  BY <1>1, <1>2, NotARequest DEF R!Waiting, R!NoRequest
<1>5. /\ UNCHANGED <<host, open, result, questions, reused>> /\ due' \subseteq R!Waiting
  BY DEF R!Tick
<1>6. LookupsTyped'
  BY <1>2, <1>3, <1>4, <1>5 DEF LookupsTyped, R!Waiting
<1>7. \A q \in R!Waiting : request'[q].id = request[q].id
  BY <1>1
<1>8. IdsDistinguish'
  BY <1>4, <1>5, <1>7 DEF IdsDistinguish
<1> QED BY <1>6, <1>8

LEMMA Postponed ==
  ASSUME NEW r \in Requests, NEW time \in Int
  PROVE  [r EXCEPT !.age = 0, !.timeout = time] \in Requests
<1> DEFINE young == [r EXCEPT !.age = 0]
<1>1. young \in Requests
  BY DEF Requests
<1>2. [young EXCEPT !.timeout = time] \in Requests
  <2> HIDE DEF young
  <2> QED BY <1>1 DEF Requests
<1> QED BY <1>2

LEMMA TimeoutKeeps ==
  ASSUME LookupsTyped, IdsDistinguish, NEW q \in Queries, R!TimeoutQuery(q)
  PROVE  LookupsTyped' /\ IdsDistinguish'
<1> DEFINE r == [request[q] EXCEPT !.retries = request[q].retries - 1]
           again == [r EXCEPT !.age = 0, !.timeout = r.timeout + r.timeout]
<1>1. q \in due /\ due' = due \ {q} /\ host' = host
  BY DEF R!TimeoutQuery
<1>2. result[q] = R!Untold /\ request[q] \in Requests
  BY <1>1, StillUntold DEF LookupsTyped, R!Waiting
<1>3. due' \subseteq R!Waiting \ {q}
  BY <1>1 DEF LookupsTyped
<1>4. r \in Requests
  <2>1. request[q].retries - 1 \in Int
    BY <1>2 DEF Requests
  <2> QED BY <1>2, <2>1 DEF Requests
<1>5. CASE r.retries = 0
  <2>1. R!Finish(q, R!Failed) /\ UNCHANGED <<questions, reused>>
    BY <1>5 DEF R!TimeoutQuery
  <2>2. R!Failed \in Results \ {R!Untold} /\ R!Failed.is # "address"
    BY DEF Results, R!Failed, R!Untold
  <2> QED BY <1>1, <1>3, <2>1, <2>2, LookupEnded
<1>6. CASE r.retries # 0
  <2>1. R!QueryName(q, again, "A") /\ result' = result
    BY <1>6 DEF R!TimeoutQuery, R!ResendQuery
  <2>2. again \in Requests
    <3> DEFINE time == r.timeout + r.timeout
    <3> HIDE DEF r
    <3>1. time \in Int
      BY <1>4 DEF Requests
    <3> QED BY <1>4, <3>1, Postponed
  <2> HIDE DEF again
  <2> QED BY <1>1, <1>2, <1>3, <2>1, <2>2, QuestionAsked
<1> QED BY <1>5, <1>6

LEMMA ReplyKeeps ==
  ASSUME LookupsTyped, IdsDistinguish, NEW m \in questions, NEW answer \in R!Answers,
         R!ReadReply(m, answer)
  PROVE  LookupsTyped' /\ IdsDistinguish'
<1>1. PICK q \in R!Waiting :
        /\ request[q].id = m.id
        /\ LET r == request[q]
               asks == r.state = "AAAA" /\ r.type = "AAAA"
           IN  CASE answer = "nxdomain" /\ asks ->
                      R!ResendQuery(q, [r EXCEPT !.timeout = r.timeout + FirstTimeout])
                      /\ UNCHANGED result
                 [] answer = "error" \/ (answer = "nxdomain" /\ ~asks) ->
                      R!Finish(q, R!Failed) /\ UNCHANGED <<questions, reused>>
                 [] OTHER -> /\ R!ProcAnswer(r, m, answer) # R!Untold
                             /\ R!Finish(q, R!ProcAnswer(r, m, answer))
                             /\ UNCHANGED <<questions, reused>>
  BY DEF R!ReadReply
<1>2. q \in Queries /\ host' = host /\ due' = due /\ due = {}
  BY DEF R!ReadReply, R!Waiting
<1>3. result[q] = R!Untold /\ request[q] \in Requests
  BY <1>2, StillUntold DEF R!Waiting
<1>4. due' \subseteq R!Waiting \ {q}
  BY <1>2
<1> DEFINE r == request[q]
           asks == r.state = "AAAA" /\ r.type = "AAAA"
           again == [r EXCEPT !.timeout = r.timeout + FirstTimeout]
           what == R!ProcAnswer(r, m, answer)
<1>5. CASE answer = "nxdomain" /\ asks
  <2>1. R!QueryName(q, again, "A") /\ result' = result
    BY <1>1, <1>5 DEF R!ResendQuery
  <2>2. r.timeout + FirstTimeout \in Int
    BY <1>3, LookupAssumption DEF Requests
  <2>3. again \in Requests
    BY <1>3, <2>2 DEF Requests
  <2> HIDE DEF again
  <2> QED BY <1>2, <1>3, <1>4, <2>1, <2>3, QuestionAsked
<1>6. CASE answer = "error" \/ (answer = "nxdomain" /\ ~asks)
  <2>1. R!Finish(q, R!Failed) /\ UNCHANGED <<questions, reused>>
    BY <1>1, <1>6
  <2>2. R!Failed \in Results \ {R!Untold} /\ R!Failed.is # "address"
    BY DEF Results, R!Failed, R!Untold
  <2> QED BY <1>2, <1>4, <2>1, <2>2, LookupEnded
<1>7. CASE answer # "error" /\ answer # "nxdomain"
  <2>1. what # R!Untold /\ R!Finish(q, what) /\ UNCHANGED <<questions, reused>>
    BY <1>1, <1>7
  <2>2. what = R!Empty \/ what = R!Address(m)
    BY <2>1 DEF R!ProcAnswer
  <2>3. m.q \in Queries /\ m.type \in {"AAAA", "A"}
    BY DEF LookupsTyped
  <2>4. what \in Results \ {R!Untold}
    BY <2>1, <2>2, <2>3 DEF Results, R!Address
  <2>5. ~reused /\ what.is = "address" => what.of = q
    <3>1. R!Empty.is # "address" /\ R!Address(m).of = m.q
      BY DEF R!Empty, R!Address
    <3>2. ~reused => m.q = q
      BY <1>1 DEF IdsDistinguish
    <3> QED BY <2>2, <3>1, <3>2
  <2> HIDE DEF what
  <2> QED BY <1>2, <1>4, <2>1, <2>4, <2>5, LookupEnded
<1> QED BY <1>5, <1>6, <1>7

LEMMA LookupsInvariant == R!Init /\ [][R!Next]_R!vars => [](LookupsTyped /\ IdsDistinguish)
<1>1. R!Init => LookupsTyped /\ IdsDistinguish
  <2> SUFFICES ASSUME R!Init PROVE LookupsTyped /\ IdsDistinguish
    OBVIOUS
  <2>1. LookupsTyped
    BY DEF R!Init, LookupsTyped, Results
  <2>2. IdsDistinguish
    BY DEF R!Init, IdsDistinguish, R!Untold
  <2> QED BY <2>1, <2>2
<1>2. LookupsTyped /\ IdsDistinguish /\ [R!Next]_R!vars => LookupsTyped' /\ IdsDistinguish'
  <2> SUFFICES ASSUME LookupsTyped, IdsDistinguish, [R!Next]_R!vars
               PROVE  LookupsTyped' /\ IdsDistinguish'
    OBVIOUS
  <2>1. ASSUME NEW q \in Queries, R!Connect(q) PROVE LookupsTyped' /\ IdsDistinguish'
    BY <2>1, ConnectKeeps
  <2>2. ASSUME NEW q \in Queries, R!TimeoutQuery(q) PROVE LookupsTyped' /\ IdsDistinguish'
    BY <2>2, TimeoutKeeps
  <2>3. CASE R!Tick
    BY <2>3, TickKeeps
  <2>4. ASSUME NEW m \in questions, NEW answer \in R!Answers, R!ReadReply(m, answer)
        PROVE  LookupsTyped' /\ IdsDistinguish'
    BY <2>4, ReplyKeeps
  <2>5. CASE UNCHANGED R!vars
    BY <2>5 DEF R!vars, LookupsTyped, IdsDistinguish, R!Waiting
  <2> QED BY <2>1, <2>2, <2>3, <2>4, <2>5 DEF R!Next
<1> QED BY <1>1, <1>2, PTL

\* A lookup ends with an address of the name it is about, whatever nameservers
\* answer, how late and how often, as long as no id is taken that a question
\* without an answer has; no answer finds a lookup that has ended.
THEOREM AnswersFindTheirLookup == MCSpec => []AnswersAreOwn
<1>1. MCInit => R!Init
  BY DEF MCInit
<1>2. [MCNext]_<<part, vars, rvars, nvars>> => [R!Next]_R!vars
  BY DEF MCNext, rvars, R!vars
<1>3. LookupsTyped /\ IdsDistinguish => AnswersAreOwn
  BY DEF LookupsTyped, IdsDistinguish, AnswersAreOwn, R!AnswersAreOwn
<1> QED BY <1>1, <1>2, <1>3, LookupsInvariant, PTL DEF MCSpec

-----------------------------------------------------------------------------
(* The servers and users services know of.  Trees first: what a server is   *)
(* reached through.                                                         *)

Trees == [Servers -> Servers \cup {Hub, Nowhere}]

\* What a server is linked to is there.
Rooted(t) == \A s \in Servers : t[s] \in Servers => t[t[s]] # Nowhere
IsIn(t, s) == s = Hub \/ (s \in Servers /\ t[s] # Nowhere)

LEMMA PathHas ==
  ASSUME NEW t, NEW s
  PROVE  /\ N!Path(t, s) \subseteq Servers
         /\ s \in Servers => s \in N!Path(t, s)
         /\ N!Upward(t, N!Path(t, s))
<1>1. N!Path(t, s) \subseteq Servers /\ (s \in Servers => s \in N!Path(t, s))
  BY DEF N!Path
<1>2. ASSUME NEW x \in N!Path(t, s), t[x] \in Servers PROVE t[x] \in N!Path(t, s)
  <2>1. ASSUME NEW X \in SUBSET Servers, {s} \cap Servers \subseteq X, N!Upward(t, X) PROVE t[x] \in X
    <3>1. x \in X
      BY <2>1 DEF N!Path
    <3> QED BY <1>2, <2>1, <3>1 DEF N!Upward
  <2> QED BY <1>2, <2>1 DEF N!Path
<1> QED BY <1>1, <1>2 DEF N!Upward

LEMMA PathLeast ==
  ASSUME NEW t, NEW s, NEW X \in SUBSET Servers, s \in X, N!Upward(t, X)
  PROVE  N!Path(t, s) \subseteq X
BY DEF N!Path

LEMMA PathOfHub == ASSUME NEW t, NEW s, s \notin Servers PROVE N!Path(t, s) = {}
<1>1. {s} \cap Servers \subseteq {} /\ N!Upward(t, {}) /\ {} \in SUBSET Servers
  BY DEF N!Upward
<1>2. \A p \in N!Path(t, s) : p \in {}
  BY <1>1 DEF N!Path
<1> QED BY <1>2

LEMMA PathUp ==
  ASSUME NEW t, NEW s, NEW x \in N!Path(t, s)
  PROVE  N!Path(t, x) \subseteq N!Path(t, s)
BY PathHas, PathLeast

LEMMA PathOfUplink ==
  ASSUME NEW t, NEW s \in Servers, t[s] \in Servers
  PROVE  N!Path(t, t[s]) \subseteq N!Path(t, s)
<1>1. t[s] \in N!Path(t, s)
  BY PathHas DEF N!Upward
<1> QED BY <1>1, PathUp

\* Trees that are alike on the way are alike there.
LEMMA PathSame ==
  ASSUME NEW t, NEW s, NEW v, \A x \in N!Path(t, s) : v[x] = t[x]
  PROVE  N!Path(v, s) = N!Path(t, s)
<1>1. CASE s \notin Servers
  BY <1>1, PathOfHub
<1>2. CASE s \in Servers
  <2>1. N!Upward(v, N!Path(t, s))
    BY PathHas DEF N!Upward
  <2>2. N!Path(v, s) \subseteq N!Path(t, s)
    BY <1>2, <2>1, PathHas, PathLeast
  <2>3. N!Upward(t, N!Path(v, s))
    BY <2>2, PathHas DEF N!Upward
  <2>4. N!Path(t, s) \subseteq N!Path(v, s)
    BY <1>2, <2>3, PathHas, PathLeast
  <2> QED BY <2>2, <2>4
<1> QED BY <1>1, <1>2

\* Whatever a server that is there is reached through is there.
LEMMA PathRoot ==
  ASSUME NEW t, Rooted(t), NEW s \in Servers, t[s] # Nowhere
  PROVE  \A x \in N!Path(t, s) : t[x] # Nowhere
<1> DEFINE X == {x \in Servers : t[x] # Nowhere}
<1>1. N!Upward(t, X) /\ s \in X /\ X \in SUBSET Servers
  BY DEF N!Upward, Rooted
<1> QED BY <1>1, PathLeast

\* A server that is linked to none of the servers is reached through itself.
LEMMA PathAlone ==
  ASSUME NEW t, NEW s \in Servers, t[s] \notin Servers
  PROVE  N!Path(t, s) = {s}
<1>1. N!Upward(t, {s})
  BY DEF N!Upward
<1> QED BY <1>1, PathLeast, PathHas

-----------------------------------------------------------------------------
(* The network as messages tell of it.                                     *)

Messages ==
  ({"sid"} \X (Servers \cup {Hub}) \X Servers) \cup ({"squit"} \X Servers)
  \cup ({"uid"} \X (Servers \cup {Hub}) \X Users \X Names)
  \cup ({"nick"} \X Users \X Names) \cup ({"quit"} \X Users) \cup {<<"eob">>}

\* A message of the tree, and a tree after it.
Fits(t, m) ==
  /\ m \in Messages
  /\ m[1] = "sid" => IsIn(t, m[2]) /\ t[m[3]] = Nowhere
  /\ m[1] = "uid" => IsIn(t, m[2])

After(t, m) ==
  IF m[1] = "sid" THEN [t EXCEPT ![m[3]] = m[2]]
  ELSE IF m[1] = "squit" THEN N!Without(t, N!Behind(t, m[2]))
  ELSE t

\* What a message is made of.
LEMMA MessageParts ==
  ASSUME NEW m \in Messages
  PROVE  /\ m[1] = "sid" => m[2] \in Servers \cup {Hub} /\ m[3] \in Servers
         /\ m[1] = "squit" => m[2] \in Servers
         /\ m[1] = "uid" => m[2] \in Servers \cup {Hub} /\ m[3] \in Users /\ m[4] \in Names
         /\ m[1] = "nick" => m[2] \in Users /\ m[3] \in Names
         /\ m[1] = "quit" => m[2] \in Users
         /\ m[1] \in {"sid", "squit", "uid", "nick", "quit", "eob"}
BY DEF Messages

LEMMA MessageKinds ==
  ASSUME NEW s \in Servers, NEW p \in Servers \cup {Hub}, NEW u \in Users, NEW n \in Names
  PROVE  /\ <<"sid", p, s>> \in Messages /\ <<"squit", s>> \in Messages
         /\ <<"uid", p, u, n>> \in Messages /\ <<"nick", u, n>> \in Messages
         /\ <<"quit", u>> \in Messages /\ <<"eob">> \in Messages
BY DEF Messages

\* The same servers are behind one that splits, on either tree.
LEMMA SplitKeeps ==
  ASSUME NEW t, NEW q, NEW s \in Servers, t[s] # Nowhere, s \notin N!Behind(t, q)
  PROVE  N!Path(t, s) \cap N!Behind(t, q) = {}
<1>1. ASSUME NEW x \in N!Path(t, s), x \in N!Behind(t, q) PROVE FALSE
  <2>1. q \in N!Path(t, x)
    BY <1>1 DEF N!Behind
  <2>2. q \in N!Path(t, s)
    BY <1>1, <2>1, PathUp
  <2> QED BY <2>2 DEF N!Behind
<1> QED BY <1>1

LEMMA AfterSound ==
  ASSUME NEW t \in Trees, Rooted(t), NEW m, Fits(t, m)
  PROVE  /\ After(t, m) \in Trees /\ Rooted(After(t, m))
         /\ \A s \in Servers : t[s] # Nowhere /\ After(t, m)[s] # Nowhere =>
              After(t, m)[s] = t[s] /\ N!Path(After(t, m), s) = N!Path(t, s)
<1>1. CASE m[1] = "sid"
  <2> DEFINE v == [t EXCEPT ![m[3]] = m[2]]
  <2>1. m[3] \in Servers /\ m[2] \in Servers \cup {Hub} /\ t[m[3]] = Nowhere /\ IsIn(t, m[2])
    BY <1>1, MessageParts DEF Fits
  <2>2. v \in Trees /\ v[m[3]] = m[2] /\ \A s \in Servers \ {m[3]} : v[s] = t[s]
    BY <2>1 DEF Trees
  <2>3. After(t, m) = v
    BY <1>1 DEF After
  <2> HIDE DEF v
  <2>4. Rooted(v)
    <3> SUFFICES ASSUME NEW s \in Servers, v[s] \in Servers PROVE v[v[s]] # Nowhere
      BY DEF Rooted
    <3>1. t[v[s]] # Nowhere
      BY <2>1, <2>2, NetworkAssumption DEF Rooted, IsIn
    <3> QED BY <2>1, <2>2, <3>1
  <2>5. ASSUME NEW s \in Servers, t[s] # Nowhere PROVE v[s] = t[s] /\ N!Path(v, s) = N!Path(t, s)
    <3>1. \A x \in N!Path(t, s) : x \in Servers /\ x # m[3]
      BY <2>1, <2>5, PathRoot, PathHas
    <3>2. \A x \in N!Path(t, s) : v[x] = t[x]
      BY <2>2, <3>1
    <3> QED BY <2>1, <2>2, <2>5, <3>2, PathSame
  <2> QED BY <2>2, <2>3, <2>4, <2>5
<1>2. CASE m[1] = "squit"
  <2> DEFINE gone == N!Behind(t, m[2])  v == N!Without(t, gone)
  <2>1. v \in Trees /\ \A s \in Servers : v[s] = IF s \in gone THEN Nowhere ELSE t[s]
    BY DEF Trees, N!Without
  <2>2. After(t, m) = v
    BY <1>2 DEF After
  <2> HIDE DEF v
  <2>3. ASSUME NEW s \in Servers, v[s] # Nowhere
        PROVE  v[s] = t[s] /\ t[s] # Nowhere /\ N!Path(t, s) \cap gone = {}
    <3>1. s \notin gone /\ v[s] = t[s]
      BY <2>1, <2>3
    <3> QED BY <2>3, <3>1, SplitKeeps
  <2>4. ASSUME NEW s \in Servers, v[s] # Nowhere
        PROVE  v[s] = t[s] /\ N!Path(v, s) = N!Path(t, s)
    <3>1. \A x \in N!Path(t, s) : v[x] = t[x]
      BY <2>1, <2>3, <2>4, PathHas
    <3> QED BY <2>3, <2>4, <3>1, PathSame
  <2>5. Rooted(v)
    <3> SUFFICES ASSUME NEW s \in Servers, v[s] \in Servers PROVE v[v[s]] # Nowhere
      BY DEF Rooted
    <3>1. v[s] = t[s] /\ N!Path(t, s) \cap gone = {}
      BY <2>3, NetworkAssumption
    <3>2. t[s] \in N!Path(t, s)
      BY <3>1, PathHas DEF N!Upward
    <3>3. t[t[s]] # Nowhere
      BY <3>1 DEF Rooted
    <3> QED BY <2>1, <3>1, <3>2, <3>3
  <2> QED BY <2>1, <2>2, <2>4, <2>5
<1>3. CASE m[1] \notin {"sid", "squit"}
  <2>1. After(t, m) = t
    BY <1>3 DEF After
  <2> QED BY <2>1
<1> QED BY <1>1, <1>2, <1>3

-----------------------------------------------------------------------------
(* What is under way, seen from the state services know of: the tree before *)
(* each message and after the last one, and where a user is meanwhile.      *)

Runs(w, last, P) ==
  /\ P \in [0 .. Len(w) -> Trees] /\ P[Len(w)] = last
  /\ \A i \in 0 .. Len(w) : Rooted(P[i])
  /\ \A i \in 1 .. Len(w) : Fits(P[i - 1], w[i]) /\ P[i] = After(P[i - 1], w[i])

Places == {N!Absent} \cup [server : Servers \cup {Hub}, name : Names]
Stands(t, a) == a = N!Absent \/ IsIn(t, a.server)

\* Where a message leaves the user u, who was at a on tree t.
Moved(a, t, m, u) ==
  IF m[1] = "uid" THEN IF m[3] = u THEN [server |-> m[2], name |-> m[4]] ELSE a
  ELSE IF m[1] = "nick" THEN IF m[2] = u /\ a # N!Absent THEN [a EXCEPT !.name = m[3]] ELSE a
  ELSE IF m[1] = "quit" THEN IF m[2] = u THEN N!Absent ELSE a
  ELSE IF m[1] = "squit" THEN IF a.server \in N!Behind(t, m[2]) THEN N!Absent ELSE a
  ELSE a

Tracks(w, P, u, first, last) ==
  \E A \in [0 .. Len(w) -> Places] :
    /\ A[0] = first /\ A[Len(w)] = last
    /\ \A i \in 0 .. Len(w) : Stands(P[i], A[i])
    /\ \A i \in 1 .. Len(w) : A[i] = Moved(A[i - 1], P[i - 1], w[i], u)

\* Without the first message.
Shift(w, P) == [i \in 0 .. Len(w) - 1 |-> P[i + 1]]

LEMMA TailOf ==
  ASSUME NEW w \in Seq(Messages), w # << >>
  PROVE  /\ Len(w) \in Nat \ {0} /\ Tail(w) \in Seq(Messages) /\ Len(Tail(w)) = Len(w) - 1
         /\ \A i \in 1 .. Len(w) - 1 : Tail(w)[i] = w[i + 1]
         /\ Head(w) = w[1] /\ Head(w) \in Messages
<1>1. Len(w) \in Nat /\ Len(w) # 0
  BY EmptySeq, LenProperties
<1>2. Tail(w) \in Seq(Messages) /\ Len(Tail(w)) = Len(w) - 1
  BY HeadTailProperties
<1>3. \A i \in 1 .. Len(w) - 1 : Tail(w)[i] = w[i + 1]
  BY <1>1, <1>2, HeadTailProperties
<1>4. Head(w) = w[1] /\ w[1] \in Messages
  BY <1>1, ElementOfSeq
<1> QED BY <1>1, <1>2, <1>3, <1>4

LEMMA RunTail ==
  ASSUME NEW w \in Seq(Messages), w # << >>, NEW last, NEW P, Runs(w, last, P)
  PROVE  /\ Runs(Tail(w), last, Shift(w, P))
         /\ Shift(w, P)[0] = After(P[0], Head(w))
         /\ Fits(P[0], Head(w)) /\ P[0] \in Trees /\ Rooted(P[0]) /\ Rooted(After(P[0], Head(w)))
<1> DEFINE n == Len(w)  v == Tail(w)  Q == Shift(w, P)
<1>1. /\ n \in Nat \ {0} /\ Len(v) = n - 1 /\ Head(w) = w[1]
      /\ \A i \in 1 .. n - 1 : v[i] = w[i + 1]
  BY TailOf
<1>2. /\ P \in [0 .. n -> Trees] /\ P[n] = last
      /\ \A i \in 0 .. n : Rooted(P[i])
      /\ \A i \in 1 .. n : Fits(P[i - 1], w[i]) /\ P[i] = After(P[i - 1], w[i])
  BY DEF Runs
<1>3. Q = [i \in 0 .. n - 1 |-> P[i + 1]]
  BY DEF Shift
<1> HIDE DEF n, v, Q
<1>4. \A i \in 0 .. n - 1 : i + 1 \in 1 .. n /\ i + 1 \in 0 .. n
  BY <1>1
<1>5. Q \in [0 .. n - 1 -> Trees]
  BY <1>1, <1>2, <1>3, <1>4
<1>6. Q[n - 1] = last /\ Q[0] = P[1]
  BY <1>1, <1>2, <1>3
<1>7. \A i \in 0 .. n - 1 : Rooted(Q[i])
  BY <1>2, <1>3, <1>4
<1>8. ASSUME NEW i \in 1 .. n - 1 PROVE Fits(Q[i - 1], v[i]) /\ Q[i] = After(Q[i - 1], v[i])
  <2>1. i \in 0 .. n - 1 /\ i - 1 \in 0 .. n - 1 /\ i + 1 \in 1 .. n /\ (i + 1) - 1 = i /\ (i - 1) + 1 = i
    BY <1>1
  <2>2. Q[i - 1] = P[i] /\ Q[i] = P[i + 1] /\ v[i] = w[i + 1]
    BY <1>1, <1>3, <2>1
  <2>3. Fits(P[i], w[i + 1]) /\ P[i + 1] = After(P[i], w[i + 1])
    BY <1>2, <2>1
  <2> QED BY <2>2, <2>3
<1>9. Fits(P[0], w[1]) /\ P[1] = After(P[0], w[1]) /\ P[0] \in Trees /\ Rooted(P[0]) /\ Rooted(P[1])
  <2>1. 1 \in 1 .. n /\ 0 \in 0 .. n /\ 1 \in 0 .. n /\ 1 - 1 = 0
    BY <1>1
  <2> QED BY <1>2, <2>1
<1>10. Runs(v, last, Q)
  BY <1>1, <1>5, <1>6, <1>7, <1>8 DEF Runs
<1> QED BY <1>1, <1>6, <1>9, <1>10 DEF v, Q

LEMMA RunAppend ==
  ASSUME NEW w \in Seq(Messages), NEW last, NEW P, Runs(w, last, P), NEW m, Fits(last, m)
  PROVE  \E Q : /\ Runs(Append(w, m), After(last, m), Q)
                /\ \A i \in 0 .. Len(w) : Q[i] = P[i]
<1> DEFINE n == Len(w)  v == Append(w, m)
           Q == [i \in 0 .. n + 1 |-> IF i = n + 1 THEN After(last, m) ELSE P[i]]
<1>1. /\ n \in Nat /\ Len(v) = n + 1 /\ v[n + 1] = m
      /\ \A i \in 1 .. n : v[i] = w[i]
  BY AppendProperties, LenProperties DEF Fits
<1>2. /\ P \in [0 .. n -> Trees] /\ P[n] = last
      /\ \A i \in 0 .. n : Rooted(P[i])
      /\ \A i \in 1 .. n : Fits(P[i - 1], w[i]) /\ P[i] = After(P[i - 1], w[i])
  BY DEF Runs
<1> HIDE DEF n, v
<1>3. last \in Trees /\ Rooted(last)
  BY <1>1, <1>2
<1>4. After(last, m) \in Trees /\ Rooted(After(last, m))
  BY <1>3, AfterSound
<1>5. Q[n + 1] = After(last, m) /\ \A i \in 0 .. n : Q[i] = P[i] /\ i # n + 1
  BY <1>1
<1>6. Q \in [0 .. n + 1 -> Trees]
  <2>1. \A i \in 0 .. n + 1 : i = n + 1 \/ i \in 0 .. n
    BY <1>1
  <2> QED BY <1>2, <1>4, <2>1
<1> HIDE DEF Q
<1>7. \A i \in 0 .. n + 1 : i = n + 1 \/ i \in 0 .. n
  BY <1>1
<1>8. \A i \in 0 .. n + 1 : Rooted(Q[i])
  BY <1>2, <1>4, <1>5, <1>7
<1>9. ASSUME NEW i \in 1 .. n + 1 PROVE Fits(Q[i - 1], v[i]) /\ Q[i] = After(Q[i - 1], v[i])
  <2>1. CASE i = n + 1
    <3>1. i - 1 = n /\ n \in 0 .. n
      BY <1>1, <2>1
    <3> QED BY <1>1, <1>2, <1>5, <2>1, <3>1
  <2>2. CASE i # n + 1
    <3>1. i \in 1 .. n /\ i \in 0 .. n /\ i - 1 \in 0 .. n
      BY <1>1, <2>2
    <3> QED BY <1>1, <1>2, <1>5, <3>1
  <2> QED BY <2>1, <2>2
<1>10. Runs(v, After(last, m), Q)
  BY <1>1, <1>5, <1>6, <1>8, <1>9 DEF Runs
<1> QED BY <1>5, <1>10 DEF n, v

LEMMA TrackTail ==
  ASSUME NEW w \in Seq(Messages), w # << >>, NEW P, NEW u, NEW first, NEW last,
         Tracks(w, P, u, first, last)
  PROVE  /\ Tracks(Tail(w), Shift(w, P), u, Moved(first, P[0], Head(w), u), last)
         /\ first \in Places /\ Stands(P[0], first)
<1> DEFINE n == Len(w)  v == Tail(w)  Q == Shift(w, P)
<1>1. /\ n \in Nat \ {0} /\ Len(v) = n - 1 /\ Head(w) = w[1]
      /\ \A i \in 1 .. n - 1 : v[i] = w[i + 1]
  BY TailOf
<1>2. PICK A \in [0 .. n -> Places] :
        /\ A[0] = first /\ A[n] = last
        /\ \A i \in 0 .. n : Stands(P[i], A[i])
        /\ \A i \in 1 .. n : A[i] = Moved(A[i - 1], P[i - 1], w[i], u)
  BY DEF Tracks
<1>3. Q = [i \in 0 .. n - 1 |-> P[i + 1]]
  BY DEF Shift
<1> DEFINE B == [i \in 0 .. n - 1 |-> A[i + 1]]
<1> HIDE DEF n, v, Q
<1>4. \A i \in 0 .. n - 1 : i + 1 \in 1 .. n /\ i + 1 \in 0 .. n
  BY <1>1
<1>5. B \in [0 .. n - 1 -> Places]
  BY <1>1, <1>2, <1>4
<1>6. B[n - 1] = last /\ B[0] = A[1]
  BY <1>1, <1>2
<1>7. \A i \in 0 .. n - 1 : Stands(Q[i], B[i])
  BY <1>2, <1>3, <1>4
<1>8. ASSUME NEW i \in 1 .. n - 1 PROVE B[i] = Moved(B[i - 1], Q[i - 1], v[i], u)
  <2>1. i \in 0 .. n - 1 /\ i - 1 \in 0 .. n - 1 /\ i + 1 \in 1 .. n /\ (i + 1) - 1 = i /\ (i - 1) + 1 = i
    BY <1>1
  <2>2. Q[i - 1] = P[i] /\ B[i] = A[i + 1] /\ B[i - 1] = A[i] /\ v[i] = w[i + 1]
    BY <1>1, <1>3, <2>1
  <2>3. A[i + 1] = Moved(A[i], P[i], w[i + 1], u)
    BY <1>2, <2>1
  <2> QED BY <2>2, <2>3
<1>9. A[1] = Moved(first, P[0], w[1], u) /\ first \in Places /\ Stands(P[0], first)
  <2>1. 1 \in 1 .. n /\ 0 \in 0 .. n /\ 1 - 1 = 0
    BY <1>1
  <2> QED BY <1>2, <2>1
<1> HIDE DEF B
<1>10. Tracks(v, Q, u, A[1], last)
  BY <1>1, <1>5, <1>6, <1>7, <1>8 DEF Tracks
<1> QED BY <1>1, <1>9, <1>10 DEF v, Q

LEMMA TrackAppend ==
  ASSUME NEW w \in Seq(Messages), NEW P, NEW Q, NEW u, NEW first, NEW last, NEW m \in Messages,
         Tracks(w, P, u, first, last),
         \A i \in 0 .. Len(w) : Q[i] = P[i],
         Moved(last, P[Len(w)], m, u) \in Places, Stands(Q[Len(w) + 1], Moved(last, P[Len(w)], m, u))
  PROVE  Tracks(Append(w, m), Q, u, first, Moved(last, P[Len(w)], m, u))
<1> DEFINE n == Len(w)  v == Append(w, m)  new == Moved(last, P[n], m, u)
<1>1. /\ n \in Nat /\ Len(v) = n + 1 /\ v[n + 1] = m
      /\ \A i \in 1 .. n : v[i] = w[i]
  BY AppendProperties, LenProperties
<1>2. PICK A \in [0 .. n -> Places] :
        /\ A[0] = first /\ A[n] = last
        /\ \A i \in 0 .. n : Stands(P[i], A[i])
        /\ \A i \in 1 .. n : A[i] = Moved(A[i - 1], P[i - 1], w[i], u)
  BY DEF Tracks
<1>3. /\ new \in Places /\ Stands(Q[n + 1], new) /\ \A i \in 0 .. n : Q[i] = P[i]
      /\ new = Moved(last, P[n], m, u)
  OBVIOUS
<1> DEFINE B == [i \in 0 .. n + 1 |-> IF i = n + 1 THEN new ELSE A[i]]
<1> HIDE DEF n, v, new
<1>4. \A i \in 0 .. n + 1 : i = n + 1 \/ i \in 0 .. n
  BY <1>1
<1>5. B \in [0 .. n + 1 -> Places]
  BY <1>2, <1>3, <1>4
<1>6. B[n + 1] = new /\ \A i \in 0 .. n : B[i] = A[i]
  BY <1>1
<1> HIDE DEF B
<1>7. \A i \in 0 .. n + 1 : Stands(Q[i], B[i])
  BY <1>2, <1>3, <1>4, <1>6
<1>8. ASSUME NEW i \in 1 .. n + 1 PROVE B[i] = Moved(B[i - 1], Q[i - 1], v[i], u)
  <2>1. CASE i = n + 1
    <3>1. i - 1 = n /\ n \in 0 .. n
      BY <1>1, <2>1
    <3> QED BY <1>1, <1>2, <1>3, <1>6, <2>1, <3>1
  <2>2. CASE i # n + 1
    <3>1. i \in 1 .. n /\ i \in 0 .. n /\ i - 1 \in 0 .. n
      BY <1>1, <2>2
    <3> QED BY <1>1, <1>2, <1>3, <1>6, <3>1
  <2> QED BY <2>1, <2>2
<1>9. B[0] = first
  BY <1>1, <1>2, <1>6
<1>10. Tracks(v, Q, u, first, new)
  BY <1>1, <1>5, <1>6, <1>7, <1>8, <1>9 DEF Tracks
<1> QED BY <1>10 DEF v, new, n

\* Who is gone stays so until the next message that connects him.
NoUid(w, u) == \A i \in 1 .. Len(w) : ~(w[i][1] = "uid" /\ w[i][3] = u)

LEMMA TrackGone ==
  ASSUME NEW w \in Seq(Messages), NEW P, NEW u, NoUid(w, u)
  PROVE  Tracks(w, P, u, N!Absent, N!Absent)
<1> DEFINE A == [i \in 0 .. Len(w) |-> N!Absent]
<1>1. Len(w) \in Nat
  BY LenProperties
<1>2. A \in [0 .. Len(w) -> Places] /\ A[0] = N!Absent /\ A[Len(w)] = N!Absent
  BY <1>1 DEF Places
<1>3. \A i \in 0 .. Len(w) : Stands(P[i], A[i])
  BY DEF Stands
<1>4. ASSUME NEW i \in 1 .. Len(w) PROVE A[i] = Moved(A[i - 1], P[i - 1], w[i], u)
  <2>1. A[i] = N!Absent /\ A[i - 1] = N!Absent
    BY <1>1
  <2>2. ~(w[i][1] = "uid" /\ w[i][3] = u)
    BY DEF NoUid
  <2> HIDE DEF A
  <2> QED BY <2>1, <2>2 DEF Moved
<1> HIDE DEF A
<1> QED BY <1>2, <1>3, <1>4 DEF Tracks

-----------------------------------------------------------------------------
(* What services know, next to a tree t of the network.                    *)

IsSeen(s) == seen[s] \notin {Nowhere, Me}

ServersAgree(t) ==
  \A s \in Servers :
    /\ IsSeen(s) => seen[s] = t[s]
    /\ t[s] # Nowhere /\ seen[s] # t[s] => N!Path(t, s) \cap cut # {}
    /\ s \in hidden => IsSeen(s)
    /\ seen[s] \in Servers => IsSeen(seen[s])

OwnJupes == {s \in Servers : seen[s] = Me} \cup hidden

SeenTyped ==
  /\ seen \in [Servers -> Servers \cup {Hub, Me, Nowhere}] /\ hidden \subseteq Servers
  /\ session \in [Users -> Places]
  /\ \A u \in Users : session[u] # N!Absent =>
       session[u].server = Hub \/ (session[u].server \in Servers /\ IsSeen(session[u].server))

\* Servers that are seen are seen where they are.
LEMMA SeenPath ==
  ASSUME NEW t, ServersAgree(t), NEW s \in Servers, IsSeen(s)
  PROVE  /\ N!Path(seen, s) = N!Path(t, s)
         /\ \A x \in N!Path(t, s) : IsSeen(x)
<1> DEFINE X == {x \in Servers : IsSeen(x)}
<1>1. N!Upward(seen, X) /\ s \in X /\ X \in SUBSET Servers
  BY DEF N!Upward, ServersAgree
<1>2. N!Path(seen, s) \subseteq X
  BY <1>1, PathLeast
<1>3. \A x \in N!Path(seen, s) : IsSeen(x) /\ t[x] = seen[x]
  BY <1>2 DEF ServersAgree
<1> QED BY <1>3, PathSame

LEMMA BehindSeen ==
  ASSUME NEW t, ServersAgree(t), SeenTyped, NEW q \in Servers, IsSeen(q)
  PROVE  N!Behind(seen, q) = {x \in N!Behind(t, q) : IsSeen(x)}
<1>1. ASSUME NEW x \in N!Behind(seen, q) PROVE x \in N!Behind(t, q) /\ IsSeen(x)
  <2>1. x \in Servers /\ seen[x] # Nowhere /\ q \in N!Path(seen, x)
    BY <1>1 DEF N!Behind
  <2>2. IsSeen(x)
    <3>1. CASE seen[x] = Me
      <4>1. N!Path(seen, x) = {x}
        BY <2>1, <3>1, PathAlone, NetworkAssumption
      <4> QED BY <2>1, <4>1
    <3> QED BY <2>1, <3>1 DEF IsSeen
  <2>3. q \in N!Path(t, x) /\ t[x] = seen[x]
    BY <2>1, <2>2, SeenPath DEF ServersAgree
  <2> QED BY <2>1, <2>2, <2>3 DEF N!Behind
<1>2. ASSUME NEW x \in N!Behind(t, q), IsSeen(x) PROVE x \in N!Behind(seen, q)
  <2>1. x \in Servers /\ q \in N!Path(t, x) /\ seen[x] # Nowhere
    BY <1>2 DEF N!Behind, IsSeen
  <2>2. q \in N!Path(seen, x)
    BY <1>2, <2>1, SeenPath
  <2> QED BY <2>1, <2>2 DEF N!Behind
<1> QED BY <1>1, <1>2

\* Nothing that is seen is behind a server that is not.
LEMMA BehindUnseen ==
  ASSUME NEW t, ServersAgree(t), NEW q \in Servers, ~IsSeen(q), NEW x \in Servers, IsSeen(x)
  PROVE  x \notin N!Behind(t, q) /\ q \notin N!Path(seen, x)
<1>1. N!Path(seen, x) = N!Path(t, x) /\ q \notin N!Path(t, x)
  BY SeenPath
<1> QED BY <1>1 DEF N!Behind

LEMMA BehindJupe ==
  ASSUME NEW t, ServersAgree(t), NEW q \in Servers, seen[q] = Me
  PROVE  N!Behind(seen, q) = {q}
<1>1. q \in N!Behind(seen, q)
  BY PathHas, NetworkAssumption DEF N!Behind
<1>2. ASSUME NEW x \in N!Behind(seen, q) PROVE x = q
  <2>1. x \in Servers /\ seen[x] # Nowhere /\ q \in N!Path(seen, x)
    BY <1>2 DEF N!Behind
  <2>2. CASE IsSeen(x)
    BY <2>1, <2>2, BehindUnseen DEF IsSeen
  <2>3. CASE seen[x] = Me
    <3>1. N!Path(seen, x) = {x}
      BY <2>1, <2>3, PathAlone, NetworkAssumption
    <3> QED BY <2>1, <3>1
  <2> QED BY <2>1, <2>2, <2>3 DEF IsSeen
<1> QED BY <1>1, <1>2

\* What is left when a server that is seen exits.
Exited(t, q) ==
  /\ \A x \in Servers :
       seen'[x] = IF IsSeen(x) /\ x \in N!Behind(t, q)
                  THEN IF x \in hidden THEN Me ELSE Nowhere
                  ELSE seen[x]
  /\ hidden' = hidden \ N!Behind(t, q)
  /\ \A u \in Users :
       session'[u] = IF session[u].server \in N!Behind(t, q) THEN N!Absent ELSE session[u]
  /\ jupes' = jupes /\ unset' = unset

LEMMA ExitSeen ==
  ASSUME NEW t, ServersAgree(t), SeenTyped, NEW q \in Servers, IsSeen(q), N!ExitServer(q)
  PROVE  Exited(t, q) /\ SeenTyped' /\ OwnJupes' = OwnJupes
<1> DEFINE gone == N!Behind(t, q)
<1>1. N!Dependents(q) = {x \in gone : IsSeen(x)} /\ gone \subseteq Servers
  BY BehindSeen DEF N!Dependents, N!Behind
<1>2. seen' = [x \in Servers |-> IF x \notin N!Dependents(q) THEN seen[x]
                                 ELSE IF x \in hidden THEN Me ELSE Nowhere]
      /\ hidden' = hidden \ N!Dependents(q) /\ session' = N!Emptied(session, N!Dependents(q))
      /\ jupes' = jupes /\ unset' = unset
  BY DEF N!ExitServer, N!Unhash, N!OnQuit, IsSeen
<1> HIDE DEF gone
<1>3. \A x \in hidden : x \in Servers /\ IsSeen(x)
  BY DEF ServersAgree, SeenTyped
<1>4. hidden' = hidden \ gone
  BY <1>1, <1>2, <1>3
<1>5. ASSUME NEW u \in Users
      PROVE  session'[u] = IF session[u].server \in gone THEN N!Absent ELSE session[u]
  <2>1. session'[u] = IF session[u].server \in N!Dependents(q) THEN N!Absent ELSE session[u]
    BY <1>2 DEF N!Emptied
  <2>2. CASE session[u] = N!Absent
    BY <2>1, <2>2
  <2>3. CASE session[u].server = Hub
    BY <1>1, <2>1, <2>3, NetworkAssumption
  <2>4. CASE session[u].server \in Servers /\ IsSeen(session[u].server)
    BY <1>1, <2>1, <2>4
  <2> QED BY <2>2, <2>3, <2>4 DEF SeenTyped
<1>6. \A x \in Servers : seen'[x] = IF IsSeen(x) /\ x \in gone
                                     THEN IF x \in hidden THEN Me ELSE Nowhere ELSE seen[x]
  BY <1>1, <1>2
<1>7. Exited(t, q)
  BY <1>2, <1>4, <1>5, <1>6 DEF Exited, gone
<1>8. OwnJupes' = OwnJupes
  BY <1>1, <1>3, <1>4, <1>6, NetworkAssumption DEF OwnJupes, IsSeen
<1>9. SeenTyped'
  <2>1. seen' \in [Servers -> Servers \cup {Hub, Me, Nowhere}] /\ hidden' \subseteq Servers
    BY <1>2 DEF SeenTyped
  <2>2. session' \in [Users -> Places]
    <3>1. session' = [u \in Users |-> IF session[u].server \in N!Dependents(q)
                                        THEN N!Absent ELSE session[u]]
      BY <1>2 DEF N!Emptied
    <3> QED BY <3>1 DEF SeenTyped, Places
  <2>3. ASSUME NEW u \in Users, session'[u] # N!Absent
        PROVE  session'[u].server = Hub \/ (session'[u].server \in Servers /\ IsSeen(session[u].server)')
    <3>1. session'[u] = session[u] /\ session[u].server \notin gone
      BY <1>5, <2>3
    <3>2. CASE session[u].server = Hub
      BY <3>1, <3>2
    <3>3. CASE session[u].server \in Servers /\ IsSeen(session[u].server)
      BY <1>6, <3>1, <3>3 DEF IsSeen
    <3> QED BY <2>3, <3>1, <3>2, <3>3 DEF SeenTyped
  <2> QED BY <2>1, <2>2, <2>3 DEF SeenTyped
<1> QED BY <1>7, <1>8, <1>9

LEMMA ExitJupe ==
  ASSUME NEW t, ServersAgree(t), SeenTyped, NEW q \in Servers, seen[q] = Me, N!ExitServer(q)
  PROVE  /\ seen' = [seen EXCEPT ![q] = Nowhere] /\ hidden' = hidden /\ session' = session
         /\ jupes' = jupes \ {q} /\ unset' = unset \ {q}
         /\ OwnJupes' = OwnJupes \ {q} /\ SeenTyped'
<1>1. q \notin hidden
  BY DEF ServersAgree, IsSeen
<1>2. seen' = [x \in Servers |-> IF x \notin {q} THEN seen[x]
                                 ELSE IF x \in hidden THEN Me ELSE Nowhere]
      /\ hidden' = hidden \ {q} /\ session' = N!Emptied(session, {q})
      /\ jupes' = jupes \ {q} /\ unset' = unset \ {q}
  BY BehindJupe DEF N!ExitServer, N!Unhash, N!OnQuit, N!Dependents
<1>3. seen' = [seen EXCEPT ![q] = Nowhere] /\ hidden' = hidden
  BY <1>1, <1>2 DEF SeenTyped
<1>4. session' = session
  <2>1. ASSUME NEW u \in Users PROVE (IF session[u].server \in {q} THEN N!Absent ELSE session[u]) = session[u]
    <3>1. CASE session[u] = N!Absent
      BY <3>1
    <3>2. CASE session[u] # N!Absent
      BY <3>2, NetworkAssumption DEF SeenTyped, IsSeen
    <3> QED BY <3>1, <3>2
  <2>2. session' = [u \in Users |-> IF session[u].server \in {q} THEN N!Absent ELSE session[u]]
    BY <1>2 DEF N!Emptied
  <2>3. session = [u \in Users |-> session[u]]
    BY DEF SeenTyped
  <2> QED BY <2>1, <2>2, <2>3
<1>5. \A x \in Servers : seen'[x] = IF x = q THEN Nowhere ELSE seen[x]
  BY <1>3 DEF SeenTyped
<1>6. OwnJupes' = OwnJupes \ {q}
  BY <1>1, <1>3, <1>5, NetworkAssumption DEF OwnJupes
<1>7. SeenTyped'
  <2>1. seen' \in [Servers -> Servers \cup {Hub, Me, Nowhere}]
    BY <1>3 DEF SeenTyped
  <2>2. \A x \in Servers : IsSeen(x) => IsSeen(x)'
    BY <1>5 DEF IsSeen
  <2> QED BY <1>3, <1>4, <2>1, <2>2 DEF SeenTyped
<1> QED BY <1>2, <1>3, <1>4, <1>6, <1>7

LEMMA ExitAgrees ==
  ASSUME NEW t \in Trees, Rooted(t), ServersAgree(t), SeenTyped,
         NEW q \in Servers, IsSeen(q), N!ExitServer(q)
  PROVE  /\ cut' = cut => ServersAgree(After(t, <<"squit", q>>))'
         /\ cut' = cut \cup {q} => ServersAgree(t)'
<1> DEFINE gone == N!Behind(t, q)
<1>1. /\ \A x \in Servers : seen'[x] = IF IsSeen(x) /\ x \in gone
                                       THEN IF x \in hidden THEN Me ELSE Nowhere ELSE seen[x]
      /\ hidden' = hidden \ gone
  BY ExitSeen DEF Exited
<1>2. gone \subseteq Servers /\ \A x \in gone : q \in N!Path(t, x)
  BY DEF N!Behind
<1>3. \A x \in Servers : t[x] \in Servers /\ t[x] \in gone => x \in gone
  <2> SUFFICES ASSUME NEW x \in Servers, t[x] \in Servers, t[x] \in gone PROVE x \in gone
    OBVIOUS
  <2>1. N!Path(t, t[x]) \subseteq N!Path(t, x)
    BY PathOfUplink
  <2> QED BY <1>2, <2>1, NetworkAssumption DEF N!Behind
<1> DEFINE v == After(t, <<"squit", q>>)
<1>4. \A x \in Servers : v[x] = IF x \in gone THEN Nowhere ELSE t[x]
  BY DEF After, N!Without
<1>5. \A x \in Servers : t[x] # Nowhere /\ v[x] # Nowhere => N!Path(v, x) = N!Path(t, x)
  <2>1. Fits(t, <<"squit", q>>)
    BY DEF Fits, Messages
  <2> QED BY <2>1, AfterSound
<1> HIDE DEF gone, v
<1>6. ASSUME NEW x \in Servers
      PROVE  /\ IsSeen(x)' => IsSeen(x) /\ x \notin gone /\ seen'[x] = seen[x] /\ seen[x] = t[x]
             /\ x \in hidden' => IsSeen(x)'
             /\ seen'[x] \in Servers => IsSeen(seen[x])'
  <2>1. IsSeen(x)' => IsSeen(x) /\ x \notin gone /\ seen'[x] = seen[x] /\ seen[x] = t[x]
    BY <1>1 DEF IsSeen, ServersAgree
  <2>2. x \in hidden' => IsSeen(x)'
    BY <1>1 DEF IsSeen, ServersAgree
  <2>3. ASSUME seen'[x] \in Servers PROVE IsSeen(seen[x])'
    <3>1. IsSeen(x)'
      BY <2>3, NetworkAssumption DEF IsSeen
    <3>2. seen'[x] = seen[x] /\ seen[x] = t[x] /\ x \notin gone
      BY <2>1, <3>1
    <3>3. IsSeen(seen[x]) /\ seen[x] \notin gone
      BY <1>3, <2>3, <3>2 DEF ServersAgree
    <3>4. seen'[seen[x]] = seen[seen[x]]
      BY <1>1, <2>3, <3>2, <3>3
    <3> QED BY <3>2, <3>3, <3>4 DEF IsSeen
  <2> QED BY <2>1, <2>2, <2>3
<1>7. ASSUME cut' = cut PROVE ServersAgree(v)'
  <2> SUFFICES ASSUME NEW x \in Servers
               PROVE  /\ IsSeen(x)' => seen'[x] = v[x]
                      /\ v[x] # Nowhere /\ seen'[x] # v[x] => N!Path(v, x) \cap cut' # {}
    BY <1>6 DEF ServersAgree
  <2>1. IsSeen(x)' => seen'[x] = v[x]
    BY <1>4, <1>6
  <2>2. ASSUME v[x] # Nowhere, seen'[x] # v[x] PROVE N!Path(v, x) \cap cut' # {}
    <3>1. x \notin gone /\ v[x] = t[x] /\ seen'[x] = seen[x]
      BY <1>1, <1>4, <2>2
    <3>2. N!Path(t, x) \cap cut # {}
      BY <2>2, <3>1 DEF ServersAgree
    <3> QED BY <1>5, <1>7, <2>2, <3>1, <3>2
  <2> QED BY <2>1, <2>2
<1>8. ASSUME cut' = cut \cup {q} PROVE ServersAgree(t)'
  <2> SUFFICES ASSUME NEW x \in Servers, t[x] # Nowhere, seen'[x] # t[x]
               PROVE  N!Path(t, x) \cap cut' # {}
    BY <1>6 DEF ServersAgree
  <2>1. CASE seen[x] # t[x]
    BY <1>8, <2>1 DEF ServersAgree
  <2>2. CASE seen[x] = t[x]
    <3>1. x \in gone
      BY <1>1, <2>2
    <3> QED BY <1>2, <1>8, <3>1
  <2> QED BY <2>1, <2>2
<1> QED BY <1>7, <1>8 DEF v

-----------------------------------------------------------------------------
(* One message that services receive.                                      *)

CutOff(t, a) == a # N!Absent /\ N!Path(t, a.server) \cap cut # {}

\* A user who is at a is known to be there, or is behind a server cut off.
Placed(t, a, u) == session[u] = a \/ (session[u] = N!Absent /\ CutOff(t, a))

\* The message m takes him along.
Passes(t, m, u) ==
  \A a \in Places : Stands(t, a) /\ Placed(t, a, u) => Placed(After(t, m), Moved(a, t, m, u), u)'

NamesOnce ==
  \A u, v \in Users :
    session[u] # N!Absent /\ session[v] # N!Absent /\ session[u].name = session[v].name => u = v

\* The message m can be the next one.
Expected(t, m) ==
  /\ t \in Trees /\ Rooted(t) /\ Fits(t, m)
  /\ ServersAgree(t) /\ SeenTyped /\ NamesOnce
  /\ m[1] = "uid" => session[m[3]] = N!Absent

\* What it leaves.
Received(t, m) ==
  /\ ServersAgree(After(t, m))' /\ SeenTyped' /\ NamesOnce'
  /\ \A u \in Users : session'[u] # N!Absent => session[u] # N!Absent \/ (m[1] = "uid" /\ m[3] = u)
  /\ \A u \in Users \ astray' : u \notin astray /\ Passes(t, m, u)
  /\ \/ /\ OwnJupes' = OwnJupes /\ jupes' = jupes /\ unset' = unset
        /\ m[1] = "squit" /\ m[2] \in OwnJupes => t[m[2]] # Nowhere
     \/ /\ m[1] = "squit" /\ OwnJupes' = OwnJupes \ {m[2]}
        /\ jupes' = jupes \ {m[2]} /\ unset' = unset \ {m[2]}

\* Who is cut off stays so, wherever he goes.
LEMMA CutOffStays ==
  ASSUME NEW t \in Trees, Rooted(t), NEW m, Fits(t, m), NEW u, ~(m[1] = "uid" /\ m[3] = u),
         NEW a \in Places, Stands(t, a), CutOff(t, a)
  PROVE  /\ a.server \in Servers /\ t[a.server] # Nowhere
         /\ \A x \in N!Path(t, a.server) : t[x] # Nowhere
         /\ Moved(a, t, m, u) # N!Absent =>
              /\ Moved(a, t, m, u).server = a.server
              /\ N!Path(After(t, m), a.server) = N!Path(t, a.server)
<1> DEFINE b == Moved(a, t, m, u)
<1>1. a \in [server : Servers \cup {Hub}, name : Names]
  BY DEF CutOff, Places
<1>2. a.server \in Servers
  BY <1>1, PathOfHub, NetworkAssumption DEF CutOff
<1>3. t[a.server] # Nowhere
  BY <1>2, NetworkAssumption DEF Stands, IsIn, CutOff
<1>4. \A x \in N!Path(t, a.server) : t[x] # Nowhere
  BY <1>2, <1>3, PathRoot
<1>5. ASSUME b # N!Absent PROVE b.server = a.server /\ After(t, m)[a.server] # Nowhere
  <2>1. CASE m[1] = "sid"
    <3>1. m[2] # Nowhere /\ m[3] \in Servers
      BY <2>1, MessageParts, NetworkAssumption DEF Fits
    <3> QED BY <1>2, <1>3, <2>1, <3>1 DEF Moved, After, Trees
  <2>2. CASE m[1] = "squit"
    <3>1. b = a /\ a.server \notin N!Behind(t, m[2])
      BY <1>5, <2>2 DEF Moved
    <3> QED BY <1>2, <1>3, <2>2, <3>1 DEF After, N!Without
  <2>3. CASE m[1] = "nick"
    BY <1>1, <1>3, <2>3 DEF Moved, After
  <2>4. CASE m[1] \notin {"sid", "squit", "nick"}
    BY <1>3, <1>5, <2>4 DEF Moved, After
  <2> QED BY <2>1, <2>2, <2>3, <2>4
<1>6. After(t, m)[a.server] # Nowhere => N!Path(After(t, m), a.server) = N!Path(t, a.server)
  BY <1>2, <1>3, AfterSound
<1> QED BY <1>2, <1>3, <1>4, <1>5, <1>6

\* So it is for who is cut off when nothing else happens to him.
LEMMA CutOffPasses ==
  ASSUME NEW t \in Trees, Rooted(t), NEW m, Fits(t, m), NEW u, ~(m[1] = "uid" /\ m[3] = u),
         NEW a \in Places, Stands(t, a), CutOff(t, a), session'[u] = N!Absent,
         \A x \in cut : x \in cut' \/ t[x] = Nowhere
  PROVE  Placed(After(t, m), Moved(a, t, m, u), u)'
<1>1. CASE Moved(a, t, m, u) = N!Absent
  BY <1>1 DEF Placed
<1>2. CASE Moved(a, t, m, u) # N!Absent
  <2>1. N!Path(t, a.server) \cap cut' # {}
    BY CutOffStays DEF CutOff
  <2> QED BY <1>2, <2>1, CutOffStays DEF Placed, CutOff
<1> QED BY <1>1, <1>2

LEMMA SidReceived ==
  ASSUME NEW t, NEW m, Expected(t, m), Head(wire) = m, N!RecvSid
  PROVE  Received(t, m)
<1> DEFINE p == m[2]  s == m[3]  v == After(t, m)
<1>1. /\ m[1] = "sid" /\ p \in Servers \cup {Hub} /\ s \in Servers /\ IsIn(t, p) /\ t[s] = Nowhere
      /\ t \in Trees /\ Rooted(t) /\ Fits(t, m) /\ ServersAgree(t)
  BY MessageParts DEF Expected, Fits, N!RecvSid, N!Heads
<1>2. /\ session' = session /\ jupes' = jupes /\ unset' = unset /\ astray' = astray
      /\ IF p = Hub \/ (p \in Servers /\ IsSeen(p))
         THEN /\ seen' = [seen EXCEPT ![s] = p]
              /\ hidden' = IF seen[s] = Me THEN hidden \cup {s} ELSE hidden
              /\ cut' = cut \ {s}
         ELSE UNCHANGED <<seen, hidden, cut>>
  BY <1>1 DEF N!RecvSid, N!Prefix, IsSeen
<1>3. ~IsSeen(s) /\ s \notin hidden /\ \A x \in Servers : seen[x] # s
  BY <1>1, NetworkAssumption DEF ServersAgree, IsSeen
<1>4. p # s
  BY <1>1, NetworkAssumption DEF IsIn
<1>5. v[s] = p /\ \A x \in Servers \ {s} : v[x] = t[x]
  BY <1>1 DEF After, Trees
<1>6. \A x \in Servers : t[x] # Nowhere =>
        v[x] = t[x] /\ N!Path(v, x) = N!Path(t, x) /\ s \notin N!Path(t, x)
  BY <1>1, <1>5, AfterSound, PathRoot
<1> HIDE DEF v
<1>7. ServersAgree(v)' /\ SeenTyped' /\ OwnJupes' = OwnJupes
  <2>1. CASE p = Hub \/ (p \in Servers /\ IsSeen(p))
    <3>1. /\ seen' = [seen EXCEPT ![s] = p] /\ cut' = cut \ {s}
          /\ hidden' = IF seen[s] = Me THEN hidden \cup {s} ELSE hidden
      BY <1>2, <2>1
    <3>2. seen'[s] = p /\ \A x \in Servers \ {s} : seen'[x] = seen[x]
      BY <1>1, <3>1 DEF SeenTyped, Expected
    <3>3. IsSeen(s)' /\ \A x \in Servers : IsSeen(x) => IsSeen(x)'
      BY <1>1, <3>2, NetworkAssumption DEF IsSeen
    <3>4. ServersAgree(v)'
      <4> SUFFICES ASSUME NEW x \in Servers
                   PROVE  /\ IsSeen(x)' => seen'[x] = v[x]
                          /\ v[x] # Nowhere /\ seen'[x] # v[x] => N!Path(v, x) \cap cut' # {}
                          /\ x \in hidden' => IsSeen(x)'
                          /\ seen'[x] \in Servers => IsSeen(seen[x])'
        BY <1>5, <3>2 DEF ServersAgree
      <4>1. CASE x = s
        <5>1. seen'[x] = p /\ v[x] = p
          BY <1>5, <3>2, <4>1
        <5>2. p \in Servers => IsSeen(p)'
          BY <2>1, <3>3, NetworkAssumption
        <5> QED BY <3>3, <4>1, <5>1, <5>2 DEF IsSeen
      <4>2. CASE x # s
        BY <1>1, <1>5, <1>6, <3>1, <3>2, <3>3, <4>2 DEF ServersAgree, IsSeen
      <4> QED BY <4>1, <4>2
    <3>5. SeenTyped'
      <4>1. seen' \in [Servers -> Servers \cup {Hub, Me, Nowhere}] /\ hidden' \subseteq Servers
        BY <1>1, <3>1 DEF SeenTyped, Expected
      <4> QED BY <1>2, <3>3, <4>1 DEF SeenTyped, Expected
    <3>6. OwnJupes' = OwnJupes
      BY <1>1, <1>3, <3>1, <3>2, NetworkAssumption DEF OwnJupes, IsSeen
    <3> QED BY <3>4, <3>5, <3>6
  <2>2. CASE ~(p = Hub \/ (p \in Servers /\ IsSeen(p)))
    <3>1. seen' = seen /\ hidden' = hidden /\ cut' = cut
      BY <1>2, <2>2
    <3>2. p \in Servers /\ t[p] # Nowhere /\ seen[p] # t[p]
      BY <1>1, <2>2, NetworkAssumption DEF IsIn, IsSeen, Trees
    <3>3. N!Path(t, p) \cap cut # {} /\ N!Path(v, p) = N!Path(t, p)
      BY <1>1, <1>6, <3>2 DEF ServersAgree
    <3>4. N!Path(v, s) \cap cut # {}
      BY <1>1, <1>5, <3>2, <3>3, PathOfUplink
    <3>5. ASSUME NEW x \in Servers
          PROVE  /\ IsSeen(x) => seen[x] = v[x]
                 /\ v[x] # Nowhere /\ seen[x] # v[x] => N!Path(v, x) \cap cut # {}
      <4>1. CASE x = s
        BY <1>3, <3>4, <4>1
      <4>2. CASE x # s
        BY <1>1, <1>5, <1>6, <4>2 DEF ServersAgree
      <4> QED BY <4>1, <4>2
    <3>6. ServersAgree(v)'
      BY <1>1, <3>1, <3>5 DEF ServersAgree, IsSeen
    <3> QED BY <1>2, <3>1, <3>6 DEF SeenTyped, OwnJupes, IsSeen, Expected
  <2> QED BY <2>1, <2>2
<1>8. ASSUME NEW u \in Users PROVE Passes(t, m, u)
  <2> SUFFICES ASSUME NEW a \in Places, Stands(t, a), Placed(t, a, u)
               PROVE  Placed(After(t, m), Moved(a, t, m, u), u)'
    BY DEF Passes
  <2>1. CASE session[u] = a
    BY <1>1, <1>2, <2>1 DEF Moved, Placed
  <2>2. CASE session[u] = N!Absent /\ CutOff(t, a)
    BY <1>1, <1>2, <2>2, CutOffPasses
  <2> QED BY <2>1, <2>2 DEF Placed
<1>9. NamesOnce'
  BY <1>2 DEF NamesOnce, Expected
<1> QED BY <1>1, <1>2, <1>7, <1>8, <1>9 DEF Received, v

\* A message that is about users only and leaves servers alone.
LEMMA ServersStay ==
  ASSUME NEW t, NEW m, Expected(t, m), m[1] \notin {"sid", "squit"},
         UNCHANGED <<seen, hidden, cut, jupes, unset>>,
         session' \in [Users -> Places], NamesOnce',
         \A u \in Users : session'[u] # N!Absent =>
           \/ session[u] # N!Absent /\ session'[u].server = session[u].server
           \/ /\ m[1] = "uid" /\ m[3] = u
              /\ session'[u].server = Hub \/ (session'[u].server \in Servers /\ IsSeen(session[u].server)'),
         \A u \in Users \ astray' : u \notin astray /\ Passes(t, m, u)
  PROVE  Received(t, m)
<1>1. After(t, m) = t
  BY DEF After
<1>2. ServersAgree(t)' /\ OwnJupes' = OwnJupes
  BY DEF ServersAgree, IsSeen, OwnJupes, Expected
<1>3. \A x \in Servers : IsSeen(x)' <=> IsSeen(x)
  BY DEF IsSeen
<1>4. SeenTyped'
  BY <1>3 DEF SeenTyped, Expected
<1> QED BY <1>1, <1>2, <1>4 DEF Received

LEMMA SquitReceived ==
  ASSUME NEW t, NEW m, Expected(t, m), Head(wire) = m, N!RecvSquit
  PROVE  Received(t, m)
<1> DEFINE q == m[2]  gone == N!Behind(t, q)  v == After(t, m)
<1>1. /\ m[1] = "squit" /\ q \in Servers /\ m = <<"squit", q>>
      /\ t \in Trees /\ Rooted(t) /\ Fits(t, m) /\ ServersAgree(t) /\ SeenTyped
  BY DEF Expected, Fits, N!RecvSquit, N!Heads, Messages
<1>2. /\ cut' = cut /\ astray' = astray
      /\ IF seen[q] # Nowhere THEN N!ExitServer(q)
                              ELSE UNCHANGED <<seen, hidden, session, jupes, unset>>
  BY <1>1, NetworkAssumption DEF N!RecvSquit, N!Knows, N!services
<1>3. \A x \in Servers : v[x] = IF x \in gone THEN Nowhere ELSE t[x]
  BY <1>1 DEF After, N!Without
<1>4. gone \subseteq Servers /\ (q \in gone <=> t[q] # Nowhere)
  BY <1>1, PathHas DEF N!Behind
<1>5. CASE IsSeen(q)
  <2>1. N!ExitServer(q)
    BY <1>2, <1>5 DEF IsSeen
  <2>2. ServersAgree(v)' /\ Exited(t, q) /\ SeenTyped' /\ OwnJupes' = OwnJupes
    BY <1>1, <1>2, <1>5, <2>1, ExitAgrees, ExitSeen
  <2>3. /\ \A u \in Users : session'[u] = IF session[u].server \in gone THEN N!Absent ELSE session[u]
        /\ jupes' = jupes /\ unset' = unset
    BY <2>2 DEF Exited
  <2>4. t[q] # Nowhere
    BY <1>1, <1>5, NetworkAssumption DEF ServersAgree, IsSeen
  <2> HIDE DEF gone, v
  <2>5. ASSUME NEW u \in Users PROVE Passes(t, m, u)
    <3> SUFFICES ASSUME NEW a \in Places, Stands(t, a), Placed(t, a, u)
                 PROVE  Placed(v, Moved(a, t, m, u), u)'
      BY DEF Passes, v
    <3>1. CASE session[u] = a
      BY <1>1, <2>3, <3>1 DEF Moved, Placed, gone
    <3>2. CASE session[u] = N!Absent /\ CutOff(t, a)
      <4>1. session'[u] = N!Absent
        BY <2>3, <3>2
      <4> QED BY <1>1, <1>2, <3>2, <4>1, CutOffPasses DEF v
    <3> QED BY <3>1, <3>2 DEF Placed
  <2>6. NamesOnce' /\ \A u \in Users : session'[u] # N!Absent => session[u] # N!Absent
    BY <2>3 DEF NamesOnce, Expected
  <2> QED BY <1>2, <2>2, <2>3, <2>4, <2>5, <2>6 DEF Received, v
<1>6. CASE ~IsSeen(q)
  <2>1. \A x \in Servers : IsSeen(x) => x \notin gone
    BY <1>1, <1>6, BehindUnseen
  <2>2. /\ \A x \in Servers : seen'[x] = IF x = q THEN Nowhere ELSE seen[x]
        /\ hidden' = hidden /\ session' = session /\ SeenTyped'
        /\ \/ OwnJupes' = OwnJupes /\ jupes' = jupes /\ unset' = unset /\ q \notin OwnJupes
           \/ OwnJupes' = OwnJupes \ {q} /\ jupes' = jupes \ {q} /\ unset' = unset \ {q}
    <3>1. CASE seen[q] = Me
      <4>1. N!ExitServer(q)
        BY <1>2, <3>1, NetworkAssumption
      <4>2. /\ seen' = [seen EXCEPT ![q] = Nowhere] /\ hidden' = hidden /\ session' = session
            /\ jupes' = jupes \ {q} /\ unset' = unset \ {q}
            /\ OwnJupes' = OwnJupes \ {q} /\ SeenTyped'
        BY <1>1, <3>1, <4>1, ExitJupe
      <4> QED BY <1>1, <4>2 DEF SeenTyped
    <3>2. CASE seen[q] = Nowhere
      <4>1. UNCHANGED <<seen, hidden, session, jupes, unset>>
        BY <1>2, <3>2
      <4>2. q \notin OwnJupes
        BY <1>1, <3>2, NetworkAssumption DEF OwnJupes, ServersAgree, IsSeen
      <4> QED BY <1>1, <3>2, <4>1, <4>2 DEF SeenTyped, OwnJupes, IsSeen
    <3> QED BY <1>6, <3>1, <3>2 DEF IsSeen
  <2>3. \A x \in Servers : (IsSeen(x)' <=> IsSeen(x)) /\ (IsSeen(x) => seen'[x] = seen[x])
    BY <1>6, <2>2, NetworkAssumption DEF IsSeen
  <2>4. \A x \in Servers : t[x] # Nowhere /\ v[x] # Nowhere => N!Path(v, x) = N!Path(t, x)
    BY <1>1, AfterSound
  <2> HIDE DEF gone, v
  <2>5. ServersAgree(v)'
    <3> SUFFICES ASSUME NEW x \in Servers
                 PROVE  /\ IsSeen(x)' => seen'[x] = v[x]
                        /\ v[x] # Nowhere /\ seen'[x] # v[x] => N!Path(v, x) \cap cut' # {}
                        /\ x \in hidden' => IsSeen(x)'
                        /\ seen'[x] \in Servers => IsSeen(seen[x])'
      BY DEF ServersAgree
    <3>1. IsSeen(x)' => seen'[x] = v[x]
      BY <1>1, <1>3, <2>1, <2>3 DEF ServersAgree
    <3>2. ASSUME v[x] # Nowhere, seen'[x] # v[x] PROVE N!Path(v, x) \cap cut' # {}
      <4>1. x \notin gone /\ v[x] = t[x] /\ t[x] # Nowhere
        BY <1>3, <3>2
      <4>2. x # q
        BY <1>4, <4>1
      <4>3. N!Path(t, x) \cap cut # {}
        BY <1>1, <2>2, <3>2, <4>1, <4>2 DEF ServersAgree
      <4> QED BY <1>2, <2>4, <3>2, <4>1, <4>3
    <3>3. x \in hidden' => IsSeen(x)'
      BY <1>1, <2>2, <2>3 DEF ServersAgree
    <3>4. ASSUME seen'[x] \in Servers PROVE IsSeen(seen[x])'
      <4>1. seen'[x] = seen[x] /\ IsSeen(seen[x])
        BY <1>1, <2>2, <3>4, NetworkAssumption DEF ServersAgree
      <4>2. IsSeen(seen'[x]) /\ seen'[x] \in Servers
        BY <3>4, <4>1
      <4>3. \A y \in Servers : IsSeen(y) => seen'[y] \notin {Nowhere, Me}
        BY <2>3 DEF IsSeen
      <4> QED BY <4>2, <4>3 DEF IsSeen
    <3> QED BY <3>1, <3>2, <3>3, <3>4
  <2>6. ASSUME NEW u \in Users PROVE Passes(t, m, u)
    <3> SUFFICES ASSUME NEW a \in Places, Stands(t, a), Placed(t, a, u)
                 PROVE  Placed(v, Moved(a, t, m, u), u)'
      BY DEF Passes, v
    <3>1. CASE session[u] = a
      <4>1. a = N!Absent \/ a.server = Hub \/ (a.server \in Servers /\ IsSeen(a.server))
        BY <1>1, <3>1 DEF SeenTyped
      <4>2. a.server \notin gone \/ a = N!Absent
        BY <1>4, <2>1, <4>1, NetworkAssumption
      <4>3. Moved(a, t, m, u) = a
        BY <1>1, <4>2 DEF Moved, gone
      <4> QED BY <2>2, <3>1, <4>3 DEF Placed
    <3>2. CASE session[u] = N!Absent /\ CutOff(t, a)
      BY <1>1, <1>2, <2>2, <3>2, CutOffPasses DEF v
    <3> QED BY <3>1, <3>2 DEF Placed
  <2>7. NamesOnce'
    BY <2>2 DEF NamesOnce, Expected
  <2> QED BY <1>1, <1>2, <2>2, <2>5, <2>6, <2>7 DEF Received, v
<1> QED BY <1>5, <1>6

LEMMA UidReceived ==
  ASSUME NEW t, NEW m, Expected(t, m), Head(wire) = m, N!RecvUid
  PROVE  Received(t, m)
<1> DEFINE s == m[2]  u == m[3]  n == m[4]  new == [server |-> s, name |-> n]
<1>1. /\ m[1] = "uid" /\ s \in Servers \cup {Hub} /\ u \in Users /\ n \in Names
      /\ t \in Trees /\ Rooted(t) /\ Fits(t, m) /\ ServersAgree(t) /\ SeenTyped /\ NamesOnce
      /\ session[u] = N!Absent /\ IsIn(t, s)
  BY MessageParts DEF Expected, Fits, N!RecvUid, N!Heads
<1>2. new \in Places /\ new.server = s /\ new.name = n /\ new # N!Absent
  <2>1. new.server # N!Absent.server
    BY <1>1, NetworkAssumption DEF N!Absent
  <2> QED BY <1>1, <2>1 DEF Places
<1>3. /\ After(t, m) = t
      /\ \A w \in Users : \A a \in Places : Moved(a, t, m, w) = IF w = u THEN new ELSE a
  BY <1>1 DEF After, Moved
<1>4. N!Prefix(s) <=> (s = Hub \/ (s \in Servers /\ IsSeen(s)))
  BY <1>1, NetworkAssumption DEF N!Prefix, IsSeen
<1> HIDE DEF new
\* The others stay where they are.
<1>5. ASSUME NEW w \in Users, w # u, session'[w] = session[w], cut' = cut PROVE Passes(t, m, w)
  BY <1>3, <1>5 DEF Passes, Placed, CutOff
<1>6. CASE N!Prefix(s) /\ N!CleanNick(n) /\ N!Wearer(session, n) = {} /\ N!ClientFromServer(u, s, n)
           /\ UNCHANGED <<seen, hidden, jupes, unset, cut, astray>>
  <2>1. session' = [session EXCEPT ![u] = new]
    BY <1>6 DEF N!ClientFromServer, N!RegisterRemoteUser, new
  <2>2. session'[u] = new /\ \A w \in Users \ {u} : session'[w] = session[w]
    BY <1>1, <2>1 DEF SeenTyped
  <2>3. session' \in [Users -> Places]
    BY <1>1, <1>2, <2>1 DEF SeenTyped
  <2>4. NamesOnce'
    <3>1. \A w \in Users : session[w].name # n
      BY <1>6 DEF N!Wearer
    <3> QED BY <1>1, <1>2, <2>2, <3>1 DEF NamesOnce
  <2>5. \A w \in Users \ astray' : w \notin astray /\ Passes(t, m, w)
    <3>1. Passes(t, m, u)
      BY <1>1, <1>3, <2>2 DEF Passes, Placed
    <3> QED BY <1>5, <1>6, <2>2, <3>1
  <2>6. \A w \in Users : session'[w] # N!Absent =>
           \/ session[w] # N!Absent /\ session'[w].server = session[w].server
           \/ /\ m[1] = "uid" /\ m[3] = w
              /\ session'[w].server = Hub \/ (session'[w].server \in Servers /\ IsSeen(session[w].server)')
    BY <1>1, <1>2, <1>4, <1>6, <2>2 DEF IsSeen
  <2> QED BY <1>1, <1>6, <2>3, <2>4, <2>5, <2>6, ServersStay
<1>7. CASE astray' = astray \cup {u} /\ UNCHANGED <<seen, hidden, session, jupes, unset, cut>>
  <2>1. \A w \in Users \ astray' : w \notin astray /\ Passes(t, m, w)
    BY <1>5, <1>7
  <2>2. NamesOnce' /\ session' \in [Users -> Places]
    BY <1>1, <1>7 DEF NamesOnce, SeenTyped
  <2> QED BY <1>1, <1>7, <2>1, <2>2, ServersStay
<1>8. CASE s # Hub /\ N!Prefix(s) /\ N!ExitServer(s) /\ cut' = cut \cup {s} /\ UNCHANGED astray
  <2>1. s \in Servers /\ IsSeen(s)
    BY <1>4, <1>8
  <2>2. ServersAgree(t)' /\ Exited(t, s) /\ SeenTyped' /\ OwnJupes' = OwnJupes
    BY <1>1, <1>8, <2>1, ExitAgrees, ExitSeen
  <2>3. /\ \A w \in Users :
             session'[w] = IF session[w].server \in N!Behind(t, s) THEN N!Absent ELSE session[w]
        /\ jupes' = jupes /\ unset' = unset
    BY <2>2 DEF Exited
  <2>4. ASSUME NEW w \in Users PROVE Passes(t, m, w)
    <3> SUFFICES ASSUME NEW a \in Places, Stands(t, a), Placed(t, a, w)
                 PROVE  Placed(t, Moved(a, t, m, w), w)'
      BY <1>3 DEF Passes
    <3>1. CASE w = u
      <4>1. session'[u] = N!Absent
        BY <1>1, <2>3
      <4>2. s \in N!Path(t, s)
        BY <2>1, PathHas
      <4> QED BY <1>2, <1>3, <1>8, <3>1, <4>1, <4>2 DEF Placed, CutOff
    <3>2. CASE w # u /\ session[w] = a /\ a.server \in N!Behind(t, s)
      <4>1. session'[w] = N!Absent /\ s \in N!Path(t, a.server) /\ a.server \in Servers
        BY <2>3, <3>2 DEF N!Behind
      <4>2. a # N!Absent
        BY <4>1, NetworkAssumption DEF N!Absent
      <4> QED BY <1>3, <1>8, <3>2, <4>1, <4>2 DEF Placed, CutOff
    <3>3. CASE w # u /\ session[w] = a /\ a.server \notin N!Behind(t, s)
      BY <1>3, <2>3, <3>3 DEF Placed
    <3>4. CASE w # u /\ session[w] = N!Absent /\ CutOff(t, a)
      <4>1. session'[w] = N!Absent
        BY <2>3, <3>4
      <4> QED BY <1>3, <1>8, <3>4, <4>1 DEF Placed, CutOff
    <3> QED BY <3>1, <3>2, <3>3, <3>4 DEF Placed
  <2>5. NamesOnce' /\ \A w \in Users : session'[w] # N!Absent => session[w] # N!Absent
    BY <1>1, <2>3 DEF NamesOnce
  <2> QED BY <1>1, <1>3, <1>8, <2>2, <2>3, <2>4, <2>5 DEF Received
<1>9. CASE ~N!Prefix(s) /\ UNCHANGED <<seen, hidden, session, jupes, unset, cut, astray>>
  <2>1. s \in Servers /\ t[s] # Nowhere /\ ~IsSeen(s)
    BY <1>1, <1>4, <1>9 DEF IsIn
  <2>2. seen[s] # t[s]
    BY <1>1, <2>1, NetworkAssumption DEF IsSeen, Trees
  <2>3. N!Path(t, s) \cap cut # {}
    BY <1>1, <2>1, <2>2 DEF ServersAgree
  <2>4. Passes(t, m, u)
    BY <1>1, <1>2, <1>3, <1>9, <2>3 DEF Passes, Placed, CutOff
  <2>5. \A w \in Users \ astray' : w \notin astray /\ Passes(t, m, w)
    BY <1>5, <1>9, <2>4
  <2>6. NamesOnce' /\ session' \in [Users -> Places]
    BY <1>1, <1>9 DEF NamesOnce, SeenTyped
  <2> QED BY <1>1, <1>9, <2>5, <2>6, ServersStay
<1> QED BY <1>6, <1>7, <1>8, <1>9 DEF N!RecvUid, N!services

LEMMA NickReceived ==
  ASSUME NEW t, NEW m, Expected(t, m), Head(wire) = m, N!RecvNick
  PROVE  Received(t, m)
<1> DEFINE u == m[2]  n == m[3]
<1>1. /\ m[1] = "nick" /\ u \in Users /\ n \in Names
      /\ t \in Trees /\ Rooted(t) /\ Fits(t, m) /\ ServersAgree(t) /\ SeenTyped /\ NamesOnce
      /\ session \in [Users -> Places]
  BY MessageParts DEF Expected, Fits, N!RecvNick, N!Heads, SeenTyped
<1>2. UNCHANGED <<seen, hidden, jupes, unset, cut>>
  BY DEF N!RecvNick
<1>3. /\ After(t, m) = t
      /\ \A w \in Users : \A a : Moved(a, t, m, w) =
           IF w = u /\ a # N!Absent THEN [a EXCEPT !.name = n] ELSE a
  BY <1>1 DEF After, Moved
\* The others stay where they are.
<1>4. ASSUME NEW w \in Users, w # u, session'[w] = session[w] PROVE Passes(t, m, w)
  BY <1>2, <1>3, <1>4 DEF Passes, Placed, CutOff
<1>5. CASE session[u] # N!Absent /\ session' = [session EXCEPT ![u] = N!Absent] /\ astray' = astray \cup {u}
  <2>1. session'[u] = N!Absent /\ \A w \in Users \ {u} : session'[w] = session[w]
    BY <1>1, <1>5
  <2>2. session' \in [Users -> Places]
    BY <1>1, <1>5 DEF Places
  <2>3. NamesOnce'
    BY <1>1, <2>1 DEF NamesOnce
  <2>4. \A w \in Users \ astray' : w \notin astray /\ Passes(t, m, w)
    BY <1>4, <1>5, <2>1
  <2>5. \A w \in Users : session'[w] # N!Absent =>
           session[w] # N!Absent /\ session'[w].server = session[w].server
    BY <2>1
  <2> QED BY <1>1, <1>2, <2>2, <2>3, <2>4, <2>5, ServersStay
<1>6. CASE /\ session[u] # N!Absent /\ N!Wearer(session, n) \subseteq {u}
           /\ session' = [session EXCEPT ![u].name = n] /\ astray' = astray
  <2>1. session[u] \in [server : Servers \cup {Hub}, name : Names]
    BY <1>1, <1>6 DEF Places
  <2> DEFINE new == [session[u] EXCEPT !.name = n]
  <2>2. new \in [server : Servers \cup {Hub}, name : Names] /\ new.name = n /\ new.server = session[u].server
    BY <1>1, <2>1
  <2>3. session' = [session EXCEPT ![u] = new]
    BY <1>6
  <2>4. new # N!Absent
    BY <2>2, NetworkAssumption DEF N!Absent
  <2> HIDE DEF new
  <2>5. session'[u] = new /\ \A w \in Users \ {u} : session'[w] = session[w]
    BY <1>1, <2>3
  <2>6. session' \in [Users -> Places]
    BY <1>1, <2>2, <2>3 DEF Places
  <2>7. \A w \in Users \ {u} : session[w].name # n
    BY <1>6 DEF N!Wearer
  <2>8. NamesOnce'
    BY <1>1, <2>2, <2>5, <2>7 DEF NamesOnce
  <2>9. Passes(t, m, u)
    <3> SUFFICES ASSUME NEW a \in Places, Stands(t, a), Placed(t, a, u)
                 PROVE  Placed(t, Moved(a, t, m, u), u)'
      BY <1>3 DEF Passes
    <3>1. session[u] = a
      BY <1>6 DEF Placed
    <3>2. Moved(a, t, m, u) = new
      BY <1>1, <1>3, <1>6, <3>1 DEF new
    <3> QED BY <2>5, <3>2 DEF Placed
  <2>10. \A w \in Users \ astray' : w \notin astray /\ Passes(t, m, w)
    BY <1>4, <1>6, <2>5, <2>9
  <2>11. \A w \in Users : session'[w] # N!Absent =>
           session[w] # N!Absent /\ session'[w].server = session[w].server
    BY <1>6, <2>2, <2>5
  <2> QED BY <1>1, <1>2, <2>6, <2>8, <2>10, <2>11, ServersStay
<1>7. CASE astray' = astray \cup {u} /\ session' = session
  <2>1. \A w \in Users \ astray' : w \notin astray /\ Passes(t, m, w)
    BY <1>4, <1>7
  <2>2. NamesOnce' /\ session' \in [Users -> Places]
    BY <1>1, <1>7 DEF NamesOnce
  <2> QED BY <1>1, <1>2, <1>7, <2>1, <2>2, ServersStay
<1>8. CASE session[u] = N!Absent /\ session' = session /\ astray' = astray
  <2>1. Passes(t, m, u)
    <3> SUFFICES ASSUME NEW a \in Places, Stands(t, a), Placed(t, a, u)
                 PROVE  Placed(After(t, m), Moved(a, t, m, u), u)'
      BY DEF Passes
    <3>1. CASE a = N!Absent
      BY <1>1, <1>3, <1>8, <3>1 DEF Placed
    <3>2. CASE a # N!Absent
      <4>1. CutOff(t, a)
        BY <1>8, <3>2 DEF Placed
      <4> QED BY <1>1, <1>2, <1>8, <4>1, CutOffPasses
    <3> QED BY <3>1, <3>2
  <2>2. \A w \in Users \ astray' : w \notin astray /\ Passes(t, m, w)
    BY <1>4, <1>8, <2>1
  <2>3. NamesOnce' /\ session' \in [Users -> Places]
    BY <1>1, <1>8 DEF NamesOnce
  <2> QED BY <1>1, <1>2, <1>8, <2>2, <2>3, ServersStay
<1> QED BY <1>5, <1>6, <1>7, <1>8 DEF N!RecvNick, N!NickFromServer

LEMMA QuitReceived ==
  ASSUME NEW t, NEW m, Expected(t, m), Head(wire) = m, N!RecvQuit
  PROVE  Received(t, m)
<1> DEFINE u == m[2]
<1>1. /\ m[1] = "quit" /\ u \in Users
      /\ t \in Trees /\ Rooted(t) /\ Fits(t, m) /\ ServersAgree(t) /\ NamesOnce
      /\ session \in [Users -> Places]
  BY MessageParts DEF Expected, Fits, N!RecvQuit, N!Heads, SeenTyped
<1>2. UNCHANGED <<seen, hidden, jupes, unset, cut>> /\ astray' = astray
      /\ session' = [session EXCEPT ![u] = N!Absent]
  BY DEF N!RecvQuit
<1>3. /\ After(t, m) = t
      /\ \A w \in Users : \A a : Moved(a, t, m, w) = IF w = u THEN N!Absent ELSE a
  BY <1>1 DEF After, Moved
<1>4. session'[u] = N!Absent /\ \A w \in Users \ {u} : session'[w] = session[w]
  BY <1>1, <1>2
<1>5. ASSUME NEW w \in Users PROVE Passes(t, m, w)
  <2>1. CASE w = u
    BY <1>3, <1>4, <2>1 DEF Passes, Placed
  <2>2. CASE w # u
    BY <1>2, <1>3, <1>4, <2>2 DEF Passes, Placed, CutOff
  <2> QED BY <2>1, <2>2
<1>6. session' \in [Users -> Places]
  BY <1>1, <1>2 DEF Places
<1>7. NamesOnce' /\ \A w \in Users : session'[w] # N!Absent =>
           session[w] # N!Absent /\ session'[w].server = session[w].server
  BY <1>1, <1>4 DEF NamesOnce
<1> QED BY <1>1, <1>2, <1>5, <1>6, <1>7, ServersStay

-----------------------------------------------------------------------------
(* What holds of the two sides together.                                   *)

Real == [s \in Servers |-> IF parent[s] = Me THEN Nowhere ELSE parent[s]]

UserAgrees(w, P, u) == \E a : Tracks(w, P, u, a, at[u]) /\ Placed(P[0], a, u)

\* A jupe is on both sides, or what took it from one is under way to the other.
JupesAgree(w, P) ==
  \A s \in Servers :
    /\ parent[s] = Me /\ s \notin crossed =>
         s \in OwnJupes /\ \A i \in 1 .. Len(w) : w[i] # <<"squit", s>>
    /\ s \in OwnJupes /\ parent[s] # Me =>
         \E i \in 1 .. Len(w) : w[i] = <<"squit", s>> /\ P[i - 1][s] = Nowhere

Story(w, P) ==
  /\ Runs(w, Real, P) /\ ServersAgree(P[0]) /\ JupesAgree(w, P)
  /\ \A u \in Users \ astray : UserAgrees(w, P, u)

NetTyped ==
  /\ parent \in [Servers -> Servers \cup {Hub, Me, Nowhere}] /\ at \in [Users -> Places]
  /\ fresh \subseteq Users /\ wire \in Seq(Messages) /\ link \in {"down", "burst", "up"}
  /\ unset \subseteq jupes /\ jupes \subseteq Servers
  /\ SeenTyped /\ NamesOnce
  /\ Rooted(Real) /\ \A u \in Users : Stands(Real, at[u])

\* A user connects once, and a burst ends once.
Once(w) ==
  /\ \A i, j \in 1 .. Len(w) : w[i][1] = "uid" /\ w[j][1] = "uid" /\ w[i][3] = w[j][3] => i = j
  /\ \A i \in 1 .. Len(w) : w[i][1] = "eob" =>
       link = "burst" /\ \A j \in 1 .. Len(w) : w[j][1] = "eob" => i = j
  /\ \A u \in Users : session[u] # N!Absent => NoUid(w, u)
  /\ \A u \in fresh : at[u] = N!Absent /\ session[u] = N!Absent /\ NoUid(w, u)

Phases ==
  /\ link = "down" => /\ wire = << >> /\ seen = N!None /\ hidden = {} /\ session = N!Nobody
                      /\ cut = {} /\ astray = {} /\ crossed = {}
  /\ link # "up" => OwnJupes = {} /\ \A s \in Servers : parent[s] # Me
  /\ link = "up" => jupes = OwnJupes

NetInv == NetTyped /\ Once(wire) /\ Phases /\ (link # "down" => \E P : Story(wire, P))

LEMMA NetInit == ASSUME N!Init PROVE NetInv
<1>1. /\ parent = [s \in Servers |-> Nowhere] /\ at = [u \in Users |-> N!Absent] /\ fresh = Users
      /\ wire = << >> /\ link = "down" /\ seen = [s \in Servers |-> Nowhere] /\ hidden = {}
      /\ session = [u \in Users |-> N!Absent] /\ jupes = {} /\ unset = {}
      /\ cut = {} /\ astray = {} /\ crossed = {}
  BY DEF N!Init, N!None, N!Nobody
<1>2. \A s \in Servers : Real[s] = Nowhere
  BY <1>1 DEF Real
<1>3. SeenTyped
  <2>1. seen \in [Servers -> Servers \cup {Hub, Me, Nowhere}]
    BY <1>1
  <2>2. session \in [Users -> Places]
    BY <1>1 DEF Places
  <2> QED BY <1>1, <2>1, <2>2 DEF SeenTyped
<1>4. NetTyped
  <2>1. parent \in [Servers -> Servers \cup {Hub, Me, Nowhere}]
    BY <1>1
  <2>2. at \in [Users -> Places]
    BY <1>1 DEF Places
  <2>3. NamesOnce
    BY <1>1 DEF NamesOnce
  <2>4. Rooted(Real)
    BY <1>2, NetworkAssumption DEF Rooted
  <2>5. \A u \in Users : Stands(Real, at[u])
    BY <1>1 DEF Stands
  <2> QED BY <1>1, <1>3, <2>1, <2>2, <2>3, <2>4, <2>5, EmptySeq DEF NetTyped
<1>5. Once(wire)
  BY <1>1, EmptySeq DEF Once, NoUid
<1>6. Phases
  BY <1>1, NetworkAssumption DEF Phases, OwnJupes, N!None, N!Nobody
<1> QED BY <1>1, <1>4, <1>5, <1>6 DEF NetInv

\* Services have taken the first message of w.
LEMMA UserTaken ==
  ASSUME NEW w \in Seq(Messages), w # << >>, NEW P, NEW u,
         UserAgrees(w, P, u), Passes(P[0], Head(w), u),
         Shift(w, P)[0] = After(P[0], Head(w)), at' = at
  PROVE  UserAgrees(Tail(w), Shift(w, P), u)'
<1>1. PICK a : Tracks(w, P, u, a, at[u]) /\ Placed(P[0], a, u)
  BY DEF UserAgrees
<1> DEFINE b == Moved(a, P[0], Head(w), u)
<1>2. Tracks(Tail(w), Shift(w, P), u, b, at[u]) /\ a \in Places /\ Stands(P[0], a)
  BY <1>1, TrackTail
<1>3. Placed(Shift(w, P)[0], b, u)'
  BY <1>1, <1>2 DEF Passes
<1> HIDE DEF b
<1>4. Tracks(Tail(w), Shift(w, P), u, b, at'[u])
  BY <1>2
<1> QED BY <1>3, <1>4 DEF UserAgrees

LEMMA JupesTaken ==
  ASSUME NEW w \in Seq(Messages), w # << >>, NEW P, JupesAgree(w, P),
         \/ /\ OwnJupes' = OwnJupes
            /\ Head(w)[1] = "squit" /\ Head(w)[2] \in OwnJupes => P[0][Head(w)[2]] # Nowhere
         \/ Head(w) = <<"squit", Head(w)[2]>> /\ OwnJupes' = OwnJupes \ {Head(w)[2]},
         parent' = parent, crossed' = crossed
  PROVE  JupesAgree(Tail(w), Shift(w, P))'
<1> DEFINE m == Head(w)  n == Len(w)  v == Tail(w)  Q == Shift(w, P)
<1>1. /\ n \in Nat \ {0} /\ Len(v) = n - 1 /\ m = w[1]
      /\ \A i \in 1 .. n - 1 : v[i] = w[i + 1]
  BY TailOf
<1>2. \A i \in 1 .. n - 1 : Q[i - 1] = P[(i + 1) - 1]
  BY <1>1 DEF Shift
<1> HIDE DEF m, n, v, Q
<1> SUFFICES ASSUME NEW s \in Servers
             PROVE  /\ parent'[s] = Me /\ s \notin crossed' =>
                         s \in OwnJupes' /\ \A i \in 1 .. n - 1 : v[i] # <<"squit", s>>
                    /\ s \in OwnJupes' /\ parent'[s] # Me =>
                         \E i \in 1 .. n - 1 : v[i] = <<"squit", s>> /\ Q[i - 1][s] = Nowhere
  BY <1>1 DEF JupesAgree, v, Q
<1>3. ASSUME parent'[s] = Me, s \notin crossed'
      PROVE  s \in OwnJupes' /\ \A i \in 1 .. n - 1 : v[i] # <<"squit", s>>
  <2>1. s \in OwnJupes /\ \A i \in 1 .. n : w[i] # <<"squit", s>>
    BY <1>3 DEF JupesAgree, n
  <2>2. m # <<"squit", s>>
    BY <1>1, <2>1
  <2>3. s \in OwnJupes'
    BY <2>1, <2>2 DEF m
  <2>4. \A i \in 1 .. n - 1 : i + 1 \in 1 .. n
    BY <1>1
  <2> QED BY <1>1, <2>1, <2>3, <2>4
<1>4. ASSUME s \in OwnJupes', parent'[s] # Me
      PROVE  \E i \in 1 .. n - 1 : v[i] = <<"squit", s>> /\ Q[i - 1][s] = Nowhere
  <2>1. s \in OwnJupes
    BY <1>4
  <2>2. PICK i \in 1 .. n : w[i] = <<"squit", s>> /\ P[i - 1][s] = Nowhere
    BY <1>4, <2>1 DEF JupesAgree, n
  <2>3. i # 1
    <3> SUFFICES ASSUME i = 1 PROVE FALSE
      OBVIOUS
    <3>1. m = <<"squit", s>> /\ m[1] = "squit" /\ m[2] = s /\ P[0][s] = Nowhere
      BY <1>1, <2>2
    <3> QED BY <1>4, <2>1, <3>1 DEF m
  <2>4. i - 1 \in 1 .. n - 1 /\ (i - 1) + 1 = i
    BY <1>1, <2>3
  <2>5. v[i - 1] = w[i] /\ Q[(i - 1) - 1] = P[i - 1]
    BY <1>1, <1>2, <2>4
  <2> QED BY <2>2, <2>4, <2>5
<1> QED BY <1>3, <1>4

LEMMA OnceTaken ==
  ASSUME NEW w \in Seq(Messages), w # << >>, Once(w), link' = link \/ Head(w)[1] = "eob",
         fresh' = fresh, at' = at,
         \A u \in Users : session'[u] # N!Absent =>
           session[u] # N!Absent \/ (Head(w)[1] = "uid" /\ Head(w)[3] = u),
         fresh \subseteq Users
  PROVE  Once(Tail(w))'
<1> DEFINE n == Len(w)  v == Tail(w)
<1>1. /\ n \in Nat \ {0} /\ Len(v) = n - 1 /\ Head(w) = w[1]
      /\ \A i \in 1 .. n - 1 : v[i] = w[i + 1] /\ i + 1 \in 1 .. n /\ i + 1 # 1
      /\ 1 \in 1 .. n /\ \A i, j \in 1 .. n - 1 : i + 1 = j + 1 => i = j
  <2>1. n \in Nat \ {0} /\ Len(v) = n - 1 /\ Head(w) = w[1] /\ \A i \in 1 .. n - 1 : v[i] = w[i + 1]
    BY TailOf
  <2> HIDE DEF n, v
  <2> QED BY <2>1
<1> HIDE DEF v, n
<1>2. \A i, j \in 1 .. n : w[i][1] = "uid" /\ w[j][1] = "uid" /\ w[i][3] = w[j][3] => i = j
  BY DEF Once, n
<1>3. \A i \in 1 .. n : w[i][1] = "eob" =>
        link = "burst" /\ \A j \in 1 .. n : w[j][1] = "eob" => i = j
  BY DEF Once, n
<1>4. ASSUME NEW i \in 1 .. n - 1, NEW j \in 1 .. n - 1
      PROVE  /\ v[i][1] = "uid" /\ v[j][1] = "uid" /\ v[i][3] = v[j][3] => i = j
             /\ v[i][1] = "eob" => link' = "burst" /\ (v[j][1] = "eob" => i = j)
  <2>1. /\ v[i] = w[i + 1] /\ v[j] = w[j + 1] /\ i + 1 \in 1 .. n /\ j + 1 \in 1 .. n
        /\ (i + 1 = j + 1 => i = j) /\ i + 1 # 1 /\ 1 \in 1 .. n /\ Head(w) = w[1]
    BY <1>1
  <2> QED BY <1>2, <1>3, <2>1
<1>5. ASSUME NEW u, NoUid(w, u) PROVE NoUid(v, u)
  BY <1>1, <1>5 DEF NoUid, n
<1>6. ASSUME NEW u \in Users, session'[u] # N!Absent PROVE NoUid(v, u)
  <2>1. CASE session[u] # N!Absent
    BY <1>5, <2>1 DEF Once
  <2>2. CASE Head(w)[1] = "uid" /\ Head(w)[3] = u
    <3>1. \A i \in 1 .. n : w[i][1] = "uid" /\ w[i][3] = u => i = 1
      <4>1. \A i, j \in 1 .. n : w[i][1] = "uid" /\ w[j][1] = "uid" /\ w[i][3] = w[j][3] => i = j
        BY DEF Once, n
      <4>2. w[1][1] = "uid" /\ w[1][3] = u
        BY <1>1, <2>2
      <4> QED BY <1>1, <4>1, <4>2
    <3> QED BY <1>1, <3>1 DEF NoUid
  <2> QED BY <1>6, <2>1, <2>2
<1>7. ASSUME NEW u \in fresh PROVE at[u] = N!Absent /\ session'[u] = N!Absent /\ NoUid(v, u)
  <2>1. at[u] = N!Absent /\ session[u] = N!Absent /\ NoUid(w, u) /\ u \in Users
    BY DEF Once
  <2>2. session'[u] = N!Absent
    BY <1>1, <2>1 DEF NoUid, n
  <2> QED BY <1>5, <2>1, <2>2
<1> QED BY <1>1, <1>4, <1>6, <1>7 DEF Once, v

LEMMA Taken ==
  ASSUME NetInv, link # "down", NEW w, w = wire, w # << >>, NEW P, Story(w, P),
         Received(P[0], Head(w)), wire' = Tail(w),
         UNCHANGED <<parent, at, fresh, link, crossed>>
  PROVE  NetInv'
<1> DEFINE m == Head(w)  v == Tail(w)  Q == Shift(w, P)
<1>1. /\ w \in Seq(Messages) /\ Runs(w, Real, P) /\ Real' = Real /\ NetTyped /\ Phases /\ Once(w)
      /\ m \in Messages /\ v \in Seq(Messages) /\ JupesAgree(w, P)
      /\ \A u \in Users \ astray : UserAgrees(w, P, u)
  BY TailOf DEF NetInv, NetTyped, Story, Real
<1>2. Runs(v, Real, Q) /\ Q[0] = After(P[0], m)
  BY <1>1, RunTail
<1>3. /\ ServersAgree(After(P[0], m))' /\ SeenTyped' /\ NamesOnce'
      /\ \A u \in Users : session'[u] # N!Absent => session[u] # N!Absent \/ (m[1] = "uid" /\ m[3] = u)
      /\ \A u \in Users \ astray' : u \notin astray /\ Passes(P[0], m, u)
      /\ \/ /\ OwnJupes' = OwnJupes /\ jupes' = jupes /\ unset' = unset
            /\ m[1] = "squit" /\ m[2] \in OwnJupes => P[0][m[2]] # Nowhere
         \/ /\ m[1] = "squit" /\ OwnJupes' = OwnJupes \ {m[2]}
            /\ jupes' = jupes \ {m[2]} /\ unset' = unset \ {m[2]}
  BY DEF Received
<1>4. m[1] = "squit" => m = <<"squit", m[2]>>
  <2> HIDE DEF m
  <2> QED BY <1>1 DEF Messages
<1>5. \A u \in Users \ astray' : UserAgrees(v, Q, u)'
  <2> SUFFICES ASSUME NEW u \in Users \ astray' PROVE UserAgrees(v, Q, u)'
    OBVIOUS
  <2>1. UserAgrees(w, P, u) /\ Passes(P[0], Head(w), u)
    BY <1>1, <1>3
  <2> QED BY <1>1, <1>2, <2>1, UserTaken
<1>6. JupesAgree(v, Q)'
  BY <1>1, <1>3, <1>4, JupesTaken
<1>7. Once(v)'
  BY <1>1, <1>3, OnceTaken DEF NetTyped
<1> HIDE DEF m, v, Q
<1>8. Story(v, Q)'
  BY <1>1, <1>2, <1>3, <1>5, <1>6 DEF Story
<1>9. NetTyped'
  BY <1>1, <1>3 DEF NetTyped, v
<1>10. Phases'
  <2>1. link = "up" => jupes' = OwnJupes'
    BY <1>1, <1>3 DEF Phases
  <2>2. link = "burst" => OwnJupes' = {} /\ \A s \in Servers : parent'[s] # Me
    BY <1>1, <1>3 DEF Phases
  <2> QED BY <1>1, <2>1, <2>2 DEF Phases, NetTyped
<1>11. wire' = v
  BY DEF v
<1>12. Once(wire)'
  BY <1>7, <1>11 DEF Once, NoUid
<1>13. \E R1 : Story(wire, R1)'
  BY <1>8, <1>11 DEF Story, JupesAgree, UserAgrees
<1> QED BY <1>9, <1>10, <1>12, <1>13 DEF NetInv

\* The state services read a message in.
LEMMA Expects ==
  ASSUME NetInv, NEW w, w = wire, w # << >>, NEW P, Story(w, P)
  PROVE  Expected(P[0], Head(w))
<1>1. w \in Seq(Messages) /\ Runs(w, Real, P) /\ ServersAgree(P[0]) /\ SeenTyped /\ NamesOnce /\ Once(w)
  BY DEF NetInv, NetTyped, Story
<1>2. Fits(P[0], Head(w)) /\ P[0] \in Trees /\ Rooted(P[0])
  BY <1>1, RunTail
<1>3. Head(w) = w[1] /\ 1 \in 1 .. Len(w) /\ Head(w) \in Messages
  BY <1>1, TailOf
<1>4. ASSUME Head(w)[1] = "uid" PROVE session[Head(w)[3]] = N!Absent
  <2>1. Head(w)[3] \in Users
    BY <1>3, <1>4, MessageParts
  <2>2. ~NoUid(w, Head(w)[3])
    BY <1>3, <1>4 DEF NoUid
  <2> QED BY <1>1, <2>1, <2>2 DEF Once
<1> QED BY <1>1, <1>2, <1>4 DEF Expected

LEMMA ReceiveKeeps ==
  ASSUME NetInv, N!RecvSid \/ N!RecvSquit \/ N!RecvUid \/ N!RecvNick \/ N!RecvQuit
  PROVE  NetInv'
<1>1. /\ link # "down" /\ wire # << >> /\ wire' = Tail(wire)
      /\ UNCHANGED <<parent, at, fresh, link, crossed>>
  BY DEF N!RecvSid, N!RecvSquit, N!RecvUid, N!RecvNick, N!RecvQuit, N!Heads, N!Take, N!network
<1>2. PICK w : w = wire
  OBVIOUS
<1>3. PICK P : Story(w, P)
  BY <1>1, <1>2 DEF NetInv
<1>4. Expected(P[0], Head(w))
  BY <1>1, <1>2, <1>3, Expects
<1>5. Received(P[0], Head(w))
  <2> DEFINE m == Head(w)
  <2>1. Head(wire) = m
    BY <1>2
  <2> HIDE DEF m
  <2> QED BY <1>4, <2>1, SidReceived, SquitReceived, UidReceived, NickReceived, QuitReceived DEF m
<1> QED BY <1>1, <1>2, <1>3, <1>5, Taken

-----------------------------------------------------------------------------
(* What happens on the network.                                            *)

LEMMA MovedStands ==
  ASSUME NEW t \in Trees, Rooted(t), NEW m, Fits(t, m), NEW u, NEW a \in Places, Stands(t, a)
  PROVE  Moved(a, t, m, u) \in Places /\ Stands(After(t, m), Moved(a, t, m, u))
<1> DEFINE b == Moved(a, t, m, u)
<1>1. m[1] \in {"sid", "squit", "uid", "nick", "quit", "eob"}
  BY MessageParts DEF Fits
<1>2. CASE m[1] = "sid"
  <2>1. b = a /\ m[2] # Nowhere /\ m[3] \in Servers
    BY <1>2, MessageParts, NetworkAssumption DEF Moved, Fits
  <2>2. \A s : IsIn(t, s) => IsIn(After(t, m), s)
    BY <1>2, <2>1 DEF After, IsIn, Trees
  <2> QED BY <2>1, <2>2 DEF Stands
<1>3. CASE m[1] = "squit"
  <2>1. b = IF a.server \in N!Behind(t, m[2]) THEN N!Absent ELSE a
    BY <1>3 DEF Moved
  <2>2. \A s : IsIn(t, s) /\ s \notin N!Behind(t, m[2]) => IsIn(After(t, m), s)
    BY <1>3 DEF After, IsIn, N!Without
  <2> QED BY <2>1, <2>2 DEF Stands, Places
<1>4. CASE m[1] = "uid"
  <2>1. After(t, m) = t /\ b = IF m[3] = u THEN [server |-> m[2], name |-> m[4]] ELSE a
    BY <1>4 DEF After, Moved
  <2>2. m[2] \in Servers \cup {Hub} /\ m[4] \in Names /\ IsIn(t, m[2])
    BY <1>4, MessageParts DEF Fits
  <2> QED BY <2>1, <2>2 DEF Stands, Places
<1>5. CASE m[1] = "nick"
  <2>1. After(t, m) = t /\ b = IF m[2] = u /\ a # N!Absent THEN [a EXCEPT !.name = m[3]] ELSE a
    BY <1>5 DEF After, Moved
  <2>2. m[3] \in Names
    BY <1>5, MessageParts DEF Fits
  <2>3. CASE m[2] = u /\ a # N!Absent
    <3>1. a \in [server : Servers \cup {Hub}, name : Names] /\ IsIn(t, a.server)
      BY <2>3 DEF Places, Stands
    <3>2. b \in [server : Servers \cup {Hub}, name : Names] /\ b.server = a.server
      BY <2>1, <2>2, <2>3, <3>1
    <3> QED BY <2>1, <3>1, <3>2 DEF Stands, Places
  <2> QED BY <2>1, <2>3
<1>6. CASE m[1] \in {"quit", "eob"}
  <2>1. After(t, m) = t /\ b \in {a, N!Absent}
    BY <1>6 DEF After, Moved
  <2> QED BY <2>1 DEF Stands, Places
<1> QED BY <1>1, <1>2, <1>3, <1>4, <1>5, <1>6

LEMMA RealTree ==
  ASSUME NetTyped
  PROVE  Real \in Trees /\ \A s \in Servers : Real[s] = IF parent[s] = Me THEN Nowhere ELSE parent[s]
BY NetworkAssumption DEF NetTyped, Real, Trees

\* Hub sends the message m of what has happened.
Happens(m) ==
  /\ Fits(Real, m) /\ m[1] # "eob" /\ Real' = After(Real, m)
  /\ parent' \in [Servers -> Servers \cup {Hub, Me, Nowhere}]
  /\ at' \in [Users -> Places] /\ \A u \in Users : at'[u] = Moved(at[u], Real, m, u)
  /\ \A s \in Servers : parent'[s] = Me <=> parent[s] = Me /\ m # <<"squit", s>>
  /\ m[1] = "uid" => m[3] \in fresh
  /\ fresh' = IF m[1] = "uid" THEN fresh \ {m[3]} ELSE fresh
  /\ N!Send(m)
  /\ UNCHANGED <<link, seen, hidden, session, jupes, unset, cut, astray, crossed>>

LEMMA OnceSent ==
  ASSUME NetTyped, NEW w, w = wire, Once(w), NEW m, Happens(m)
  PROVE  Once(w)' /\ Once(Append(w, m))'
<1> DEFINE n == Len(w)  v == Append(w, m)
<1>1. /\ w \in Seq(Messages) /\ m \in Messages /\ fresh' \subseteq fresh /\ fresh \subseteq Users
      /\ link' = link /\ session' = session
  BY DEF NetTyped, Happens, Fits
<1>2. /\ n \in Nat /\ Len(v) = n + 1 /\ v[n + 1] = m
      /\ \A i \in 1 .. n : v[i] = w[i] /\ i # n + 1 /\ i \in 1 .. n + 1
      /\ \A i \in 1 .. n + 1 : i = n + 1 \/ i \in 1 .. n
  <2>1. n \in Nat /\ Len(v) = n + 1 /\ v[n + 1] = m /\ \A i \in 1 .. n : v[i] = w[i]
    BY <1>1, AppendProperties, LenProperties
  <2> HIDE DEF n, v
  <2> QED BY <2>1
<1> HIDE DEF v, n
<1>3. /\ \A i, j \in 1 .. n : w[i][1] = "uid" /\ w[j][1] = "uid" /\ w[i][3] = w[j][3] => i = j
      /\ \A i \in 1 .. n : w[i][1] = "eob" =>
           link = "burst" /\ \A j \in 1 .. n : w[j][1] = "eob" => i = j
  BY DEF Once, n
<1>4. m[1] = "uid" => \A i \in 1 .. n : ~(w[i][1] = "uid" /\ w[i][3] = m[3])
  BY DEF Happens, Once, NoUid, n
<1>5. m[1] # "eob"
  BY DEF Happens
<1>6. ASSUME NEW i \in 1 .. n + 1, NEW j \in 1 .. n + 1
      PROVE  /\ v[i][1] = "uid" /\ v[j][1] = "uid" /\ v[i][3] = v[j][3] => i = j
             /\ v[i][1] = "eob" => link = "burst" /\ (v[j][1] = "eob" => i = j)
  <2>1. CASE i \in 1 .. n /\ j \in 1 .. n
    BY <1>2, <1>3, <2>1
  <2>2. CASE i = n + 1 /\ j \in 1 .. n
    BY <1>2, <1>4, <1>5, <2>2
  <2>3. CASE i \in 1 .. n /\ j = n + 1
    BY <1>2, <1>3, <1>4, <1>5, <2>3
  <2>4. CASE i = n + 1 /\ j = n + 1
    BY <1>2, <1>5, <2>4
  <2> QED BY <1>2, <2>1, <2>2, <2>3, <2>4
<1>7. ASSUME NEW u, NoUid(w, u), m[1] = "uid" => m[3] # u PROVE NoUid(v, u)
  BY <1>2, <1>7 DEF NoUid, n
<1>8. ASSUME NEW u \in Users, session'[u] # N!Absent PROVE NoUid(w, u) /\ NoUid(v, u)
  <2>1. session[u] # N!Absent
    BY <1>1, <1>8
  <2>2. NoUid(w, u)
    BY <2>1 DEF Once
  <2>3. m[1] = "uid" => m[3] # u
    BY <2>1 DEF Happens, Once
  <2> QED BY <1>7, <2>2, <2>3
<1>9. ASSUME NEW u \in fresh'
      PROVE  at'[u] = N!Absent /\ session'[u] = N!Absent /\ NoUid(w, u) /\ NoUid(v, u)
  <2>1. u \in Users /\ at[u] = N!Absent /\ session[u] = N!Absent /\ NoUid(w, u)
    BY <1>1, <1>9 DEF Once
  <2>2. m[1] = "uid" => m[3] # u
    BY <1>9 DEF Happens
  <2>3. at'[u] = Moved(N!Absent, Real, m, u)
    BY <2>1 DEF Happens
  <2>4. at'[u] = N!Absent
    BY <2>2, <2>3 DEF Moved
  <2> QED BY <1>1, <1>7, <2>1, <2>2, <2>4
<1>10. Once(w)'
  BY <1>1, <1>3, <1>8, <1>9 DEF Once, n
<1>11. Once(v)'
  BY <1>1, <1>2, <1>6, <1>8, <1>9 DEF Once
<1> QED BY <1>10, <1>11 DEF v

LEMMA JupesSent ==
  ASSUME NetTyped, NEW w, w = wire, NEW P, Story(w, P), NEW m, Happens(m),
         NEW Q, \A i \in 0 .. Len(w) : Q[i] = P[i]
  PROVE  JupesAgree(Append(w, m), Q)'
<1> DEFINE n == Len(w)  v == Append(w, m)
<1>1. /\ w \in Seq(Messages) /\ m \in Messages /\ OwnJupes' = OwnJupes /\ crossed' = crossed
      /\ \A s \in Servers : parent'[s] = Me <=> parent[s] = Me /\ m # <<"squit", s>>
  BY DEF NetTyped, Happens, Fits, OwnJupes
<1>2. /\ n \in Nat /\ Len(v) = n + 1 /\ v[n + 1] = m
      /\ \A i \in 1 .. n : v[i] = w[i] /\ i \in 1 .. n + 1 /\ i - 1 \in 0 .. n
      /\ \A i \in 1 .. n + 1 : i = n + 1 \/ i \in 1 .. n
      /\ n + 1 \in 1 .. n + 1 /\ (n + 1) - 1 = n /\ n \in 0 .. n
  <2>1. n \in Nat /\ Len(v) = n + 1 /\ v[n + 1] = m /\ \A i \in 1 .. n : v[i] = w[i]
    BY <1>1, AppendProperties, LenProperties
  <2> HIDE DEF n, v
  <2> QED BY <2>1
<1>3. P[n] = Real /\ JupesAgree(w, P)
  BY DEF Story, Runs
<1>4. \A i \in 0 .. n : Q[i] = P[i]
  OBVIOUS
<1> HIDE DEF v, n
<1>5. ASSUME NEW s \in Servers, parent'[s] = Me, s \notin crossed'
      PROVE  s \in OwnJupes' /\ \A i \in 1 .. n + 1 : v[i] # <<"squit", s>>
  <2>1. s \in OwnJupes /\ \A i \in 1 .. n : w[i] # <<"squit", s>>
    BY <1>1, <1>3, <1>5 DEF JupesAgree, n
  <2> QED BY <1>1, <1>2, <1>5, <2>1
<1>6. ASSUME NEW s \in Servers, s \in OwnJupes', parent'[s] # Me
      PROVE  \E i \in 1 .. n + 1 : v[i] = <<"squit", s>> /\ Q[i - 1][s] = Nowhere
  <2>1. CASE parent[s] = Me
    <3>1. v[n + 1] = <<"squit", s>> /\ Q[(n + 1) - 1][s] = Nowhere
      BY <1>1, <1>2, <1>3, <1>4, <1>6, <2>1, RealTree
    <3> QED BY <1>2, <3>1
  <2>2. CASE parent[s] # Me
    <3>1. PICK i \in 1 .. n : w[i] = <<"squit", s>> /\ P[i - 1][s] = Nowhere
      BY <1>1, <1>3, <1>6, <2>2 DEF JupesAgree, n
    <3> QED BY <1>2, <1>4, <3>1
  <2> QED BY <2>1, <2>2
<1>7. JupesAgree(v, Q)'
  BY <1>2, <1>5, <1>6 DEF JupesAgree
<1> QED BY <1>7 DEF v

LEMMA HappenKeeps ==
  ASSUME NetInv, NEW m, Happens(m)
  PROVE  NetInv'
<1>1. PICK w : w = wire
  OBVIOUS
<1>2. /\ NetTyped /\ Phases /\ Once(w) /\ w \in Seq(Messages) /\ Fits(Real, m)
      /\ Real' = After(Real, m) /\ Real \in Trees /\ Rooted(Real) /\ m \in Messages
      /\ \A u \in Users : at[u] \in Places /\ Stands(Real, at[u])
      /\ UNCHANGED <<link, seen, hidden, session, jupes, unset, cut, astray, crossed>>
      /\ wire' = IF link = "down" THEN w ELSE Append(w, m)
  BY <1>1, RealTree DEF NetInv, NetTyped, Happens, Fits, N!Send
<1>3. ASSUME NEW u \in Users
      PROVE  at'[u] = Moved(at[u], Real, m, u) /\ at'[u] \in Places /\ Stands(Real', at'[u])
  <2>1. at'[u] = Moved(at[u], Real, m, u)
    BY DEF Happens
  <2> QED BY <1>2, <2>1, MovedStands
<1>4. NetTyped'
  <2>1. Rooted(Real')
    BY <1>2, AfterSound
  <2>2. Append(w, m) \in Seq(Messages)
    BY <1>2, AppendProperties
  <2>3. SeenTyped' /\ NamesOnce'
    BY <1>2 DEF NetTyped, SeenTyped, NamesOnce, IsSeen
  <2> QED BY <1>2, <1>3, <2>1, <2>2, <2>3 DEF NetTyped, Happens
<1>5. Once(wire)'
  <2>1. Once(w)' /\ Once(Append(w, m))'
    BY <1>1, <1>2, OnceSent
  <2> QED BY <1>2, <2>1 DEF Once, NoUid
<1>6. Phases'
  <2>1. OwnJupes' = OwnJupes /\ \A s \in Servers : parent'[s] = Me => parent[s] = Me
    BY <1>2 DEF OwnJupes, Happens
  <2> QED BY <1>1, <1>2, <2>1 DEF Phases
<1>7. CASE link = "down"
  BY <1>2, <1>4, <1>5, <1>6, <1>7 DEF NetInv
<1>8. CASE link # "down"
  <2>1. PICK P : Story(w, P)
    BY <1>1, <1>8 DEF NetInv
  <2>2. Runs(w, Real, P) /\ ServersAgree(P[0]) /\ \A u \in Users \ astray : UserAgrees(w, P, u)
    BY <2>1 DEF Story
  <2>3. PICK Q : Runs(Append(w, m), After(Real, m), Q) /\ \A i \in 0 .. Len(w) : Q[i] = P[i]
    BY <1>2, <2>2, RunAppend
  <2>4. Len(w) \in Nat /\ P[Len(w)] = Real /\ Q[Len(w) + 1] = After(Real, m) /\ Q[0] = P[0]
    <3>1. Len(w) \in Nat /\ Len(Append(w, m)) = Len(w) + 1
      BY <1>2, LenProperties, AppendProperties
    <3> QED BY <2>2, <2>3, <3>1 DEF Runs
  <2>5. ASSUME NEW u \in Users \ astray
        PROVE  \E a : Tracks(Append(w, m), Q, u, a, at'[u]) /\ Placed(Q[0], a, u)'
    <3>1. PICK a : Tracks(w, P, u, a, at[u]) /\ Placed(P[0], a, u)
      BY <2>2 DEF UserAgrees
    <3> DEFINE last == at[u]  next == at'[u]
    <3>2. next = Moved(last, P[Len(w)], m, u) /\ next \in Places /\ Stands(Q[Len(w) + 1], next)
      BY <1>2, <1>3, <2>4
    <3> HIDE DEF last, next
    <3>3. Tracks(w, P, u, a, last)
      BY <3>1 DEF last
    <3>4. Tracks(Append(w, m), Q, u, a, next)
      BY <1>2, <2>3, <3>2, <3>3, TrackAppend
    <3>5. Placed(Q[0], a, u)'
      BY <1>2, <2>4, <3>1 DEF Placed, CutOff
    <3> QED BY <3>4, <3>5 DEF next
  <2>6. JupesAgree(Append(w, m), Q)'
    BY <1>1, <1>2, <2>1, <2>3, JupesSent
  <2>7. ServersAgree(Q[0])'
    BY <1>2, <2>2, <2>4 DEF ServersAgree, IsSeen
  <2>8. Runs(wire', Real', Q)
    BY <1>2, <1>8, <2>3
  <2>9. wire' = Append(w, m)
    BY <1>2, <1>8
  <2>10. Story(wire, Q)'
    BY <1>2, <2>5, <2>6, <2>7, <2>8, <2>9 DEF Story, JupesAgree, UserAgrees
  <2> QED BY <1>4, <1>5, <1>6, <2>10 DEF NetInv
<1> QED BY <1>7, <1>8

LEMMA RealPath ==
  ASSUME NetTyped, NEW x \in Servers, Real[x] # Nowhere
  PROVE  parent[x] = Real[x] /\ N!Path(parent, x) = N!Path(Real, x)
<1>1. Rooted(Real) /\ \A s \in Servers : Real[s] = IF parent[s] = Me THEN Nowhere ELSE parent[s]
  BY RealTree DEF NetTyped
<1>2. \A y \in N!Path(Real, x) : y \in Servers /\ Real[y] # Nowhere
  BY <1>1, PathRoot, PathHas
<1>3. \A y \in N!Path(Real, x) : parent[y] = Real[y]
  BY <1>1, <1>2
<1> QED BY <1>1, <1>3, PathSame

LEMMA LinkHappens ==
  ASSUME NetTyped, NEW s \in Servers, NEW p \in Servers \cup {Hub}, N!Link(s, p)
  PROVE  Happens(<<"sid", p, s>>)
<1> DEFINE m == <<"sid", p, s>>
<1>1. m[1] = "sid" /\ m[2] = p /\ m[3] = s /\ \A x : m # <<"squit", x>>
  OBVIOUS
<1>2. /\ parent[s] = Nowhere /\ p \in N!Linked \cup {Hub} /\ parent' = [parent EXCEPT ![s] = p]
      /\ parent \in [Servers -> Servers \cup {Hub, Me, Nowhere}] /\ p # Me
      /\ at' = at /\ at \in [Users -> Places] /\ fresh' = fresh
  BY NetworkAssumption DEF N!Link, NetTyped
<1>3. \A x \in Servers : Real[x] = IF parent[x] = Me THEN Nowhere ELSE parent[x]
  BY RealTree
<1>4. Fits(Real, m)
  <2>1. m \in Messages
    BY DEF Messages
  <2>2. IsIn(Real, p) /\ Real[s] = Nowhere
    BY <1>2, <1>3, NetworkAssumption DEF IsIn, N!Linked
  <2> QED BY <2>1, <2>2 DEF Fits
<1>5. Real' = After(Real, m)
  <2>1. \A x \in Servers : (IF parent'[x] = Me THEN Nowhere ELSE parent'[x])
                           = IF x = s THEN p ELSE Real[x]
    BY <1>2, <1>3
  <2>2. Real' = [x \in Servers |-> IF x = s THEN p ELSE Real[x]]
    BY <2>1 DEF Real
  <2>3. Real \in Trees
    BY RealTree
  <2> QED BY <2>2, <2>3 DEF After, Trees
<1>6. \A x \in Servers : parent'[x] = Me <=> parent[x] = Me
  BY <1>2, NetworkAssumption
<1>7. \A u \in Users : at'[u] = Moved(at[u], Real, m, u)
  BY <1>1, <1>2 DEF Moved
<1>8. N!Send(m) /\ UNCHANGED <<link, seen, hidden, session, jupes, unset, cut, astray, crossed>>
  BY DEF N!Link, N!services
<1> HIDE DEF m
<1> QED BY <1>1, <1>2, <1>4, <1>5, <1>6, <1>7, <1>8 DEF Happens, m

LEMMA SplitHappens ==
  ASSUME NetTyped, NEW s \in Servers, N!Split(s)
  PROVE  Happens(<<"squit", s>>)
<1> DEFINE m == <<"squit", s>>  gone == N!Behind(parent, s)  lost == N!Behind(Real, s)
<1>1. m[1] = "squit" /\ m[2] = s /\ \A x : m = <<"squit", x>> <=> x = s
  OBVIOUS
<1>2. /\ parent' = N!Without(parent, gone) /\ at' = N!Emptied(at, gone) /\ fresh' = fresh
      /\ parent \in [Servers -> Servers \cup {Hub, Me, Nowhere}] /\ at \in [Users -> Places]
      /\ parent[s] # Nowhere
  BY DEF N!Split, NetTyped
<1>3. \A x \in Servers : Real[x] = IF parent[x] = Me THEN Nowhere ELSE parent[x]
  BY RealTree
<1>4. \A x \in Servers : Real[x] # Nowhere => (x \in gone <=> x \in lost)
  BY RealPath DEF N!Behind
<1>5. \A x \in Servers : parent[x] = Me => (x \in gone <=> x = s)
  BY PathAlone, NetworkAssumption DEF N!Behind
<1>6. lost \subseteq Servers /\ gone \subseteq Servers
  BY DEF N!Behind
<1>7. Fits(Real, m)
  BY DEF Fits, Messages
<1> HIDE DEF gone, lost
<1>8. \A x \in Servers : parent'[x] = IF x \in gone THEN Nowhere ELSE parent[x]
  BY <1>2 DEF N!Without
<1>9. Real' = After(Real, m)
  <2>1. \A x \in Servers : (IF parent'[x] = Me THEN Nowhere ELSE parent'[x])
                           = IF x \in lost THEN Nowhere ELSE Real[x]
    BY <1>3, <1>4, <1>5, <1>8
  <2>2. Real' = [x \in Servers |-> IF x \in lost THEN Nowhere ELSE Real[x]]
    BY <2>1 DEF Real
  <2> QED BY <1>1, <2>2 DEF After, N!Without, lost
<1>10. \A x \in Servers : parent'[x] = Me <=> parent[x] = Me /\ m # <<"squit", x>>
  BY <1>1, <1>5, <1>8, NetworkAssumption
<1>11. parent' \in [Servers -> Servers \cup {Hub, Me, Nowhere}]
  BY <1>2 DEF N!Without
<1>12. ASSUME NEW u \in Users PROVE at'[u] = Moved(at[u], Real, m, u)
  <2>1. at'[u] = IF at[u].server \in gone THEN N!Absent ELSE at[u]
    BY <1>2 DEF N!Emptied
  <2>2. Moved(at[u], Real, m, u) = IF at[u].server \in lost THEN N!Absent ELSE at[u]
    BY <1>1 DEF Moved, lost
  <2>3. CASE at[u] = N!Absent
    BY <2>1, <2>2, <2>3
  <2>4. CASE at[u] # N!Absent
    <3>1. at[u].server = Hub \/ (at[u].server \in Servers /\ Real[at[u].server] # Nowhere)
      BY <2>4 DEF NetTyped, Stands, IsIn
    <3> QED BY <1>4, <1>6, <2>1, <2>2, <3>1, NetworkAssumption
  <2> QED BY <2>3, <2>4
<1>13. at' \in [Users -> Places]
  <2>1. at' = [u \in Users |-> IF at[u].server \in gone THEN N!Absent ELSE at[u]]
    BY <1>2 DEF N!Emptied
  <2> QED BY <1>2, <2>1 DEF Places
<1>14. N!Send(m) /\ UNCHANGED <<link, seen, hidden, session, jupes, unset, cut, astray, crossed>>
  BY DEF N!Split, N!services
<1> HIDE DEF m
<1> QED BY <1>1, <1>2, <1>7, <1>9, <1>10, <1>11, <1>12, <1>13, <1>14 DEF Happens, m

\* What users do leaves the tree as it is.
LEMMA UserHappens ==
  ASSUME NetTyped, NEW m, Fits(Real, m), m[1] \in {"uid", "nick", "quit"}, parent' = parent,
         at' \in [Users -> Places], \A u \in Users : at'[u] = Moved(at[u], Real, m, u),
         m[1] = "uid" => m[3] \in fresh,
         fresh' = IF m[1] = "uid" THEN fresh \ {m[3]} ELSE fresh, N!Send(m),
         UNCHANGED <<link, seen, hidden, session, jupes, unset, cut, astray, crossed>>
  PROVE  Happens(m)
<1>1. Real' = Real /\ After(Real, m) = Real /\ \A x : m # <<"squit", x>>
  BY DEF Real, After
<1> QED BY <1>1 DEF Happens, NetTyped

LEMMA ConnectHappens ==
  ASSUME NetTyped, NEW u \in Users, NEW s \in Servers \cup {Hub}, NEW n \in Names,
         N!UserConnect(u, s, n)
  PROVE  Happens(<<"uid", s, u, n>>)
<1> DEFINE m == <<"uid", s, u, n>>  new == [server |-> s, name |-> n]
<1>1. m[1] = "uid" /\ m[2] = s /\ m[3] = u /\ m[4] = n
  OBVIOUS
<1>2. /\ u \in fresh /\ s \in N!Linked \cup {Hub} /\ fresh' = fresh \ {u}
      /\ at' = [at EXCEPT ![u] = new] /\ parent' = parent /\ N!Send(m)
      /\ UNCHANGED <<link, seen, hidden, session, jupes, unset, cut, astray, crossed>>
  BY DEF N!UserConnect, N!services
<1>3. at \in [Users -> Places] /\ new \in Places
  BY DEF NetTyped, Places
<1>4. Fits(Real, m)
  <2>1. m \in Messages
    BY DEF Messages
  <2>2. IsIn(Real, s)
    BY <1>2, RealTree DEF IsIn, N!Linked
  <2> QED BY <2>1, <2>2 DEF Fits
<1>5. \A w \in Users : Moved(at[w], Real, m, w) = IF w = u THEN new ELSE at[w]
  BY <1>1 DEF Moved
<1> HIDE DEF m, new
<1>6. at' \in [Users -> Places] /\ \A w \in Users : at'[w] = Moved(at[w], Real, m, w)
  BY <1>2, <1>3, <1>5
<1> QED BY <1>1, <1>2, <1>4, <1>6, UserHappens DEF m

LEMMA NickHappens ==
  ASSUME NetTyped, NEW u \in Users, NEW n \in Names, N!UserNick(u, n)
  PROVE  Happens(<<"nick", u, n>>)
<1> DEFINE m == <<"nick", u, n>>  new == [at[u] EXCEPT !.name = n]
<1>1. m[1] = "nick" /\ m[2] = u /\ m[3] = n
  OBVIOUS
<1>2. /\ at[u] # N!Absent /\ at' = [at EXCEPT ![u] = new] /\ parent' = parent /\ fresh' = fresh
      /\ N!Send(m) /\ UNCHANGED <<link, seen, hidden, session, jupes, unset, cut, astray, crossed>>
  BY DEF N!UserNick, N!services, N!Online
<1>3. at \in [Users -> Places] /\ at[u] \in [server : Servers \cup {Hub}, name : Names]
  BY <1>2 DEF NetTyped, Places
<1>4. new \in Places
  BY <1>3 DEF Places
<1>5. Fits(Real, m)
  BY DEF Fits, Messages
<1>6. \A w \in Users : Moved(at[w], Real, m, w) = IF w = u THEN new ELSE at[w]
  BY <1>1, <1>2 DEF Moved
<1> HIDE DEF m, new
<1>7. at' \in [Users -> Places] /\ \A w \in Users : at'[w] = Moved(at[w], Real, m, w)
  BY <1>2, <1>3, <1>4, <1>6
<1> QED BY <1>1, <1>2, <1>5, <1>7, UserHappens DEF m

LEMMA QuitHappens ==
  ASSUME NetTyped, NEW u \in Users, N!UserQuit(u)
  PROVE  Happens(<<"quit", u>>)
<1> DEFINE m == <<"quit", u>>
<1>1. m[1] = "quit" /\ m[2] = u
  OBVIOUS
<1>2. /\ at' = [at EXCEPT ![u] = N!Absent] /\ parent' = parent /\ fresh' = fresh /\ N!Send(m)
      /\ UNCHANGED <<link, seen, hidden, session, jupes, unset, cut, astray, crossed>>
  BY DEF N!UserQuit, N!services
<1>3. at \in [Users -> Places] /\ N!Absent \in Places
  BY DEF NetTyped, Places
<1>4. Fits(Real, m)
  BY DEF Fits, Messages
<1>5. \A w \in Users : Moved(at[w], Real, m, w) = IF w = u THEN N!Absent ELSE at[w]
  BY <1>1 DEF Moved
<1> HIDE DEF m
<1>6. at' \in [Users -> Places] /\ \A w \in Users : at'[w] = Moved(at[w], Real, m, w)
  BY <1>2, <1>3, <1>5
<1> QED BY <1>1, <1>2, <1>4, <1>6, UserHappens DEF m

-----------------------------------------------------------------------------
(* What services do.                                                       *)

LEMMA Downed ==
  ASSUME NetInv, N!Fallen, at' = at, fresh' = fresh, jupes' \subseteq Servers, unset' \subseteq jupes'
  PROVE  NetInv'
<1>1. NetTyped /\ Once(wire)
  BY DEF NetInv
<1>2. /\ link' = "down" /\ wire' = << >> /\ seen' = N!None /\ hidden' = {} /\ session' = N!Nobody
      /\ cut' = {} /\ astray' = {} /\ crossed' = {}
      /\ parent' = [s \in Servers |-> IF s \in {x \in Servers : parent[x] = Me} THEN Nowhere ELSE parent[s]]
  BY DEF N!Fallen, N!Without
<1>3. Real' = Real
  <2>1. \A s \in Servers : (IF parent'[s] = Me THEN Nowhere ELSE parent'[s])
                           = IF parent[s] = Me THEN Nowhere ELSE parent[s]
    BY <1>2
  <2> QED BY <2>1 DEF Real
<1>4. seen' = [s \in Servers |-> Nowhere] /\ session' = [u \in Users |-> N!Absent]
  BY <1>2 DEF N!None, N!Nobody
<1>5. SeenTyped'
  <2>1. seen' \in [Servers -> Servers \cup {Hub, Me, Nowhere}]
    BY <1>4
  <2>2. session' \in [Users -> Places]
    BY <1>4 DEF Places
  <2> QED BY <1>2, <1>4, <2>1, <2>2 DEF SeenTyped
<1>6. NetTyped'
  <2>1. parent' \in [Servers -> Servers \cup {Hub, Me, Nowhere}]
    BY <1>1, <1>2 DEF NetTyped
  <2>2. NamesOnce'
    BY <1>4 DEF NamesOnce
  <2> QED BY <1>1, <1>2, <1>3, <1>5, <2>1, <2>2, EmptySeq DEF NetTyped
<1>7. Once(wire)'
  <2>1. fresh \subseteq Users /\ \A u \in fresh : at[u] = N!Absent
    BY <1>1 DEF NetTyped, Once
  <2> QED BY <1>2, <1>4, <2>1, EmptySeq DEF Once, NoUid
<1>8. Phases'
  <2>1. OwnJupes' = {} /\ \A s \in Servers : parent'[s] # Me
    BY <1>2, <1>4, NetworkAssumption DEF OwnJupes
  <2> QED BY <1>2, <2>1 DEF Phases
<1> QED BY <1>2, <1>6, <1>7, <1>8 DEF NetInv

\* Nothing is sent; users stay where they are or are gone on both sides.
Settled(w, u) ==
  \/ session'[u] = session[u] /\ at'[u] = at[u]
  \/ session'[u] = N!Absent /\ at'[u] = N!Absent /\ NoUid(w, u)

LEMMA StoryStays ==
  ASSUME NEW w \in Seq(Messages), NEW P, Story(w, P), Real' = Real, cut' = cut,
         ServersAgree(P[0])', JupesAgree(w, P)',
         \A u \in Users \ astray' : u \notin astray /\ Settled(w, u)
  PROVE  Story(w, P)'
<1>1. ASSUME NEW u \in Users \ astray' PROVE UserAgrees(w, P, u)'
  <2>1. CASE session'[u] = session[u] /\ at'[u] = at[u]
    <3>1. PICK a : Tracks(w, P, u, a, at[u]) /\ Placed(P[0], a, u)
      BY DEF Story, UserAgrees
    <3>2. Placed(P[0], a, u)'
      BY <2>1, <3>1 DEF Placed, CutOff
    <3> QED BY <2>1, <3>1, <3>2 DEF UserAgrees
  <2>2. CASE session'[u] = N!Absent /\ at'[u] = N!Absent /\ NoUid(w, u)
    <3>1. Tracks(w, P, u, N!Absent, N!Absent)
      BY <2>2, TrackGone
    <3>2. Placed(P[0], N!Absent, u)'
      BY <2>2 DEF Placed
    <3> QED BY <2>2, <3>1, <3>2 DEF UserAgrees
  <2> QED BY <2>1, <2>2 DEF Settled
<1> QED BY <1>1 DEF Story

LEMMA OnceStays ==
  ASSUME NEW w, Once(w), link' = link, fresh' = fresh, fresh \subseteq Users,
         \A u \in Users : session'[u] \in {session[u], N!Absent} /\ at'[u] \in {at[u], N!Absent}
  PROVE  Once(w)'
BY DEF Once

\* Servers of services' own that are new.
LEMMA Introduced ==
  ASSUME NetTyped, NEW S \in SUBSET Servers,
         \A s \in S : parent[s] = Nowhere /\ seen[s] = Nowhere,
         NEW rows, N!Introduce(S, rows)
  PROVE  /\ Real' = Real /\ SeenTyped' /\ OwnJupes' = OwnJupes \cup S /\ jupes' = rows
         /\ UNCHANGED <<session, cut, astray>>
         /\ parent' \in [Servers -> Servers \cup {Hub, Me, Nowhere}]
         /\ \A t : ServersAgree(t) => ServersAgree(t)'
         /\ \A w \in Seq(Messages) : \A P : JupesAgree(w, P) /\ w = wire => JupesAgree(w, P)'
<1>1. /\ seen' = [s \in Servers |-> IF s \in S THEN Me ELSE seen[s]]
      /\ parent' = [s \in Servers |-> IF s \in S THEN Me ELSE parent[s]]
      /\ crossed' = crossed \cup {s \in S : <<"squit", s>> \in ToSet(wire)}
      /\ jupes' = rows /\ UNCHANGED <<hidden, session, cut, astray>>
  <2>1. ~\E s \in S : parent[s] # Nowhere
    OBVIOUS
  <2> QED BY <2>1 DEF N!Introduce, N!ToSet, ToSet
<1>2. SeenTyped /\ wire \in Seq(Messages)
  BY DEF NetTyped
<1>3. Real' = Real
  <2>1. \A s \in Servers : (IF parent'[s] = Me THEN Nowhere ELSE parent'[s])
                           = IF parent[s] = Me THEN Nowhere ELSE parent[s]
    BY <1>1, NetworkAssumption
  <2> QED BY <2>1 DEF Real
<1>4. \A s \in Servers : /\ IsSeen(s)' <=> IsSeen(s)
                         /\ IsSeen(s) => seen'[s] = seen[s]
                         /\ seen'[s] \in {seen[s], Me}
                         /\ seen'[s] # seen[s] => s \in S
  BY <1>1, NetworkAssumption DEF IsSeen
<1>5. SeenTyped'
  <2>1. seen' \in [Servers -> Servers \cup {Hub, Me, Nowhere}]
    BY <1>1, <1>2 DEF SeenTyped
  <2> QED BY <1>1, <1>2, <1>4, <2>1 DEF SeenTyped
<1>6. OwnJupes' = OwnJupes \cup S
  BY <1>1, NetworkAssumption DEF OwnJupes
<1>7. parent' \in [Servers -> Servers \cup {Hub, Me, Nowhere}]
  BY <1>1 DEF NetTyped
<1>8. ASSUME NEW t, ServersAgree(t) PROVE ServersAgree(t)'
  <2> SUFFICES ASSUME NEW s \in Servers
               PROVE  /\ IsSeen(s)' => seen'[s] = t[s]
                      /\ t[s] # Nowhere /\ seen'[s] # t[s] => N!Path(t, s) \cap cut' # {}
                      /\ s \in hidden' => IsSeen(s)'
                      /\ seen'[s] \in Servers => IsSeen(seen[s])'
    BY DEF ServersAgree
  <2>1. /\ IsSeen(s) => seen[s] = t[s]
        /\ t[s] # Nowhere /\ seen[s] # t[s] => N!Path(t, s) \cap cut # {}
        /\ s \in hidden => IsSeen(s)
        /\ seen[s] \in Servers => IsSeen(seen[s])
    BY <1>8 DEF ServersAgree
  <2>2. IsSeen(s)' => seen'[s] = t[s]
    BY <1>4, <2>1
  <2>3. ASSUME t[s] # Nowhere, seen'[s] # t[s] PROVE N!Path(t, s) \cap cut' # {}
    <3>1. seen[s] # t[s]
      BY <1>1, <2>3
    <3> QED BY <1>1, <2>1, <2>3, <3>1
  <2>4. s \in hidden' => IsSeen(s)'
    BY <1>1, <1>4, <2>1
  <2>5. ASSUME seen'[s] \in Servers PROVE IsSeen(seen[s])'
    <3>1. seen'[s] = seen[s] /\ IsSeen(seen[s])
      BY <1>4, <2>1, <2>5, NetworkAssumption
    <3>2. seen'[s] \in Servers /\ IsSeen(seen'[s])
      BY <2>5, <3>1
    <3>3. \A y \in Servers : IsSeen(y) => seen'[y] \notin {Nowhere, Me}
      BY <1>4 DEF IsSeen
    <3> QED BY <3>2, <3>3 DEF IsSeen
  <2> QED BY <2>2, <2>3, <2>4, <2>5
<1>9. ASSUME NEW w \in Seq(Messages), NEW P, JupesAgree(w, P), w = wire PROVE JupesAgree(w, P)'
  <2> SUFFICES ASSUME NEW s \in Servers
               PROVE  /\ parent'[s] = Me /\ s \notin crossed' =>
                           s \in OwnJupes' /\ \A i \in 1 .. Len(w) : w[i] # <<"squit", s>>
                      /\ s \in OwnJupes' /\ parent'[s] # Me =>
                           \E i \in 1 .. Len(w) : w[i] = <<"squit", s>> /\ P[i - 1][s] = Nowhere
    BY DEF JupesAgree
  <2>1. CASE s \in S
    <3>1. s \notin crossed' => <<"squit", s>> \notin ToSet(w)
      BY <1>1, <1>9, <2>1
    <3>2. \A i \in 1 .. Len(w) : w[i] \in ToSet(w)
      BY <1>2, <1>9, LenProperties DEF ToSet
    <3> QED BY <1>1, <1>6, <2>1, <3>1, <3>2
  <2>2. CASE s \notin S
    BY <1>1, <1>6, <1>9, <2>2 DEF JupesAgree
  <2> QED BY <2>1, <2>2
<1> QED BY <1>1, <1>3, <1>5, <1>6, <1>7, <1>8, <1>9

LEMMA JupeAddKeeps == ASSUME NetInv, NEW s \in Servers, N!JupeAdd(s) PROVE NetInv'
<1>1. NetTyped /\ Phases /\ Once(wire)
  BY DEF NetInv
<1>2. /\ link = "up" /\ seen[s] = Nowhere /\ at' = at /\ fresh' = fresh /\ unset' = unset
      /\ \/ /\ s \notin jupes /\ N!Introduce({s}, jupes \cup {s})
            /\ IF parent[s] # Nowhere THEN TRUE ELSE UNCHANGED <<link, wire>>
         \/ N!Fallen /\ jupes' = jupes
  BY DEF N!JupeAdd, N!Found
<1>3. CASE N!Fallen /\ jupes' = jupes
  BY <1>1, <1>2, <1>3, Downed DEF NetTyped
<1>4. CASE N!Introduce({s}, jupes \cup {s}) /\ parent[s] # Nowhere
  <2>1. N!Fallen /\ jupes' = jupes \cup {s}
    BY <1>4 DEF N!Introduce
  <2> QED BY <1>1, <1>2, <2>1, Downed DEF NetTyped
<1>5. CASE N!Introduce({s}, jupes \cup {s}) /\ parent[s] = Nowhere /\ UNCHANGED <<link, wire>>
  <2>1. PICK w : w = wire
    OBVIOUS
  <2>2. PICK P : Story(w, P)
    BY <1>2, <2>1 DEF NetInv
  <2>3. link' = link /\ wire' = wire
    BY <1>5
  <2>4. /\ Real' = Real /\ SeenTyped' /\ OwnJupes' = OwnJupes \cup {s} /\ jupes' = jupes \cup {s}
        /\ UNCHANGED <<session, cut, astray>>
        /\ parent' \in [Servers -> Servers \cup {Hub, Me, Nowhere}]
        /\ \A t : ServersAgree(t) => ServersAgree(t)'
        /\ \A w1 \in Seq(Messages) : \A P1 : JupesAgree(w1, P1) /\ w1 = wire => JupesAgree(w1, P1)'
    BY <1>1, <1>2, <1>5, Introduced
  <2>5. Story(w, P)'
    <3>1. ServersAgree(P[0])' /\ JupesAgree(w, P)'
      BY <1>1, <2>1, <2>2, <2>4 DEF Story, NetTyped
    <3>2. \A u \in Users \ astray' : u \notin astray /\ Settled(w, u)
      BY <1>2, <2>4 DEF Settled
    <3> QED BY <1>1, <2>1, <2>2, <2>4, <3>1, <3>2, StoryStays DEF NetTyped
  <2>6. \E P1 : Story(wire, P1)'
    BY <2>1, <2>3, <2>5 DEF Story, JupesAgree, UserAgrees
  <2>7. NetTyped'
    BY <1>1, <1>2, <2>3, <2>4 DEF NetTyped, NamesOnce
  <2>8. Once(wire)'
    BY <1>1, <1>2, <2>3, <2>4 DEF Once
  <2>9. Phases'
    BY <1>1, <1>2, <2>3, <2>4 DEF Phases
  <2> QED BY <2>6, <2>7, <2>8, <2>9 DEF NetInv
<1> QED BY <1>2, <1>3, <1>4, <1>5

LEMMA JupeDelKeeps == ASSUME NetInv, NEW s \in Servers, N!JupeDel(s) PROVE NetInv'
<1>1. NetTyped /\ Phases /\ Once(wire) /\ SeenTyped /\ wire \in Seq(Messages)
  BY DEF NetInv, NetTyped
<1>2. /\ link = "up" /\ seen[s] = Me /\ N!ExitServer(s)
      /\ parent' = [parent EXCEPT ![s] = IF parent[s] = Me THEN Nowhere ELSE parent[s]]
      /\ UNCHANGED <<at, fresh, wire, link, cut, astray, crossed>>
  BY DEF N!JupeDel, N!SquitServer
<1>3. PICK w : w = wire
  OBVIOUS
<1>4. PICK P : Story(w, P)
  BY <1>2, <1>3 DEF NetInv
<1>5. ServersAgree(P[0]) /\ JupesAgree(w, P) /\ P[0] \in Trees
  <2>1. Runs(w, Real, P) /\ Len(w) \in Nat
    BY <1>1, <1>3, <1>4, LenProperties DEF Story
  <2>2. 0 \in 0 .. Len(w)
    BY <2>1
  <2> QED BY <1>4, <2>1, <2>2 DEF Story, Runs
<1>6. /\ seen' = [seen EXCEPT ![s] = Nowhere] /\ hidden' = hidden /\ session' = session
      /\ jupes' = jupes \ {s} /\ unset' = unset \ {s}
      /\ OwnJupes' = OwnJupes \ {s} /\ SeenTyped'
  BY <1>1, <1>2, <1>5, ExitJupe
<1>7. \A x \in Servers : /\ seen'[x] = IF x = s THEN Nowhere ELSE seen[x]
                         /\ parent'[x] = IF x = s /\ parent[x] = Me THEN Nowhere ELSE parent[x]
  BY <1>1, <1>2, <1>6 DEF SeenTyped, NetTyped
<1>8. Real' = Real
  <2>1. \A x \in Servers : (IF parent'[x] = Me THEN Nowhere ELSE parent'[x])
                           = IF parent[x] = Me THEN Nowhere ELSE parent[x]
    BY <1>7
  <2> QED BY <2>1 DEF Real
<1>9. ServersAgree(P[0])'
  <2> DEFINE t == P[0]
  <2>1. ServersAgree(t) /\ t \in Trees
    BY <1>5
  <2> HIDE DEF t
  <2>2. \A x \in Servers : (IsSeen(x)' <=> IsSeen(x)) /\ (IsSeen(x) => seen'[x] = seen[x])
    BY <1>2, <1>7 DEF IsSeen
  <2> SUFFICES ASSUME NEW x \in Servers
               PROVE  /\ IsSeen(x)' => seen'[x] = t[x]
                      /\ t[x] # Nowhere /\ seen'[x] # t[x] => N!Path(t, x) \cap cut' # {}
                      /\ x \in hidden' => IsSeen(x)'
                      /\ seen'[x] \in Servers => IsSeen(seen[x])'
    BY DEF ServersAgree, t
  <2>3. /\ IsSeen(x)' => seen'[x] = t[x]
        /\ x \in hidden' => IsSeen(x)'
    BY <1>6, <2>1, <2>2 DEF ServersAgree
  <2>4. ASSUME t[x] # Nowhere, seen'[x] # t[x] PROVE N!Path(t, x) \cap cut' # {}
    <3>1. seen[x] # t[x]
      BY <1>2, <1>7, <2>1, <2>4, NetworkAssumption DEF Trees
    <3> QED BY <1>2, <2>1, <2>4, <3>1 DEF ServersAgree
  <2>5. ASSUME seen'[x] \in Servers PROVE IsSeen(seen[x])'
    <3>1. seen'[x] = seen[x] /\ IsSeen(seen[x])
      BY <1>7, <2>1, <2>5, NetworkAssumption DEF ServersAgree
    <3>2. seen'[x] \in Servers /\ IsSeen(seen'[x])
      BY <2>5, <3>1
    <3>3. \A y \in Servers : IsSeen(y) => seen'[y] \notin {Nowhere, Me}
      BY <2>2 DEF IsSeen
    <3> QED BY <3>2, <3>3 DEF IsSeen
  <2> QED BY <2>3, <2>4, <2>5
<1>10. JupesAgree(w, P)'
  <2> SUFFICES ASSUME NEW x \in Servers
               PROVE  /\ parent'[x] = Me /\ x \notin crossed' =>
                           x \in OwnJupes' /\ \A i \in 1 .. Len(w) : w[i] # <<"squit", x>>
                      /\ x \in OwnJupes' /\ parent'[x] # Me =>
                           \E i \in 1 .. Len(w) : w[i] = <<"squit", x>> /\ P[i - 1][x] = Nowhere
    BY DEF JupesAgree
  <2>1. CASE x = s
    BY <1>6, <1>7, <2>1, NetworkAssumption
  <2>2. CASE x # s
    BY <1>2, <1>5, <1>6, <1>7, <2>2 DEF JupesAgree
  <2> QED BY <2>1, <2>2
<1>11. \A u \in Users \ astray' : u \notin astray /\ Settled(w, u)
  BY <1>2, <1>6 DEF Settled
<1>12. Story(w, P)'
  BY <1>1, <1>2, <1>3, <1>4, <1>8, <1>9, <1>10, <1>11, StoryStays
<1>13. \E P1 : Story(wire, P1)'
  BY <1>2, <1>3, <1>12 DEF Story, JupesAgree, UserAgrees
<1>14. NetTyped'
  <2>1. parent' \in [Servers -> Servers \cup {Hub, Me, Nowhere}]
    BY <1>1, <1>2 DEF NetTyped
  <2> QED BY <1>1, <1>2, <1>6, <1>8, <2>1 DEF NetTyped, NamesOnce
<1>15. Once(wire)'
  BY <1>1, <1>2, <1>6 DEF Once
<1>16. Phases'
  BY <1>1, <1>2, <1>6 DEF Phases
<1> QED BY <1>13, <1>14, <1>15, <1>16 DEF NetInv

LEMMA KillKeeps == ASSUME NetInv, NEW u \in Users, N!KillUser(u) PROVE NetInv'
<1> DEFINE hit == N!Wearer(at, session[u].name)
           alike == hit \subseteq {u} /\ (at[u] = N!Absent \/ u \in hit)
<1>1. NetTyped /\ Phases /\ Once(wire) /\ SeenTyped /\ NamesOnce /\ wire \in Seq(Messages)
      /\ session \in [Users -> Places] /\ at \in [Users -> Places]
  BY DEF NetInv, NetTyped, SeenTyped
<1>2. /\ link = "up" /\ session[u] # N!Absent /\ session' = [session EXCEPT ![u] = N!Absent]
      /\ at' = [v \in Users |-> IF v \in hit THEN N!Absent ELSE at[v]]
      /\ astray' = IF alike THEN astray ELSE astray \cup hit \cup {u}
      /\ UNCHANGED <<parent, fresh, wire, link, seen, hidden, jupes, unset, cut, crossed>>
  BY DEF N!KillUser
<1> HIDE DEF hit
<1>3. PICK w : w = wire
  OBVIOUS
<1>4. PICK P : Story(w, P)
  BY <1>2, <1>3 DEF NetInv
<1>5. Real' = Real /\ ServersAgree(P[0])' /\ JupesAgree(w, P)'
  BY <1>2, <1>4 DEF Real, Story, ServersAgree, IsSeen, JupesAgree, OwnJupes
<1>6. session'[u] = N!Absent /\ \A v \in Users \ {u} : session'[v] = session[v]
  BY <1>1, <1>2
<1>7. \A v \in Users : at'[v] = IF v \in hit THEN N!Absent ELSE at[v]
  BY <1>2
<1>8. NoUid(w, u)
  BY <1>1, <1>2, <1>3 DEF Once
<1>9. ASSUME NEW v \in Users \ astray' PROVE v \notin astray /\ Settled(w, v)
  <2>1. CASE alike
    <3>1. CASE v = u
      BY <1>2, <1>6, <1>7, <1>8, <2>1, <3>1 DEF Settled
    <3>2. CASE v # u
      BY <1>2, <1>6, <1>7, <2>1, <3>2 DEF Settled
    <3> QED BY <3>1, <3>2
  <2>2. CASE ~alike
    BY <1>2, <1>6, <1>7, <2>2 DEF Settled
  <2> QED BY <2>1, <2>2
<1>10. Story(w, P)'
  BY <1>1, <1>2, <1>3, <1>4, <1>5, <1>9, StoryStays
<1>11. \E P1 : Story(wire, P1)'
  BY <1>2, <1>3, <1>10 DEF Story, JupesAgree, UserAgrees
<1>12. NetTyped'
  <2>1. at' \in [Users -> Places]
    BY <1>1, <1>2 DEF Places
  <2>2. session' \in [Users -> Places]
    BY <1>1, <1>2 DEF Places
  <2>3. SeenTyped'
    BY <1>1, <1>2, <1>6, <2>2 DEF SeenTyped, IsSeen
  <2>4. NamesOnce'
    BY <1>1, <1>6 DEF NamesOnce
  <2>5. \A v \in Users : Stands(Real, at'[v])
    BY <1>1, <1>7 DEF NetTyped, Stands
  <2> QED BY <1>1, <1>2, <1>5, <2>1, <2>3, <2>4, <2>5 DEF NetTyped
<1>13. Once(wire)'
  <2>1. fresh \subseteq Users /\ \A v \in Users :
          session'[v] \in {session[v], N!Absent} /\ at'[v] \in {at[v], N!Absent}
    BY <1>1, <1>6, <1>7 DEF NetTyped
  <2>2. Once(w)'
    BY <1>1, <1>2, <1>3, <2>1, OnceStays
  <2> QED BY <1>2, <1>3, <2>2 DEF Once, NoUid
<1>14. Phases'
  BY <1>1, <1>2 DEF Phases, OwnJupes
<1> QED BY <1>11, <1>12, <1>13, <1>14 DEF NetInv

LEMMA SetterKeeps == ASSUME NetInv, NEW s \in Servers, N!SetterGone(s) PROVE NetInv'
<1>1. /\ link = "up" /\ s \in jupes /\ unset' = unset \cup {s}
      /\ UNCHANGED <<parent, at, fresh, wire, link, seen, hidden, session, jupes, cut, astray, crossed>>
  BY DEF N!SetterGone, N!network, N!services
<1>2. NetTyped'
  BY <1>1 DEF NetInv, NetTyped, SeenTyped, NamesOnce, IsSeen, Real
<1>3. Once(wire)' /\ Phases'
  BY <1>1 DEF NetInv, Once, Phases, OwnJupes
<1>4. \E P : Story(wire, P)'
  <2>1. PICK P : Story(wire, P)
    BY <1>1 DEF NetInv
  <2>2. Real' = Real
    BY <1>1 DEF Real
  <2>3. Story(wire, P)'
    BY <1>1, <2>1, <2>2
       DEF Story, ServersAgree, IsSeen, JupesAgree, OwnJupes, UserAgrees, Placed, CutOff
  <2> QED BY <2>3
<1> QED BY <1>2, <1>3, <1>4 DEF NetInv

LEMMA EobKeeps == ASSUME NetInv, N!RecvEob PROVE NetInv'
<1> DEFINE rest == {s \in jupes : seen[s] = Nowhere}
<1>1. /\ NetTyped /\ Phases /\ Once(wire) /\ SeenTyped /\ wire \in Seq(Messages)
      /\ unset \subseteq jupes /\ jupes \subseteq Servers /\ rest \subseteq jupes
  BY DEF NetInv, NetTyped
<1>2. /\ link # "down" /\ wire # << >> /\ Head(wire)[1] = "eob" /\ at' = at /\ fresh' = fresh
      /\ unset' = unset
      /\ IF unset # {} THEN N!Fallen /\ jupes' = jupes
         ELSE /\ N!Introduce(rest, rest)
              /\ link' = (IF \E s \in rest : parent[s] # Nowhere THEN "down" ELSE "up")
              /\ wire' = (IF \E s \in rest : parent[s] # Nowhere THEN << >> ELSE Tail(wire))
  BY DEF N!RecvEob, N!Heads, N!Readable
<1> HIDE DEF rest
<1>3. CASE unset # {}
  BY <1>1, <1>2, <1>3, Downed
<1>4. CASE unset = {} /\ \E s \in rest : parent[s] # Nowhere
  <2>1. N!Fallen /\ jupes' = rest
    BY <1>2, <1>4 DEF N!Introduce
  <2> QED BY <1>1, <1>2, <1>4, <2>1, Downed
<1>5. CASE unset = {} /\ \A s \in rest : parent[s] = Nowhere
  <2>1. PICK w : w = wire
    OBVIOUS
  <2>2. PICK P : Story(w, P)
    BY <1>2, <2>1 DEF NetInv
  <2> DEFINE m == Head(w)  v == Tail(w)  Q == Shift(w, P)
  <2>3. N!Introduce(rest, rest) /\ link' = "up" /\ wire' = v
    BY <1>2, <1>5, <2>1
  <2>4. /\ Real' = Real /\ SeenTyped' /\ OwnJupes' = OwnJupes \cup rest /\ jupes' = rest
        /\ UNCHANGED <<session, cut, astray>>
        /\ parent' \in [Servers -> Servers \cup {Hub, Me, Nowhere}]
        /\ \A t : ServersAgree(t) => ServersAgree(t)'
    <3>1. \A s \in rest : parent[s] = Nowhere /\ seen[s] = Nowhere
      BY <1>5 DEF rest
    <3> QED BY <1>1, <2>3, <3>1, Introduced
  <2>5. /\ seen' = [s \in Servers |-> IF s \in rest THEN Me ELSE seen[s]]
        /\ parent' = [s \in Servers |-> IF s \in rest THEN Me ELSE parent[s]]
        /\ crossed' = crossed \cup {s \in rest : <<"squit", s>> \in ToSet(wire)}
    <3>1. ~\E s \in rest : parent[s] # Nowhere
      BY <1>5
    <3> QED BY <2>3, <3>1 DEF N!Introduce, N!ToSet, ToSet
  <2>6. w \in Seq(Messages) /\ w # << >> /\ Runs(w, Real, P) /\ m[1] = "eob" /\ m \in Messages
    BY <1>1, <1>2, <2>1, <2>2, TailOf DEF Story
  <2>7. /\ Len(w) \in Nat \ {0} /\ Len(v) = Len(w) - 1 /\ m = w[1] /\ v \in Seq(Messages)
        /\ \A i \in 1 .. Len(w) - 1 : v[i] = w[i + 1]
    BY <2>6, TailOf
  <2>8. Runs(v, Real, Q) /\ Q[0] = After(P[0], m) /\ After(P[0], m) = P[0]
    BY <2>6, RunTail DEF After
  <2>9. link = "burst" /\ OwnJupes = {} /\ \A s \in Servers : parent[s] # Me
    <3>1. 1 \in 1 .. Len(w) /\ w[1][1] = "eob"
      <4> HIDE DEF m, v
      <4> QED BY <2>6, <2>7
    <3> QED BY <1>1, <2>1, <3>1 DEF Once, Phases
  <2>10. JupesAgree(v, Q)'
    <3> SUFFICES ASSUME NEW s \in Servers
                 PROVE  /\ parent'[s] = Me /\ s \notin crossed' =>
                             s \in OwnJupes' /\ \A i \in 1 .. Len(v) : v[i] # <<"squit", s>>
                        /\ s \in OwnJupes' => parent'[s] = Me
      BY DEF JupesAgree
    <3>1. OwnJupes' = rest
      BY <2>4, <2>9
    <3>2. parent'[s] = Me <=> s \in rest
      BY <2>5, <2>9
    <3>3. ASSUME s \in rest, s \notin crossed', NEW i \in 1 .. Len(v) PROVE v[i] # <<"squit", s>>
      <4> HIDE DEF v
      <4>1. v[i] = w[i + 1] /\ i + 1 \in 1 .. Len(w)
        BY <2>7
      <4>2. w[i + 1] \in ToSet(w)
        BY <2>6, <4>1, LenProperties DEF ToSet
      <4>3. <<"squit", s>> \notin ToSet(w)
        BY <2>1, <2>5, <3>3
      <4> QED BY <4>1, <4>2, <4>3
    <3> QED BY <3>1, <3>2, <3>3
  <2>11. \A u \in Users \ astray' : UserAgrees(v, Q, u)'
    <3> SUFFICES ASSUME NEW u \in Users \ astray' PROVE UserAgrees(v, Q, u)'
      OBVIOUS
    <3>1. UserAgrees(w, P, u)
      BY <2>2, <2>4 DEF Story
    <3>2. \A a : Moved(a, P[0], m, u) = a
      BY <2>6 DEF Moved
    <3>3. Passes(P[0], Head(w), u)
      BY <2>4, <2>8, <3>2 DEF Passes, Placed, CutOff
    <3> QED BY <1>2, <2>6, <2>8, <3>1, <3>3, UserTaken
  <2>12. Once(v)'
    BY <1>1, <1>2, <2>1, <2>4, <2>6, OnceTaken DEF NetTyped
  <2> HIDE DEF m, v, Q
  <2>13. ServersAgree(Q[0])'
    <3>1. ServersAgree(P[0])'
      BY <2>2, <2>4 DEF Story
    <3> QED BY <2>8, <3>1
  <2>14. Story(v, Q)'
    BY <2>4, <2>8, <2>10, <2>11, <2>13 DEF Story
  <2>15. \E P1 : Story(wire, P1)'
    BY <2>3, <2>14 DEF Story, JupesAgree, UserAgrees
  <2>16. NetTyped'
    BY <1>1, <1>2, <1>5, <2>3, <2>4, <2>7 DEF NetTyped, NamesOnce
  <2>17. Once(wire)'
    BY <2>3, <2>12 DEF Once, NoUid
  <2>18. Phases'
    BY <2>3, <2>4, <2>9 DEF Phases
  <2> QED BY <2>15, <2>16, <2>17, <2>18 DEF NetInv
<1> QED BY <1>3, <1>4, <1>5

LEMMA FallKeeps == ASSUME NetInv, N!Crash \/ N!JupeList PROVE NetInv'
BY Downed DEF N!Crash, N!JupeList, NetInv, NetTyped

-----------------------------------------------------------------------------
(* The burst: what Hub sends of a network that services know nothing of.   *)

LEMMA CardinalityIs == \A S : N!Cardinality(S) = Cardinality(S)
BY DEF N!Cardinality, Cardinality

LEMMA SequenceOf ==
  ASSUME NEW S, NEW n \in Nat, NEW q \in [1 .. n -> S]
  PROVE  q \in Seq(S) /\ Len(q) = n
<1>1. q \in Seq(S)
  BY SeqDef
<1>2. Len(q) \in Nat /\ DOMAIN q = 1 .. Len(q)
  BY <1>1, LenProperties
<1>3. DOMAIN q = 1 .. n
  OBVIOUS
<1>4. 1 .. n = 1 .. Len(q)
  BY <1>2, <1>3
<1>5. n = Len(q)
  <2>1. n >= 1 => n \in 1 .. Len(q)
    BY <1>4
  <2>2. Len(q) >= 1 => Len(q) \in 1 .. n
    BY <1>2, <1>4
  <2> QED BY <1>2, <2>1, <2>2
<1> QED BY <1>1, <1>5

\* The n servers o and the c users q in the order of a burst.
Told(o, n, q, c) ==
  /\ n \in Nat /\ o \in [1 .. n -> Servers]
  /\ \A i \in 1 .. n : /\ Real[o[i]] \in Servers \cup {Hub}
                       /\ Real[o[i]] # Hub => \E j \in 1 .. i - 1 : o[j] = Real[o[i]]
  /\ \A i, j \in 1 .. n : o[i] = o[j] => i = j
  /\ \A s \in Servers : Real[s] # Nowhere => \E i \in 1 .. n : o[i] = s
  /\ c \in Nat /\ q \in [1 .. c -> Users]
  /\ \A i \in 1 .. c : at[q[i]] # N!Absent
  /\ \A i, j \in 1 .. c : q[i] = q[j] => i = j
  /\ \A u \in Users : at[u] # N!Absent => \E i \in 1 .. c : q[i] = u

LEMMA StartTells ==
  ASSUME NetTyped, \A s \in Servers : parent[s] # Me,
         NEW o \in N!Orders, NEW q \in N!Bijection(1 .. N!Cardinality(N!Online), N!Online)
  PROVE  \E n, c : /\ Told(o, n, q, c) /\ DOMAIN o = 1 .. n /\ DOMAIN q = 1 .. c
<1> DEFINE n == Cardinality(N!Linked)  c == Cardinality(N!Online)
<1>1. n \in Nat /\ c \in Nat
  <2>1. N!Linked \in SUBSET Servers /\ N!Online \in SUBSET Users
    BY DEF N!Linked, N!Online
  <2>2. IsFiniteSet(N!Linked) /\ IsFiniteSet(N!Online)
    BY <2>1, NetworkAssumption, FS_Subset
  <2> QED BY <2>2, FS_CardinalityType
<1>2. o \in N!Bijection(1 .. n, N!Linked)
      /\ \A i \in DOMAIN o : parent[o[i]] # Hub => \E j \in 1 .. i - 1 : o[j] = parent[o[i]]
  BY CardinalityIs DEF N!Orders
<1>3. q \in N!Bijection(1 .. c, N!Online)
  BY CardinalityIs
<1> HIDE DEF n, c
<1>4. /\ o \in [1 .. n -> N!Linked] /\ \A i, j \in 1 .. n : o[i] = o[j] => i = j
      /\ \A s \in N!Linked : \E i \in 1 .. n : o[i] = s
  BY <1>2 DEF N!Bijection, N!Injection, N!Surjection, N!IsInjective
<1>5. /\ q \in [1 .. c -> N!Online] /\ \A i, j \in 1 .. c : q[i] = q[j] => i = j
      /\ \A u \in N!Online : \E i \in 1 .. c : q[i] = u
  BY <1>3 DEF N!Bijection, N!Injection, N!Surjection, N!IsInjective
<1>6. \A s \in Servers : Real[s] = parent[s] /\ (s \in N!Linked <=> Real[s] # Nowhere)
  BY RealTree DEF N!Linked
<1>7. parent \in [Servers -> Servers \cup {Hub, Me, Nowhere}] /\ N!Linked \subseteq Servers
      /\ N!Online = {u \in Users : at[u] # N!Absent}
  BY DEF NetTyped, N!Linked, N!Online
<1>8. ASSUME NEW i \in 1 .. n
      PROVE  /\ Real[o[i]] \in Servers \cup {Hub}
             /\ Real[o[i]] # Hub => \E j \in 1 .. i - 1 : o[j] = Real[o[i]]
  <2>1. o[i] \in Servers /\ Real[o[i]] = parent[o[i]] /\ parent[o[i]] # Nowhere
    BY <1>4, <1>6, <1>7
  <2> QED BY <1>2, <1>4, <1>7, <2>1
<1>9. Told(o, n, q, c)
  BY <1>1, <1>4, <1>5, <1>6, <1>7, <1>8 DEF Told
<1> QED BY <1>4, <1>5, <1>9

\* What is where in the burst.
BurstIs(w, o, n, q, c) ==
  /\ w \in Seq(Messages) /\ Len(w) = n + c + 1
  /\ \A i \in 1 .. n : w[i] = <<"sid", Real[o[i]], o[i]>>
  /\ \A i \in 1 .. c : w[n + i] = <<"uid", at[q[i]].server, q[i], at[q[i]].name>>
  /\ w[n + c + 1] = <<"eob">>

LEMMA BurstOf ==
  ASSUME NetTyped, \A s \in Servers : parent[s] # Me, NEW o, NEW n, NEW q, NEW c,
         Told(o, n, q, c), DOMAIN o = 1 .. n, DOMAIN q = 1 .. c
  PROVE  BurstIs(N!Burst(o, q), o, n, q, c)
<1> DEFINE x == [i \in 1 .. n |-> <<"sid", Real[o[i]], o[i]>>]
           y == [i \in 1 .. c |-> <<"uid", at[q[i]].server, q[i], at[q[i]].name>>]
           z == << <<"eob">> >>
<1>1. /\ n \in Nat /\ c \in Nat /\ \A i \in 1 .. n : o[i] \in Servers /\ Real[o[i]] \in Servers \cup {Hub}
      /\ \A i \in 1 .. c : q[i] \in Users /\ at[q[i]] \in [server : Servers \cup {Hub}, name : Names]
  BY DEF Told, NetTyped, Places
<1>2. \A i \in 1 .. n : parent[o[i]] = Real[o[i]]
  BY <1>1, RealTree
<1>3. N!Burst(o, q) = (x \o y) \o z
  <2>1. [i \in DOMAIN o |-> <<"sid", parent[o[i]], o[i]>>] = x
    BY <1>2
  <2>2. [i \in DOMAIN q |-> <<"uid", at[q[i]].server, q[i], at[q[i]].name>>] = y
    OBVIOUS
  <2> HIDE DEF x, y
  <2> QED BY <2>1, <2>2 DEF N!Burst
<1>4. x \in Seq(Messages) /\ Len(x) = n
  <2>1. \A i \in 1 .. n : <<"sid", Real[o[i]], o[i]>> \in Messages
    BY <1>1 DEF Messages
  <2>2. x \in [1 .. n -> Messages]
    BY <2>1
  <2> HIDE DEF x
  <2> QED BY <1>1, <2>2, SequenceOf
<1>5. y \in Seq(Messages) /\ Len(y) = c
  <2>1. \A i \in 1 .. c : <<"uid", at[q[i]].server, q[i], at[q[i]].name>> \in Messages
    BY <1>1 DEF Messages
  <2>2. y \in [1 .. c -> Messages]
    BY <2>1
  <2> HIDE DEF y
  <2> QED BY <1>1, <2>2, SequenceOf
<1>6. z \in Seq(Messages) /\ Len(z) = 1 /\ z[1] = <<"eob">>
  <2>1. <<"eob">> \in Messages
    BY DEF Messages
  <2> QED BY <2>1
<1>7. \A i \in 1 .. n : x[i] = <<"sid", Real[o[i]], o[i]>>
  OBVIOUS
<1>8. \A i \in 1 .. c : y[i] = <<"uid", at[q[i]].server, q[i], at[q[i]].name>>
  OBVIOUS
<1> HIDE DEF x, y, z
<1> DEFINE xy == x \o y  w == xy \o z
<1>9. /\ xy \in Seq(Messages) /\ Len(xy) = n + c
      /\ \A i \in 1 .. n + c : xy[i] = IF i <= n THEN x[i] ELSE y[i - n]
  BY <1>4, <1>5, ConcatProperties
<1> HIDE DEF xy
<1>10. /\ w \in Seq(Messages) /\ Len(w) = (n + c) + 1
       /\ \A i \in 1 .. (n + c) + 1 : w[i] = IF i <= n + c THEN xy[i] ELSE z[i - (n + c)]
  <2>1. /\ w \in Seq(Messages) /\ Len(w) = Len(xy) + Len(z)
        /\ \A i \in 1 .. Len(xy) + Len(z) : w[i] = IF i <= Len(xy) THEN xy[i] ELSE z[i - Len(xy)]
    BY <1>6, <1>9, ConcatProperties
  <2> HIDE DEF w
  <2> QED BY <1>6, <1>9, <2>1
<1> HIDE DEF w
<1>11. ASSUME NEW i \in 1 .. n PROVE w[i] = <<"sid", Real[o[i]], o[i]>>
  <2>1. i <= n + c /\ i <= n /\ i \in 1 .. n + c /\ i \in 1 .. (n + c) + 1
    BY <1>1
  <2> QED BY <1>7, <1>9, <1>10, <2>1
<1>12. ASSUME NEW i \in 1 .. c
       PROVE  w[n + i] = <<"uid", at[q[i]].server, q[i], at[q[i]].name>>
  <2>1. /\ n + i <= n + c /\ ~(n + i <= n) /\ (n + i) - n = i
        /\ n + i \in 1 .. n + c /\ n + i \in 1 .. (n + c) + 1
    BY <1>1
  <2> QED BY <1>8, <1>9, <1>10, <2>1
<1>13. w[n + c + 1] = <<"eob">>
  <2>1. /\ n + c + 1 = (n + c) + 1 /\ ~((n + c) + 1 <= n + c) /\ ((n + c) + 1) - (n + c) = 1
        /\ (n + c) + 1 \in 1 .. (n + c) + 1
    BY <1>1
  <2> QED BY <1>6, <1>10, <2>1
<1>14. BurstIs(w, o, n, q, c)
  BY <1>1, <1>10, <1>11, <1>12, <1>13 DEF BurstIs
<1> QED BY <1>3, <1>14 DEF w, xy

\* The tree once i of the servers in o are told of.
Grown(o, n, i) ==
  [s \in Servers |-> IF \E j \in 1 .. n : j <= i /\ o[j] = s THEN Real[s] ELSE Nowhere]

LEMMA GrownWhole ==
  ASSUME NetTyped, NEW o, NEW n, NEW q, NEW c, Told(o, n, q, c), NEW i \in Nat, n <= i
  PROVE  Grown(o, n, i) = Real
<1>1. \A s \in Servers : Real[s] # Nowhere => \E j \in 1 .. n : j <= i /\ o[j] = s
  BY DEF Told
<1>2. \A s \in Servers : (IF \E j \in 1 .. n : j <= i /\ o[j] = s THEN Real[s] ELSE Nowhere) = Real[s]
  BY <1>1
<1>3. Real = [s \in Servers |-> Real[s]]
  BY RealTree DEF Trees
<1> QED BY <1>2, <1>3 DEF Grown

LEMMA GrownSound ==
  ASSUME NetTyped, NEW o, NEW n, NEW q, NEW c, Told(o, n, q, c), NEW i \in Nat
  PROVE  Grown(o, n, i) \in Trees /\ Rooted(Grown(o, n, i))
<1> DEFINE t == Grown(o, n, i)
<1>1. Real \in Trees /\ n \in Nat
  BY RealTree DEF Told
<1>2. t \in Trees
  BY <1>1 DEF Grown, Trees
<1>3. \A s \in Servers : t[s] = IF \E j \in 1 .. n : j <= i /\ o[j] = s THEN Real[s] ELSE Nowhere
  BY DEF Grown
<1> HIDE DEF t
<1>4. ASSUME NEW s \in Servers, t[s] \in Servers PROVE t[t[s]] # Nowhere
  <2>1. PICK j \in 1 .. n : j <= i /\ o[j] = s /\ t[s] = Real[s]
    BY <1>3, <1>4, NetworkAssumption
  <2>2. PICK k \in 1 .. j - 1 : o[k] = Real[s]
    BY <1>4, <2>1, NetworkAssumption DEF Told
  <2>3. k \in 1 .. n /\ k <= i
    BY <1>1, <2>1, <2>2
  <2>4. t[t[s]] = Real[t[s]]
    BY <1>3, <1>4, <2>1, <2>2, <2>3
  <2>5. Real[o[k]] \in Servers \cup {Hub}
    BY <2>3 DEF Told
  <2> QED BY <2>1, <2>2, <2>4, <2>5, NetworkAssumption
<1> QED BY <1>2, <1>4 DEF Rooted, t

LEMMA GrownBy ==
  ASSUME NetTyped, NEW o, NEW n, NEW q, NEW c, Told(o, n, q, c), NEW i \in 1 .. n
  PROVE  /\ Fits(Grown(o, n, i - 1), <<"sid", Real[o[i]], o[i]>>)
         /\ Grown(o, n, i) = After(Grown(o, n, i - 1), <<"sid", Real[o[i]], o[i]>>)
<1> DEFINE t == Grown(o, n, i - 1)  v == Grown(o, n, i)  m == <<"sid", Real[o[i]], o[i]>>
<1>1. /\ n \in Nat /\ o[i] \in Servers /\ Real[o[i]] \in Servers \cup {Hub}
      /\ Real[o[i]] # Hub => \E j \in 1 .. i - 1 : o[j] = Real[o[i]]
      /\ \A j, k \in 1 .. n : o[j] = o[k] => j = k
  BY DEF Told
<1>2. \A s \in Servers : t[s] = IF \E j \in 1 .. n : j <= i - 1 /\ o[j] = s THEN Real[s] ELSE Nowhere
  BY DEF Grown
<1>3. t \in Trees
  <2>1. i - 1 \in Nat
    BY <1>1
  <2> QED BY <2>1, GrownSound
<1>4. m[1] = "sid" /\ m[2] = Real[o[i]] /\ m[3] = o[i] /\ m \in Messages
  BY <1>1 DEF Messages
<1>5. v = [s \in Servers |-> IF \E j \in 1 .. n : j <= i /\ o[j] = s THEN Real[s] ELSE Nowhere]
  BY DEF Grown
<1> HIDE DEF t, v, m
<1>6. t[o[i]] = Nowhere
  <2>1. \A j \in 1 .. n : j <= i - 1 => j # i
    BY <1>1
  <2> QED BY <1>1, <1>2, <2>1
<1>7. IsIn(t, Real[o[i]])
  <2>1. CASE Real[o[i]] = Hub
    BY <2>1 DEF IsIn
  <2>2. CASE Real[o[i]] # Hub
    <3>1. PICK j \in 1 .. i - 1 : o[j] = Real[o[i]]
      BY <1>1, <2>2
    <3>2. j \in 1 .. n /\ j <= i - 1
      BY <1>1
    <3>3. t[o[j]] = Real[o[j]] /\ Real[o[j]] # Nowhere
      BY <1>1, <1>2, <2>2, <3>1, <3>2, NetworkAssumption DEF Told
    <3> QED BY <1>1, <2>2, <3>1, <3>3 DEF IsIn
  <2> QED BY <2>1, <2>2
<1>8. v = After(t, m)
  <2>1. After(t, m) = [s \in Servers |-> IF s = o[i] THEN Real[o[i]] ELSE t[s]]
    BY <1>1, <1>3, <1>4 DEF After, Trees
  <2>2. ASSUME NEW s \in Servers
        PROVE  (IF \E j \in 1 .. n : j <= i /\ o[j] = s THEN Real[s] ELSE Nowhere)
               = IF s = o[i] THEN Real[o[i]] ELSE t[s]
    <3>1. \A j \in 1 .. n : j <= i <=> j <= i - 1 \/ j = i
      BY <1>1
    <3>2. i \in 1 .. n /\ i <= i
      BY <1>1
    <3> QED BY <1>2, <3>1, <3>2
  <2> QED BY <1>5, <2>1, <2>2
<1> QED BY <1>4, <1>6, <1>7, <1>8 DEF Fits, t, v, m

LEMMA BurstRuns ==
  ASSUME NetTyped, NEW o, NEW n, NEW q, NEW c, Told(o, n, q, c), NEW w, BurstIs(w, o, n, q, c)
  PROVE  Runs(w, Real, [i \in 0 .. n + c + 1 |-> Grown(o, n, i)])
<1> DEFINE P == [i \in 0 .. n + c + 1 |-> Grown(o, n, i)]
<1>1. /\ n \in Nat /\ c \in Nat /\ Len(w) = n + c + 1 /\ w \in Seq(Messages)
      /\ \A i \in 1 .. n : w[i] = <<"sid", Real[o[i]], o[i]>>
      /\ \A i \in 1 .. c : w[n + i] = <<"uid", at[q[i]].server, q[i], at[q[i]].name>>
      /\ w[n + c + 1] = <<"eob">>
      /\ \A i \in 1 .. c : q[i] \in Users /\ at[q[i]] # N!Absent
  BY DEF Told, BurstIs
<1>2. \A i \in 0 .. n + c + 1 : i \in Nat
  BY <1>1
<1>3. \A i \in 0 .. n + c + 1 : Grown(o, n, i) \in Trees /\ Rooted(Grown(o, n, i))
  BY <1>2, GrownSound
<1>4. P \in [0 .. n + c + 1 -> Trees] /\ \A i \in 0 .. n + c + 1 : P[i] = Grown(o, n, i)
  BY <1>3
<1> HIDE DEF P
<1>5. \A i \in 0 .. n + c + 1 : n <= i => P[i] = Real
  BY <1>2, <1>4, GrownWhole
<1>6. P[n + c + 1] = Real
  <2>1. n + c + 1 \in 0 .. n + c + 1 /\ n <= n + c + 1
    BY <1>1
  <2> QED BY <1>5, <2>1
<1>7. ASSUME NEW i \in 1 .. n + c + 1 PROVE Fits(P[i - 1], w[i]) /\ P[i] = After(P[i - 1], w[i])
  <2>1. i - 1 \in 0 .. n + c + 1 /\ i \in 0 .. n + c + 1
    BY <1>1
  <2>2. CASE i \in 1 .. n
    <3> DEFINE m == <<"sid", Real[o[i]], o[i]>>
    <3>1. Fits(Grown(o, n, i - 1), m) /\ Grown(o, n, i) = After(Grown(o, n, i - 1), m)
      BY <2>2, GrownBy
    <3>2. w[i] = m
      BY <1>1, <2>2
    <3> HIDE DEF m
    <3> QED BY <1>4, <2>1, <3>1, <3>2
  <2>3. CASE i \notin 1 .. n
    <3>1. n <= i - 1 /\ n <= i
      BY <1>1, <2>3
    <3>2. P[i - 1] = Real /\ P[i] = Real
      BY <1>5, <2>1, <3>1
    <3>3. CASE i = n + c + 1
      <4>1. w[i] = <<"eob">>
        BY <1>1, <3>3
      <4> QED BY <3>2, <4>1 DEF Fits, After, Messages
    <3>4. CASE i # n + c + 1
      <4>1. i - n \in 1 .. c /\ n + (i - n) = i
        BY <1>1, <3>1, <3>4
      <4>2. PICK u \in Users : at[u] # N!Absent /\ w[i] = <<"uid", at[u].server, u, at[u].name>>
        BY <1>1, <4>1
      <4>3. IsIn(Real, at[u].server) /\ at[u] \in [server : Servers \cup {Hub}, name : Names]
        BY <4>2 DEF NetTyped, Stands, Places
      <4>4. w[i] \in Messages
        BY <4>2, <4>3 DEF Messages
      <4>5. w[i][1] = "uid" /\ w[i][2] = at[u].server
        BY <4>2
      <4> QED BY <3>2, <4>3, <4>4, <4>5 DEF Fits, After
    <3> QED BY <3>3, <3>4
  <2> QED BY <2>2, <2>3
<1>8. Runs(w, Real, P)
  BY <1>1, <1>3, <1>4, <1>6, <1>7 DEF Runs
<1> QED BY <1>8 DEF P

\* A user is nowhere until his own message, and where he is from then on.
LEMMA BurstTracks ==
  ASSUME NetTyped, NEW o, NEW n, NEW q, NEW c, Told(o, n, q, c), NEW w, BurstIs(w, o, n, q, c),
         NEW u \in Users
  PROVE  Tracks(w, [i \in 0 .. n + c + 1 |-> Grown(o, n, i)], u, N!Absent, at[u])
<1> DEFINE P == [i \in 0 .. n + c + 1 |-> Grown(o, n, i)]
<1>1. /\ n \in Nat /\ c \in Nat /\ Len(w) = n + c + 1 /\ w \in Seq(Messages)
      /\ \A i \in 1 .. n : w[i] = <<"sid", Real[o[i]], o[i]>>
      /\ \A i \in 1 .. c : w[n + i] = <<"uid", at[q[i]].server, q[i], at[q[i]].name>>
      /\ w[n + c + 1] = <<"eob">>
      /\ \A i, j \in 1 .. c : q[i] = q[j] => i = j
  BY DEF Told, BurstIs
<1>2. \A i \in 1 .. n + c + 1 : i \in 1 .. n \/ i = n + c + 1 \/ (i - n \in 1 .. c /\ n + (i - n) = i)
  BY <1>1
<1> HIDE DEF P
<1>3. ASSUME NEW i \in 1 .. n + c + 1
      PROVE  /\ w[i][1] \in {"sid", "uid", "eob"}
             /\ w[i][1] = "uid" => /\ i - n \in 1 .. c
                                   /\ w[i] = <<"uid", at[q[i - n]].server, q[i - n], at[q[i - n]].name>>
  <2>1. CASE i \in 1 .. n
    <3>1. w[i] = <<"sid", Real[o[i]], o[i]>>
      BY <1>1, <2>1
    <3>2. w[i][1] = "sid"
      BY <3>1
    <3> QED BY <3>2
  <2>2. CASE i = n + c + 1
    <3>1. w[i][1] = "eob"
      BY <1>1, <2>2
    <3> QED BY <3>1
  <2>3. CASE i - n \in 1 .. c /\ n + (i - n) = i
    <3> DEFINE k == i - n
    <3>1. k \in 1 .. c /\ n + k = i
      BY <2>3
    <3> HIDE DEF k
    <3>2. w[i] = <<"uid", at[q[k]].server, q[k], at[q[k]].name>>
      BY <1>1, <3>1
    <3> QED BY <2>3, <3>2 DEF k
  <2> QED BY <1>2, <2>1, <2>2, <2>3
<1>4. CASE at[u] = N!Absent
  <2>1. NoUid(w, u)
    <3> SUFFICES ASSUME NEW i \in 1 .. n + c + 1, w[i][1] = "uid", w[i][3] = u PROVE FALSE
      BY <1>1 DEF NoUid
    <3>1. i - n \in 1 .. c /\ q[i - n] = u
      BY <1>3
    <3> QED BY <1>4, <3>1 DEF Told
  <2>2. Tracks(w, P, u, N!Absent, N!Absent)
    BY <1>1, <2>1, TrackGone
  <2> QED BY <1>4, <2>2 DEF P
<1>5. CASE at[u] # N!Absent
  <2>1. PICK k \in 1 .. c : q[k] = u
    BY <1>5 DEF Told
  <2> DEFINE A == [i \in 0 .. n + c + 1 |-> IF n + k <= i THEN at[u] ELSE N!Absent]
  <2>2. at[u] \in Places /\ Stands(Real, at[u]) /\ at[u] \in [server : Servers \cup {Hub}, name : Names]
    BY <1>5 DEF NetTyped, Places
  <2>3. A \in [0 .. n + c + 1 -> Places]
    BY <2>2 DEF Places
  <2>4. A[0] = N!Absent /\ A[n + c + 1] = at[u]
    BY <1>1
  <2>5. \A i \in 0 .. n + c + 1 : A[i] = IF n + k <= i THEN at[u] ELSE N!Absent
    OBVIOUS
  <2> HIDE DEF A
  <2>6. ASSUME NEW i \in 0 .. n + c + 1 PROVE Stands(P[i], A[i])
    <3>1. CASE n + k <= i
      <4>1. i \in Nat /\ n <= i
        BY <1>1, <3>1
      <4>2. P[i] = Real
        BY <4>1, GrownWhole DEF P
      <4> QED BY <2>2, <2>5, <3>1, <4>2
    <3>2. CASE ~(n + k <= i)
      BY <2>5, <3>2 DEF Stands
    <3> QED BY <3>1, <3>2
  <2>7. ASSUME NEW i \in 1 .. n + c + 1 PROVE A[i] = Moved(A[i - 1], P[i - 1], w[i], u)
    <3>1. i \in 0 .. n + c + 1 /\ i - 1 \in 0 .. n + c + 1
      BY <1>1
    <3>2. CASE w[i][1] = "uid" /\ w[i][3] = u
      <4>1. i - n \in 1 .. c /\ q[i - n] = u /\ w[i] = <<"uid", at[u].server, u, at[u].name>>
        BY <1>3, <3>2
      <4>2. i - n = k
        BY <1>1, <2>1, <4>1
      <4>3. n + k <= i
        BY <1>1, <4>2
      <4>4. Moved(A[i - 1], P[i - 1], w[i], u) = [server |-> at[u].server, name |-> at[u].name]
        BY <4>1 DEF Moved
      <4>5. at[u] = [server |-> at[u].server, name |-> at[u].name]
        BY <2>2
      <4> QED BY <2>5, <3>1, <4>3, <4>4, <4>5
    <3>3. CASE ~(w[i][1] = "uid" /\ w[i][3] = u)
      <4>1. i # n + k
        <5>1. w[n + k] = <<"uid", at[u].server, u, at[u].name>>
          BY <1>1, <2>1
        <5>2. w[n + k][1] = "uid" /\ w[n + k][3] = u
          BY <5>1
        <5> QED BY <3>3, <5>2
      <4>2. n + k <= i <=> n + k <= i - 1
        BY <1>1, <4>1
      <4>3. A[i] = A[i - 1]
        BY <2>5, <3>1, <4>2
      <4>4. w[i][1] \in {"sid", "uid", "eob"}
        BY <1>3
      <4>5. Moved(A[i - 1], P[i - 1], w[i], u) = A[i - 1]
        BY <3>3, <4>4 DEF Moved
      <4> QED BY <4>3, <4>5
    <3> QED BY <3>2, <3>3
  <2>8. Tracks(w, P, u, N!Absent, at[u])
    BY <1>1, <2>3, <2>4, <2>6, <2>7 DEF Tracks
  <2> QED BY <2>8 DEF P
<1> QED BY <1>4, <1>5

LEMMA BurstOnce ==
  ASSUME NetTyped, NEW o, NEW n, NEW q, NEW c, Told(o, n, q, c), NEW w, BurstIs(w, o, n, q, c),
         link' = "burst", UNCHANGED <<at, fresh>>, \A u \in Users : session'[u] = N!Absent,
         \A u \in fresh : at[u] = N!Absent
  PROVE  Once(w)'
<1>1. /\ n \in Nat /\ c \in Nat /\ Len(w) = n + c + 1
      /\ \A i \in 1 .. n : w[i] = <<"sid", Real[o[i]], o[i]>>
      /\ \A i \in 1 .. c : w[n + i] = <<"uid", at[q[i]].server, q[i], at[q[i]].name>>
      /\ w[n + c + 1] = <<"eob">>
      /\ \A i, j \in 1 .. c : q[i] = q[j] => i = j
      /\ \A i \in 1 .. c : at[q[i]] # N!Absent
  BY DEF Told, BurstIs
<1>2. ASSUME NEW i \in 1 .. n + c + 1
      PROVE  /\ w[i][1] = "uid" => \E k \in 1 .. c : i = n + k /\ w[i][3] = q[k]
             /\ w[i][1] = "eob" => i = n + c + 1
  <2>1. CASE i \in 1 .. n
    <3>1. w[i] = <<"sid", Real[o[i]], o[i]>>
      BY <1>1, <2>1
    <3>2. w[i][1] = "sid"
      BY <3>1
    <3> QED BY <3>2
  <2>2. CASE i = n + c + 1
    <3>1. w[i][1] = "eob"
      BY <1>1, <2>2
    <3> QED BY <2>2, <3>1
  <2>3. CASE i \notin 1 .. n /\ i # n + c + 1
    <3> DEFINE k == i - n
    <3>1. k \in 1 .. c /\ i = n + k
      BY <1>1, <2>3
    <3> HIDE DEF k
    <3>2. w[i] = <<"uid", at[q[k]].server, q[k], at[q[k]].name>>
      BY <1>1, <3>1
    <3>3. w[i][1] = "uid" /\ w[i][3] = q[k]
      BY <3>2
    <3> QED BY <3>1, <3>3
  <2> QED BY <2>1, <2>2, <2>3
<1>3. ASSUME NEW i \in 1 .. n + c + 1, NEW j \in 1 .. n + c + 1,
             w[i][1] = "uid", w[j][1] = "uid", w[i][3] = w[j][3]
      PROVE  i = j
  <2>1. PICK k \in 1 .. c : i = n + k /\ w[i][3] = q[k]
    BY <1>2, <1>3
  <2>2. PICK l \in 1 .. c : j = n + l /\ w[j][3] = q[l]
    BY <1>2, <1>3
  <2> QED BY <1>1, <1>3, <2>1, <2>2
<1>4. ASSUME NEW u \in fresh PROVE NoUid(w, u)
  <2> SUFFICES ASSUME NEW i \in 1 .. n + c + 1, w[i][1] = "uid", w[i][3] = u PROVE FALSE
    BY <1>1 DEF NoUid
  <2>1. PICK k \in 1 .. c : w[i][3] = q[k]
    BY <1>2
  <2> QED BY <1>1, <2>1
<1>5. fresh \subseteq Users
  BY DEF NetTyped
<1> QED BY <1>1, <1>2, <1>3, <1>4, <1>5 DEF Once

LEMMA StartKeeps == ASSUME NetInv, N!Start PROVE NetInv'
<1>1. NetTyped /\ Once(wire) /\ Phases /\ SeenTyped
  BY DEF NetInv, NetTyped
<1>2. link = "down" /\ link' = "burst"
      /\ UNCHANGED <<parent, at, fresh, seen, hidden, session, jupes, unset, cut, astray, crossed>>
  BY DEF N!Start, N!network, N!services
<1>3. /\ seen = [s \in Servers |-> Nowhere] /\ hidden = {} /\ session = [u \in Users |-> N!Absent]
      /\ OwnJupes = {} /\ \A s \in Servers : parent[s] # Me
  BY <1>1, <1>2 DEF Phases, N!None, N!Nobody
<1>4. PICK o \in N!Orders, q \in N!Bijection(1 .. N!Cardinality(N!Online), N!Online) :
        wire' = N!Burst(o, q)
  BY DEF N!Start
<1>5. PICK n, c : Told(o, n, q, c) /\ DOMAIN o = 1 .. n /\ DOMAIN q = 1 .. c
  BY <1>1, <1>3, StartTells
<1>6. PICK w : w = wire'
  OBVIOUS
<1>7. BurstIs(w, o, n, q, c)
  BY <1>1, <1>3, <1>4, <1>5, <1>6, BurstOf
<1>8. PICK P : P = [i \in 0 .. n + c + 1 |-> Grown(o, n, i)]
  OBVIOUS
<1>9. Runs(w, Real, P) /\ \A u \in Users : Tracks(w, P, u, N!Absent, at[u])
  BY <1>1, <1>5, <1>7, <1>8, BurstRuns, BurstTracks
<1>10. P[0] = [s \in Servers |-> Nowhere]
  <2>1. 0 \in 0 .. n + c + 1 /\ \A j \in 1 .. n : ~(j <= 0)
    BY <1>5 DEF Told
  <2>2. P[0] = Grown(o, n, 0)
    BY <1>8, <2>1
  <2> QED BY <2>1, <2>2 DEF Grown
<1>11. Real' = Real /\ OwnJupes' = OwnJupes
  BY <1>2 DEF Real, OwnJupes
<1>12. ServersAgree(P[0])'
  <2> DEFINE t == P[0]
  <2>1. \A s \in Servers : t[s] = Nowhere /\ seen'[s] = Nowhere
    BY <1>2, <1>3, <1>10
  <2> HIDE DEF t
  <2> QED BY <1>2, <1>3, <2>1, NetworkAssumption DEF ServersAgree, IsSeen, t
<1>13. JupesAgree(w, P)'
  BY <1>2, <1>3, <1>11 DEF JupesAgree
<1>14. ASSUME NEW u \in Users PROVE UserAgrees(w, P, u)'
  <2>1. Placed(P[0], N!Absent, u)'
    BY <1>2, <1>3 DEF Placed
  <2> QED BY <1>2, <1>9, <2>1 DEF UserAgrees
<1>15. Story(w, P)'
  BY <1>9, <1>11, <1>12, <1>13, <1>14 DEF Story
<1>16. \E P1 : Story(wire, P1)'
  BY <1>6, <1>15 DEF Story, JupesAgree, UserAgrees
<1>17. NetTyped'
  <2>1. wire' \in Seq(Messages)
    BY <1>6, <1>7 DEF BurstIs
  <2> QED BY <1>1, <1>2, <1>11, <2>1 DEF NetTyped, SeenTyped, NamesOnce, IsSeen
<1>18. Once(wire)'
  <2>1. \A u \in Users : session'[u] = N!Absent
    BY <1>2, <1>3
  <2>2. \A u \in fresh : at[u] = N!Absent
    BY <1>1 DEF Once
  <2>3. Once(w)'
    BY <1>1, <1>2, <1>5, <1>7, <2>1, <2>2, BurstOnce
  <2> QED BY <1>6, <2>3 DEF Once, NoUid
<1>19. Phases'
  BY <1>2, <1>3, <1>11 DEF Phases
<1> QED BY <1>16, <1>17, <1>18, <1>19 DEF NetInv

LEMMA NetNext == ASSUME NetInv, [N!Next]_nvars PROVE NetInv'
<1>1. ASSUME NEW s \in Servers, N!Split(s) \/ N!JupeAdd(s) \/ N!JupeDel(s) \/ N!SetterGone(s)
      PROVE  NetInv'
  BY <1>1, SplitHappens, HappenKeeps, JupeAddKeeps, JupeDelKeeps, SetterKeeps DEF NetInv
<1>2. ASSUME NEW s \in Servers, NEW p \in Servers \cup {Hub}, N!Link(s, p) PROVE NetInv'
  BY <1>2, LinkHappens, HappenKeeps DEF NetInv
<1>3. ASSUME NEW u \in Users, NEW s \in Servers \cup {Hub}, NEW n \in Names, N!UserConnect(u, s, n)
      PROVE  NetInv'
  BY <1>3, ConnectHappens, HappenKeeps DEF NetInv
<1>4. ASSUME NEW u \in Users, NEW n \in Names, N!UserNick(u, n) PROVE NetInv'
  BY <1>4, NickHappens, HappenKeeps DEF NetInv
<1>5. ASSUME NEW u \in Users, N!UserQuit(u) \/ N!KillUser(u) PROVE NetInv'
  BY <1>5, QuitHappens, HappenKeeps, KillKeeps DEF NetInv
<1>6. CASE N!Start \/ N!Crash \/ N!JupeList \/ N!RecvEob
  BY <1>6, StartKeeps, FallKeeps, EobKeeps
<1>7. CASE N!RecvSid \/ N!RecvSquit \/ N!RecvUid \/ N!RecvNick \/ N!RecvQuit
  BY <1>7, ReceiveKeeps
<1>8. CASE UNCHANGED nvars
  <2>1. UNCHANGED <<parent, at, fresh, wire, link, seen, hidden, session, jupes, unset, cut, astray, crossed>>
    BY <1>8 DEF nvars
  <2>2. Real' = Real /\ OwnJupes' = OwnJupes
    BY <2>1 DEF Real, OwnJupes
  <2>3. NetTyped' /\ Phases'
    BY <2>1, <2>2 DEF NetInv, NetTyped, SeenTyped, NamesOnce, IsSeen, Phases
  <2>4. Once(wire)'
    BY <2>1 DEF NetInv, Once
  <2>5. ASSUME NEW P, Story(wire, P) PROVE Story(wire, P)'
    BY <2>1, <2>2, <2>5 DEF Story, ServersAgree, IsSeen, JupesAgree, UserAgrees, Placed, CutOff
  <2> QED BY <2>1, <2>3, <2>4, <2>5 DEF NetInv
<1> QED BY <1>1, <1>2, <1>3, <1>4, <1>5, <1>6, <1>7, <1>8 DEF N!Next

LEMMA NetTables == ASSUME NetInv PROVE N!TypeOK /\ N!JupesStand
<1>1. NetTyped /\ SeenTyped /\ NamesOnce /\ Phases /\ session \in [Users -> Places]
  BY DEF NetInv, NetTyped, SeenTyped
<1>2. ASSUME NEW s \in Servers, seen[s] \in Servers PROVE IsSeen(seen[s])
  <2>1. CASE link = "down"
    BY <1>1, <1>2, <2>1, NetworkAssumption DEF Phases, N!None
  <2>2. CASE link # "down"
    BY <1>2, <2>2 DEF NetInv, Story, ServersAgree
  <2> QED BY <2>1, <2>2
<1>3. ASSUME NEW u \in Users, session[u] # N!Absent
      PROVE  N!Knows(session[u].server) /\ session[u].name \in Names
  <2>1. session[u].name \in Names
    BY <1>1, <1>3 DEF Places
  <2> QED BY <1>1, <1>3, <2>1 DEF SeenTyped, IsSeen, N!Knows
<1>4. ASSUME NEW n \in Names PROVE N!Cardinality(N!Wearer(session, n)) <= 1
  <2>1. \A u, v \in N!Wearer(session, n) : u = v
    BY <1>1, NetworkAssumption DEF N!Wearer, NamesOnce, N!Absent
  <2>2. N!Wearer(session, n) = {} \/ \E u : N!Wearer(session, n) = {u}
    BY <2>1
  <2>3. Cardinality(N!Wearer(session, n)) \in {0, 1}
    BY <2>2, FS_EmptySet, FS_Singleton
  <2>4. N!Cardinality(N!Wearer(session, n)) \in {0, 1}
    BY <2>3, CardinalityIs
  <2> QED BY <2>4
<1>5. N!TypeOK
  BY <1>1, <1>2, <1>3, <1>4 DEF N!TypeOK, NetTyped, SeenTyped, IsSeen
<1> QED BY <1>1, <1>5 DEF Phases, OwnJupes, N!JupesStand

LEMMA NetView == ASSUME NetInv PROVE N!ViewAgrees
<1> SUFFICES ASSUME link = "up", wire = << >>
             PROVE  /\ \A s \in Servers \ crossed :
                         seen[s] = parent[s] \/ (seen[s] = Nowhere /\ N!Path(parent, s) \cap cut # {})
                    /\ \A u \in Users \ astray :
                         \/ session[u] = at[u]
                         \/ /\ session[u] = N!Absent /\ at[u] # N!Absent
                            /\ N!Path(parent, at[u].server) \cap cut # {}
  BY DEF N!ViewAgrees
<1>1. NetTyped /\ SeenTyped /\ Len(wire) = 0
  BY EmptySeq DEF NetInv, NetTyped
<1>2. PICK P : Story(wire, P)
  BY DEF NetInv
<1>3. P[0] = Real /\ ServersAgree(Real) /\ JupesAgree(wire, P)
  BY <1>1, <1>2 DEF Story, Runs
<1>4. \A s \in Servers : Real[s] = IF parent[s] = Me THEN Nowhere ELSE parent[s]
  BY <1>1, RealTree
<1>5. ASSUME NEW s \in Servers \ crossed
      PROVE  seen[s] = parent[s] \/ (seen[s] = Nowhere /\ N!Path(parent, s) \cap cut # {})
  <2>1. CASE parent[s] = Me
    <3>1. s \in OwnJupes
      BY <1>3, <1>5, <2>1 DEF JupesAgree
    <3>2. s \notin hidden
      BY <1>3, <1>4, <1>5, <2>1 DEF ServersAgree, IsSeen
    <3> QED BY <2>1, <3>1, <3>2 DEF OwnJupes
  <2>2. CASE parent[s] # Me
    <3>1. s \notin OwnJupes
      BY <1>1, <1>3, <1>5, <2>2 DEF JupesAgree
    <3>2. seen[s] = Nowhere \/ seen[s] = parent[s]
      BY <1>3, <1>4, <1>5, <2>2, <3>1 DEF OwnJupes, ServersAgree, IsSeen
    <3>3. ASSUME seen[s] = Nowhere, parent[s] # Nowhere PROVE N!Path(parent, s) \cap cut # {}
      BY <1>1, <1>3, <1>4, <1>5, <2>2, <3>3, RealPath DEF ServersAgree
    <3> QED BY <3>2, <3>3
  <2> QED BY <2>1, <2>2
<1>6. ASSUME NEW u \in Users \ astray
      PROVE  \/ session[u] = at[u]
             \/ session[u] = N!Absent /\ at[u] # N!Absent /\ N!Path(parent, at[u].server) \cap cut # {}
  <2>1. PICK a : Tracks(wire, P, u, a, at[u]) /\ Placed(Real, a, u)
    BY <1>2, <1>3, <1>6 DEF Story, UserAgrees
  <2>2. a = at[u]
    BY <1>1, <2>1 DEF Tracks
  <2>3. ASSUME CutOff(Real, at[u])
        PROVE  at[u] # N!Absent /\ N!Path(parent, at[u].server) \cap cut # {}
    <3>1. at[u] # N!Absent /\ at[u].server \in Servers
      BY <2>3, PathOfHub DEF CutOff
    <3>2. Real[at[u].server] # Nowhere
      BY <1>1, <1>6, <3>1, NetworkAssumption DEF NetTyped, Stands, IsIn
    <3> QED BY <1>1, <2>3, <3>1, <3>2, RealPath DEF CutOff
  <2> QED BY <2>1, <2>2, <2>3 DEF Placed
<1> QED BY <1>5, <1>6

LEMMA NetInvariant == N!Init /\ [][N!Next]_nvars => []NetInv
<1>1. N!Init => NetInv
  BY NetInit
<1>2. NetInv /\ [N!Next]_nvars => NetInv'
  BY NetNext
<1> QED BY <1>1, <1>2, PTL

\* However servers link and split, users come, go and change their nickname, and
\* services crash, jupe and kill meanwhile: what services know is what the
\* messages under way lead from to what there is, but for what Network names.
THEOREM ViewFollowsNetwork == MCSpec => []ViewAgrees
<1>1. MCInit => N!Init
  BY DEF MCInit
<1>2. [MCNext]_<<part, vars, rvars, nvars>> => [N!Next]_nvars
  BY DEF MCNext
<1>3. NetInv => ViewAgrees
  BY NetTables, NetView DEF ViewAgrees
<1> QED BY <1>1, <1>2, <1>3, NetInvariant, PTL DEF MCSpec
=============================================================================
