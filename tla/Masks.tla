------------------------------- MODULE Masks -------------------------------
(***************************************************************************)
(* Whom a mask nick!user@host matches: akill_check_mask and                *)
(* akick_check_mask, on split_nuh and match of libio/string and on the     *)
(* addresses of src/hostmask.c.                                            *)
(*                                                                         *)
(* Text is a sequence of bytes.  Of an address only what its reader tells  *)
(* apart is kept: the numbers between dots or colons (Empty where two of   *)
(* these meet) and how it ends.                                            *)
(***************************************************************************)
EXTENDS Integers, SequencesExt

CONSTANTS
  MaskBytes, NameBytes, MaxMask, MaxName,  \* match
  NuhBytes, MaxNuh,                        \* split_nuh
  NickSize, UserSize, HostSize,            \* of its buffers: NICKLEN, USERLEN + 1, HOSTLEN + 1
  NormalSize,                              \* USERLEN + HOSTLEN, the room in mask_normalize: more
                                           \* than NickSize + UserSize
  Letters,                                 \* bytes that are compared
  V4Numbers, V4Lengths, V6Words, V6Lengths, \* in masks of addresses
  Flips                                    \* the bits clients' addresses differ in

VARIABLES input, out

vars == <<input, out>>

Star == 42
Question == 63
Hash == 35
Bang == 33
At == 64
Dots == {46, 58}
IsDigit(c) == c \in 48 .. 57
Nul == 0
Char(s, i) == IF i <= Len(s) THEN s[i] ELSE Nul

-----------------------------------------------------------------------------
(* libio/string/match.c *)

\* ToLowerTab and ToUpperTab: [ \ ] ^ are capitals of { | } ~.
ToLower(c) == IF c \in 65 .. 94 THEN c + 32 ELSE c
ToUpper(c) == IF c \in 97 .. 126 THEN c - 32 ELSE c

\* irccmp, as a truth value
Irccmp(s, t) == Len(s) = Len(t) /\ \A i \in DOMAIN s : ToUpper(s[i]) = ToUpper(t[i])

\* What strhash makes of a name depends on this.
Hashed(s) == [i \in DOMAIN s |-> ToLower(s[i])]

\* Where a run of stars from place i ends.
Past(k, i) == CHOOSE j \in i .. Len(k) + 1 : Char(k, j) # Star /\ \A h \in i .. j - 1 : k[h] = Star

\* Where the question marks before place i begin.
Before(k, i) == CHOOSE j \in 1 .. i - 1 :
                  (j = 1 \/ k[j] # Question) /\ \A h \in j + 1 .. i - 1 : k[h] = Question

Agree(c, d) == ToLower(c) = ToLower(d) \/ c = Question \/ (c = Hash /\ IsDigit(d))

RECURSIVE MatchFrom(_, _, _, _, _, _)

\* Mutant: a name that does not fit behind a star is not tried further on.
MatchFromMutant(k, t, m, n, ma, na) ==
  LET stars == Char(k, m) = Star
      x == IF stars THEN Past(k, m) ELSE m
      back == IF stars THEN x ELSE ma
      from == IF stars THEN n ELSE na
  IN  CASE x > Len(k) /\ n > Len(t) -> TRUE
        [] x > Len(k) /\ n <= Len(t) -> back # Nul /\ k[Before(k, x)] = Star
        [] x <= Len(k) /\ n > Len(t) -> FALSE
        [] OTHER -> IF Agree(k[x], t[n]) THEN MatchFrom(k, t, x + 1, n + 1, back, from)
                    ELSE back # Nul /\ MatchFrom(k, t, back, from + 1, back, from + 1)

\* match's loop, at places m of the mask and n of the name; behind the last
\* star are place ma of the mask and, for now, na of the name.
MatchFrom(k, t, m, n, ma, na) ==
  LET stars == Char(k, m) = Star
      x == IF stars THEN Past(k, m) ELSE m
      back == IF stars THEN x ELSE ma
      from == IF stars THEN n ELSE na
      Again == back # Nul /\ MatchFrom(k, t, back, from + 1, back, from + 1)
  IN  CASE x > Len(k) /\ n > Len(t) -> TRUE
        [] x > Len(k) /\ n <= Len(t) -> back # Nul /\ (k[Before(k, x)] = Star \/ Again)
        [] x <= Len(k) /\ n > Len(t) -> FALSE
        [] OTHER -> IF Agree(k[x], t[n]) THEN MatchFrom(k, t, x + 1, n + 1, back, from) ELSE Again

Match(k, t) == MatchFrom(k, t, 1, 1, Nul, 1)

-----------------------------------------------------------------------------
(* libio/string/string.c *)

\* strchr: the place of c, or 0.
Strchr(s, c) == IF c \in {s[i] : i \in DOMAIN s} THEN CHOOSE i \in DOMAIN s : s[i] = c /\ \A j \in 1 .. i - 1 : s[j] # c
                ELSE 0

\* strlcpy
Upto(s, size) == SubSeq(s, 1, IF Len(s) < size THEN Len(s) ELSE size - 1)

\* A part that is empty stays "*"; the others are cut to their buffers.
Part(s, size) == IF s = <<>> THEN <<Star>> ELSE Upto(s, size)

Nuh(nick, user, host) ==
  [nick |-> Part(nick, NickSize), user |-> Part(user, UserSize), host |-> Part(host, HostSize)]

\* Mutant: the @ is looked for in all of the mask.
SplitNuhMutant(s) ==
  LET b == Strchr(s, Bang)
      a == Strchr(s, At)
  IN  CASE b > 0 /\ a > 0 -> Nuh(SubSeq(s, 1, b - 1), SubSeq(s, b + 1, a - 1), SubSeq(s, a + 1, Len(s)))
        [] b > 0 /\ a = 0 -> Nuh(SubSeq(s, 1, b - 1), SubSeq(s, b + 1, Len(s)), <<>>)
        [] b = 0 /\ a > 0 -> Nuh(<<>>, SubSeq(s, 1, a - 1), SubSeq(s, a + 1, Len(s)))
        [] OTHER -> IF \E i \in DOMAIN s : s[i] \in Dots THEN Nuh(<<>>, <<>>, s) ELSE Nuh(s, <<>>, <<>>)

\* split_nuh, of a text with at least one byte.
SplitNuh(s) ==
  LET b == Strchr(s, Bang)
      rest == SubSeq(s, b + 1, Len(s))
      a == Strchr(rest, At)
      user == SubSeq(rest, 1, (IF a > 0 THEN a ELSE Len(rest) + 1) - 1)
      host == IF a > 0 THEN SubSeq(rest, a + 1, Len(rest)) ELSE <<>>
  IN  CASE b > 0 \/ a > 0 -> Nuh(SubSeq(s, 1, b - 1), user, host)
        [] OTHER -> IF \E i \in DOMAIN s : s[i] \in Dots THEN Nuh(<<>>, <<>>, s) ELSE Nuh(s, <<>>, <<>>)

\* mask_normalize
MaskNormalize(s) ==
  LET p == SplitNuh(s) IN Upto(p.nick \o <<Bang>> \o p.user \o <<At>> \o p.host, NormalSize)

-----------------------------------------------------------------------------
(* src/hostmask.c.  An address is a sequence of numbers of w bits each. *)

Empty == -1
HmHost == [addr |-> <<>>, bits |-> -1]
Number(p) == IF p = Empty THEN 0 ELSE p

\* How masks end: as they are, with * or with /length.
AsIs == -1
Wild == -2

Bit(addr, w, i) == (addr[i \div w + 1] \div 2 ^ (w - 1 - (i % w))) % 2

\* The numbers without the bits from place n on.
Cut(addr, w, n) ==
  [i \in DOMAIN addr |->
     CASE i * w <= n -> addr[i]
       [] (i - 1) * w >= n -> 0
       [] OTHER -> addr[i] - (addr[i] % 2 ^ (i * w - n))]

\* Mutant: the length of a mask with * counts the *.
TryParseV4Mutant(m) ==
  LET n == Len(m.parts)
      given == CASE m.end = AsIs -> 0 [] m.end = Wild -> n * 8 [] OTHER -> m.end
      some == IF n < 4 /\ given = 0 THEN n * 8 ELSE given
      bits == IF some = 0 THEN 32 ELSE some
  IN  IF n > 4 \/ (m.end = Wild /\ m.parts[n] # Empty) \/ given > n * 8 THEN HmHost
      ELSE [addr |-> Cut([i \in 1 .. 4 |-> IF i <= n THEN Number(m.parts[i]) % 256 ELSE 0], 8, bits),
            bits |-> bits]

\* try_parse_v4_netmask: missing numbers are 0, a length of 0 counts as none.
TryParseV4(m) ==
  LET n == Len(m.parts)
      given == CASE m.end = AsIs -> 0 [] m.end = Wild -> (n - 1) * 8 [] OTHER -> m.end
      some == IF n < 4 /\ given = 0 THEN n * 8 ELSE given
      bits == IF some = 0 THEN 32 ELSE some
  IN  IF n > 4 \/ (m.end = Wild /\ m.parts[n] # Empty) \/ given > n * 8 THEN HmHost
      ELSE [addr |-> Cut([i \in 1 .. 4 |-> IF i <= n THEN Number(m.parts[i]) % 256 ELSE 0], 8, bits),
            bits |-> bits]

\* The words before the last part: d, and where a second colon in a row was.
Colons(parts) ==
  LET colon(w, i) ==
        CASE ~w.ok -> w
          [] w.ok /\ i > 1 /\ parts[i] = Empty -> [w EXCEPT !.ok = w.finsert < 0, !.finsert = Len(w.d)]
          [] OTHER -> [w EXCEPT !.d = Append(@, Number(parts[i])), !.ok = Len(w.d) < 7]
  IN  FoldLeft(colon, [d |-> <<>>, finsert |-> -1, ok |-> TRUE], [i \in 1 .. Len(parts) - 1 |-> i])

\* Mutant: a length may not exceed the digits written, "::" or not.
TryParseV6Mutant(m) ==
  LET w == Colons(m.parts)
      d == Append(w.d, Number(Last(m.parts)))
      dp == Len(d)
      given == CASE m.end = AsIs -> 128 [] m.end = Wild -> Len(w.d) * 16 [] OTHER -> m.end
      bits == IF w.finsert < 0 /\ given = 0 THEN dp * 16 ELSE given
      words == (bits + 15) \div 16
      word(i) == IF i <= dp THEN d[i] ELSE 0
      gap == IF words - dp >= 0 THEN words - dp ELSE 8
      dc == [i \in 1 .. 8 |->
               IF w.finsert < 0 \/ i <= w.finsert THEN word(i)
               ELSE IF i <= w.finsert + gap THEN 0 ELSE word(i - gap)]
  IN  IF \/ ~w.ok
         \/ m.end = Wild /\ (w.finsert >= 0 \/ Last(m.parts) # Empty)
         \/ m.end >= 0 /\ given > dp * 4
      THEN HmHost
      ELSE [addr |-> Cut(dc, 16, IF bits % 16 = 0 THEN bits ELSE bits + 1), bits |-> bits]

\* try_parse_v6_netmask: the gap of "::" is made so that the mask has as many
\* words as its length needs; of a last word the length cuts, one bit too many
\* is kept.
TryParseV6(m) ==
  LET w == Colons(m.parts)
      d == Append(w.d, Number(Last(m.parts)))
      dp == Len(d)
      given == CASE m.end = AsIs -> 128 [] m.end = Wild -> Len(w.d) * 16 [] OTHER -> m.end
      bits == IF w.finsert < 0 /\ given = 0 THEN dp * 16 ELSE given
      words == (bits + 15) \div 16
      word(i) == IF i <= dp THEN d[i] ELSE 0
      gap == IF words - dp >= 0 THEN words - dp ELSE 8
      dc == [i \in 1 .. 8 |->
               IF w.finsert < 0 \/ i <= w.finsert THEN word(i)
               ELSE IF i <= w.finsert + gap THEN 0 ELSE word(i - gap)]
  IN  IF \/ ~w.ok
         \/ m.end = Wild /\ (w.finsert >= 0 \/ Last(m.parts) # Empty)
         \/ m.end >= 0 /\ given > dp * 4 /\ ~(w.finsert >= 0 /\ given <= 128)
      THEN HmHost
      ELSE [addr |-> Cut(dc, 16, IF bits % 16 = 0 THEN bits ELSE bits + 1), bits |-> bits]

\* match_ipv4
MatchIpv4(ip, r) == Cut(ip, 8, r.bits) = r.addr

\* match_ipv6 compares bytes, the last one of them cut.
MatchIpv6(ip, r) ==
  LET bytes(a) == [i \in 1 .. 16 |-> IF i % 2 = 1 THEN a[(i + 1) \div 2] \div 256 ELSE a[i \div 2] % 256]
      n == (r.bits + 7) \div 8
  IN  \A i \in 1 .. n : Cut(bytes(ip), 8, r.bits)[i] = bytes(r.addr)[i]

-----------------------------------------------------------------------------

Unread == <<>>

\* What a mask of an address says: the address that is written, and how many of
\* its bits count.  (Says is empty for masks that are none.)
Says4(m) ==
  LET n == Len(m.parts)
  IN  IF n <= 4 /\ (m.end = Wild => m.parts[n] = Empty) /\ m.end <= n * 8
      THEN { [addr |-> [i \in 1 .. 4 |-> IF i <= n THEN Number(m.parts[i]) ELSE 0],
              bits |-> CASE m.end = AsIs -> n * 8 [] m.end = Wild -> (n - 1) * 8 [] OTHER -> m.end] }
      ELSE {}

Says6(m) ==
  LET n == Len(m.parts)
      empty == {i \in DOMAIN m.parts : m.parts[i] = Empty}
      left == IF empty = {} THEN m.parts ELSE SubSeq(m.parts, 1, CHOOSE i \in 0 .. n : i + 1 \in empty /\ \A j \in empty : i < j)
      right == IF empty = {} THEN <<>> ELSE SubSeq(m.parts, CHOOSE i \in 1 .. n + 1 : i - 1 \in empty /\ \A j \in empty : j < i, n)
      known == Len(left) + Len(right)
      gap == /\ known < 8 /\ Cardinality(empty) = n - known
             /\ n - known = (IF left = <<>> THEN 1 ELSE 0) + (IF right = <<>> THEN 1 ELSE 0) + 1
      says(bits) == { [addr |-> left \o [i \in 1 .. 8 - known |-> 0] \o right, bits |-> bits] }
  IN  CASE m.end = Wild -> IF n <= 8 /\ empty = {n} /\ n > 1 THEN says(16 * (n - 1)) ELSE {}
        [] m.end \in AsIs .. 128 /\ (gap \/ (known = 8 /\ n = 8)) -> says(IF m.end = AsIs THEN 128 ELSE m.end)
        [] OTHER -> {}

\* An address that differs from a in one bit, or not.
Flip(a, w, i) ==
  IF i < 0 \/ i >= w * Len(a) THEN a
  ELSE [a EXCEPT ![i \div w + 1] = IF Bit(a, w, i) = 1 THEN @ - 2 ^ (w - 1 - (i % w)) ELSE @ + 2 ^ (w - 1 - (i % w))]

Strings(S, n) == UNION {[1 .. l -> S] : l \in 0 .. n}

Parts4 == UNION {[1 .. l -> V4Numbers] : l \in 2 .. 5}
Parts6 == UNION {[1 .. l -> V6Words] : l \in 2 .. 4}
          \cup {[i \in 1 .. l |-> IF i = e THEN Empty ELSE 1] : l \in 7 .. 9, e \in 0 .. 9}

Base(says, n) == IF says = {} THEN [i \in 1 .. n |-> 0]
                 ELSE LET a == (CHOOSE s \in says : TRUE).addr IN [i \in 1 .. n |-> a[i] % 2 ^ (IF n = 4 THEN 8 ELSE 16)]

Init ==
  /\ out = Unread
  /\ \/ input \in [kind : {"name"}, mask : Strings(MaskBytes, MaxMask), name : Strings(NameBytes, MaxName)]
     \/ input \in [kind : {"letters"}, s : [1 .. 1 -> Letters], t : [1 .. 1 -> Letters]]
     \/ input \in [kind : {"nuh"}, text : Strings(NuhBytes, MaxNuh) \ {<<>>}]
     \/ \E parts \in Parts4, end \in V4Lengths, i \in Flips :
          LET m == [parts |-> parts, end |-> end]
          IN  input = [kind |-> "v4", mask |-> m, ip |-> Flip(Base(Says4(m), 4), 8, i)]
     \/ \E parts \in Parts6, end \in V6Lengths, i \in Flips :
          LET m == [parts |-> parts, end |-> end]
          IN  input = [kind |-> "v6", mask |-> m, ip |-> Flip(Base(Says6(m), 8), 16, i)]

\* akill_check_mask, for a part of a mask, and mask_normalize.
AkillCheckMask ==
  /\ out = Unread
  /\ out' = CASE input.kind = "name" -> <<Match(input.mask, input.name)>>
              [] input.kind = "letters" ->
                   <<Irccmp(input.s, input.t), Hashed(input.s) = Hashed(input.t), Match(input.s, input.t)>>
              [] input.kind = "nuh" -> <<MaskNormalize(input.text)>>
              [] input.kind = "v4" ->
                   LET r == TryParseV4(input.mask) IN <<r # HmHost, r # HmHost /\ MatchIpv4(input.ip, r)>>
              [] input.kind = "v6" ->
                   LET r == TryParseV6(input.mask) IN <<r # HmHost, r # HmHost /\ MatchIpv6(input.ip, r)>>
  /\ UNCHANGED input

Next == AkillCheckMask

Spec == Init /\ [][Next]_vars

-----------------------------------------------------------------------------

\* The first i bytes of a mask match the first j of a name.
Fits(k, t) ==
  LET f[i \in 0 .. Len(k), j \in 0 .. Len(t)] ==
        CASE i = 0 -> j = 0
          [] i > 0 /\ k[i] = Star -> f[i - 1, j] \/ (j > 0 /\ f[i, j - 1])
          [] OTHER -> j > 0 /\ f[i - 1, j - 1] /\ Agree(k[i], t[j])
  IN  f[Len(k), Len(t)]

Within(ip, w, says) == \A i \in 0 .. says.bits - 1 : Bit(ip, w, i) = Bit(says.addr, w, i)

\* Where hostmask.c does otherwise: an IPv4 length of 0 and numbers beyond 255;
\* an IPv6 length behind eight words, which are written past the end of d, words
\* behind "::" together with a length, whose gap is too short, and a bit that is
\* set right behind the length, which should have been cleared.
Plain4(m, s) == m.end # 0 /\ \A i \in DOMAIN m.parts : m.parts[i] < 256
Plain6(m, s) ==
  LET w == Colons(m.parts)
      behind == SubSeq(w.d, w.finsert + 1, Len(w.d)) \o <<Number(Last(m.parts))>>
  IN  m.end >= 0 => /\ Len(w.d) < 7
                    /\ s.bits < 128 => \A i \in DOMAIN behind : behind[i] = 0
                    /\ s.bits % 8 # 0 => Bit(s.addr, 16, s.bits) = 0

\* A mask matches whom it says: names that its wildcards make it, and addresses
\* that agree with it in the bits that count, but for the masks above.  A mask
\* that was taken apart and put together is found again; what equals a name has
\* its hash and matches it.  (match, irccmp, strhash, split_nuh, mask_normalize,
\* try_parse_v4_netmask, try_parse_v6_netmask, match_ipv4, match_ipv6)
MasksMatchWhomTheySay ==
  out # Unread =>
    CASE input.kind = "name" -> out[1] = Fits(input.mask, input.name)
      [] input.kind = "letters" ->
           out[1] = out[2] /\ (out[1] => out[3])
      [] input.kind = "nuh" ->
           /\ SplitNuh(out[1]) = SplitNuh(input.text)
           /\ MaskNormalize(out[1]) = out[1]
      [] input.kind = "v4" ->
           IF Says4(input.mask) = {} THEN ~out[1]
           ELSE \A s \in Says4(input.mask) : Plain4(input.mask, s) => out = <<TRUE, Within(input.ip, 8, s)>>
      [] input.kind = "v6" ->
           \A s \in Says6(input.mask) : Plain6(input.mask, s) => out = <<TRUE, Within(input.ip, 16, s)>>
=============================================================================
