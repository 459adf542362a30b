--------------------------- MODULE Commands_proofs --------------------------
(***************************************************************************)
(* Proofs about the way of a line to its handler, about topics, about      *)
(* FloodServ's judgement of messages and about the mode lock, for what     *)
(* MCCommands checks.                                                      *)
(***************************************************************************)
EXTENDS MCCommands, SequenceTheorems, FiniteSetTheorems, WellFoundedInduction, TLAPS

(* Numbers *)

\* A set of numbers has a least one.
LEMMA LeastIsThere ==
  ASSUME NEW set, set \subseteq Nat, set # {}
  PROVE  Least(set) \in set /\ \A n \in set : Least(set) <= n
<1>1. IsWellFoundedOn(OpToRel(<, Nat), Nat)
  BY NatLessThanWellFounded
<1>2. PICK x \in set : \A y \in set : ~ (<<y, x>> \in OpToRel(<, Nat))
  BY <1>1, WFMin
<1>3. \A y \in set : ~ (y < x)
  BY <1>2 DEF OpToRel
<1>4. \A y \in set : x <= y
  BY <1>3
<1> QED BY <1>4 DEF Least

-----------------------------------------------------------------------------
(* From the line to the handler *)

\* The place of the last parameter of a line.
Last(ws) == Least({i \in 1..Len(ws) : ws[i] = ":x"} \cup {MaxPara - 1, Len(ws)})
\* A parameter.
Parameter(ws, i) == IF i < Last(ws) THEN <<ws[i]>> ELSE SubSeq(ws, i, Len(ws))

\* A line has at least one parameter, and room for NULL after the last.
LEMMA LastIsThere ==
  ASSUME NEW ws \in Lines, ws # <<>>
  PROVE  /\ ws \in Seq(Words) /\ Len(ws) \in Nat \ {0}
         /\ Last(ws) \in 1..Len(ws) /\ Last(ws) <= MaxPara - 1
<1>1. PICK n \in 0..MaxWords : ws \in [1..n -> Words]
  BY DEF Lines
<1>2. n \in Nat /\ ws \in Seq(Words) /\ Len(ws) = n
  BY <1>1, DispatchAssumption
<1>3. n # 0
  <2>1. n = 0 => ws = <<>>
    BY <1>2, EmptySeq
  <2> QED BY <2>1
<1> DEFINE ends == {i \in 1..Len(ws) : ws[i] = ":x"} \cup {MaxPara - 1, Len(ws)}
<1>4. ends \subseteq Nat \ {0} /\ MaxPara - 1 \in ends /\ Len(ws) \in ends
  BY <1>2, <1>3, DispatchAssumption
<1>5. Least(ends) \in ends /\ \A k \in ends : Least(ends) <= k
  BY <1>4, LeastIsThere
<1>6. Last(ws) = Least(ends)
  BY DEF Last
<1> HIDE DEF ends
<1>7. Last(ws) \in Nat \ {0} /\ Last(ws) <= Len(ws) /\ Last(ws) <= MaxPara - 1
  BY <1>4, <1>5, <1>6
<1> QED BY <1>2, <1>3, <1>7

\* No parameter is NULL, and each is a sequence of words.
LEMMA ParametersAreWords ==
  ASSUME NEW ws \in Lines, ws # <<>>, NEW i \in 1..Last(ws)
  PROVE  Parameter(ws, i) \in Seq(Words) /\ Parameter(ws, i) # Null
<1>1. /\ ws \in Seq(Words) /\ Len(ws) \in Nat \ {0}
      /\ Last(ws) \in 1..Len(ws) /\ Last(ws) <= MaxPara - 1
  BY LastIsThere
<1>2. i \in 1..Len(ws) /\ ws[i] \in Words
  BY <1>1
<1>3. CASE i < Last(ws)
  <2>1. Parameter(ws, i) = <<ws[i]>>
    BY <1>3 DEF Parameter
  <2>2. <<ws[i]>> \in Seq(Words) /\ Len(<<ws[i]>>) = 1
    BY <1>2
  <2> QED BY <2>1, <2>2, EmptySeq DEF Null
<1>4. CASE ~ (i < Last(ws))
  <2>1. Parameter(ws, i) = SubSeq(ws, i, Len(ws))
    BY <1>4 DEF Parameter
  <2>2. SubSeq(ws, i, Len(ws)) \in Seq(Words) /\ Len(SubSeq(ws, i, Len(ws))) = Len(ws) - i + 1
    BY <1>1, <1>2
  <2>3. Len(SubSeq(ws, i, Len(ws))) # 0
    BY <1>1, <1>2, <2>2
  <2> QED BY <2>1, <2>2, <2>3, EmptySeq DEF Null
<1> QED BY <1>3, <1>4

\* What a user means has the parameters of the line.
LEMMA ParametersAre ==
  ASSUME NEW ws \in Lines, ws # <<>>
  PROVE  /\ Parameters(ws) = [i \in 1..Last(ws) |-> Parameter(ws, i)]
         /\ Parameters(ws) \in Seq(Seq(Words))
         /\ Len(Parameters(ws)) = Last(ws)
<1>1. Last(ws) \in Nat
  BY LastIsThere
<1>2. Parameters(ws) = [i \in 1..Last(ws) |-> Parameter(ws, i)]
  BY DEF Parameters, Last, Parameter
<1>3. [i \in 1..Last(ws) |-> Parameter(ws, i)] \in [1..Last(ws) -> Seq(Words)]
  BY ParametersAreWords
<1> QED BY <1>1, <1>2, <1>3

\* The array has them as well, and NULL behind.
LEMMA ArrayIs ==
  ASSUME NEW ws \in Lines, ws # <<>>
  PROVE  /\ StringToArray(ws).i = Last(ws) + 1
         /\ DOMAIN StringToArray(ws).v = 1..(MaxPara + 1)
         /\ \A k \in 1..Last(ws) : StringToArray(ws).v[k] = Parameter(ws, k)
         /\ \A k \in (Last(ws) + 1)..(MaxPara + 1) : StringToArray(ws).v[k] = Null
<1>1. Last(ws) \in 1..Len(ws) /\ Last(ws) <= MaxPara - 1 /\ Len(ws) \in Nat
  BY LastIsThere
<1>2. StringToArray(ws) =
        [i |-> Last(ws) + 1,
         v |-> [k \in 1..(MaxPara + 1) |->
                  IF k > Last(ws) THEN Null
                  ELSE IF k < Last(ws) THEN <<ws[k]>> ELSE SubSeq(ws, k, Len(ws))]]
  BY DEF StringToArray, Last
<1> QED BY <1>1, <1>2, DispatchAssumption DEF Parameter

\* What is known of a message and of its sub message.
MessageTyped(m) ==
  /\ m.keep \in BOOLEAN
  /\ m.min \in Nat /\ m.max \in Nat /\ m.access \in 0..4
  /\ m.arg \in {"chan", "group", "none"} /\ (m.arg # "none" => m.min >= 1)
  /\ m.subs # {} =>
       LET e == CHOOSE f \in m.subs : TRUE
       IN  /\ e.min \in Nat /\ e.max \in Nat /\ e.access \in 0..4
           /\ m.arg # "none" => e.min >= 1
LEMMA MessagesTyped ==
  ASSUME NEW m \in Commands
  PROVE  MessageTyped(m)
<1>1. \A e : (CHOOSE f \in {e} : TRUE) = e
  OBVIOUS
<1> DEFINE constants == {Anyone, Identified, Oper, Admin, Sudo, CHUSER, MEMBER, CHANOP, MASTER}
<1>2. constants \subseteq 0..4 /\ NoLimit \in Nat
  BY DEF Anyone, Identified, Oper, Admin, Sudo, CHUSER, MEMBER, CHANOP, MASTER, NoLimit
<1>3. CASE m \in ChanServCommands
  <2>1. MessageTyped(Message("INFO", "chan", 1, 1, CHUSER, FALSE, {}))
    BY <1>2 DEF MessageTyped, Message
  <2>2. MessageTyped(Message("DROP", "chan", 1, 2, MASTER, FALSE, {}))
    BY <1>2 DEF MessageTyped, Message
  <2>3. MessageTyped(Message("SET", "chan", 2, 2, MASTER, TRUE,
                             {[min |-> 1, max |-> NoLimit, access |-> CHANOP]}))
    BY <1>1, <1>2 DEF MessageTyped, Message
  <2>4. MessageTyped(Message("ACCESS", "chan", 2, 2, MASTER, TRUE,
                             {[min |-> 1, max |-> 1, access |-> CHUSER]}))
    BY <1>1, <1>2 DEF MessageTyped, Message
  <2>5. MessageTyped(Message("SUDO", "none", 2, NoLimit, Admin, FALSE, {}))
    BY <1>2 DEF MessageTyped, Message
  <2> QED BY <1>3, <2>1, <2>2, <2>3, <2>4, <2>5 DEF ChanServCommands
<1>4. CASE m \in GroupServCommands
  <2>1. MessageTyped(Message("GROUP ACCESS", "group", 2, 2, MASTER, TRUE,
                             {[min |-> 2, max |-> 2, access |-> MEMBER]}))
    BY <1>1, <1>2 DEF MessageTyped, Message
  <2> QED BY <1>4, <2>1 DEF GroupServCommands
<1>5. CASE m \in NickServCommands
  <2>1. MessageTyped(Message("NICK SET", "none", 0, 0, Identified, FALSE,
                             {[min |-> 0, max |-> 1, access |-> Identified]}))
    BY <1>1, <1>2 DEF MessageTyped, Message
  <2> QED BY <1>5, <2>1 DEF NickServCommands
<1>6. CASE m \in OperServCommands
  <2>1. MessageTyped(Message("AKILL", "none", 2, 2, Oper, FALSE,
                             {[min |-> 2, max |-> NoLimit, access |-> Oper]}))
    BY <1>1, <1>2 DEF MessageTyped, Message
  <2> QED BY <1>6, <2>1 DEF OperServCommands
<1> QED BY <1>3, <1>4, <1>5, <1>6 DEF Commands

\* Only a message with a sub message has its parameters exchanged.
LEMMA KeptHaveSubs ==
  ASSUME NEW m \in Commands
  PROVE  m.keep => m.subs # {}
<1> DEFINE Fine(x) == x.keep => x.subs # {}
<1>1. CASE m \in ChanServCommands
  <2>1. Fine(Message("INFO", "chan", 1, 1, CHUSER, FALSE, {}))
    BY DEF Message
  <2>2. Fine(Message("DROP", "chan", 1, 2, MASTER, FALSE, {}))
    BY DEF Message
  <2>3. Fine(Message("SET", "chan", 2, 2, MASTER, TRUE,
                     {[min |-> 1, max |-> NoLimit, access |-> CHANOP]}))
    BY DEF Message
  <2>4. Fine(Message("ACCESS", "chan", 2, 2, MASTER, TRUE,
                     {[min |-> 1, max |-> 1, access |-> CHUSER]}))
    BY DEF Message
  <2>5. Fine(Message("SUDO", "none", 2, NoLimit, Admin, FALSE, {}))
    BY DEF Message
  <2> HIDE DEF Fine
  <2>6. Fine(m)
    BY <1>1, <2>1, <2>2, <2>3, <2>4, <2>5 DEF ChanServCommands
  <2> QED BY <2>6 DEF Fine
<1>2. CASE m \in GroupServCommands
  <2>1. Fine(Message("GROUP ACCESS", "group", 2, 2, MASTER, TRUE,
                     {[min |-> 2, max |-> 2, access |-> MEMBER]}))
    BY DEF Message
  <2> QED BY <1>2, <2>1 DEF GroupServCommands
<1>3. CASE m \in NickServCommands
  <2>1. Fine(Message("NICK SET", "none", 0, 0, Identified, FALSE,
                     {[min |-> 0, max |-> 1, access |-> Identified]}))
    BY DEF Message
  <2> QED BY <1>3, <2>1 DEF NickServCommands
<1>4. CASE m \in OperServCommands
  BY <1>4 DEF OperServCommands, Message
<1> QED BY <1>1, <1>2, <1>3, <1>4 DEF Commands

\* The place of the sub message, if the message has any.
At(m, ws) == IF m.keep /\ Last(ws) > 1 THEN 2 ELSE 1

\* The parameters without that of the sub message.
Others(m, ws) ==
  [i \in 1..(Last(ws) - 1) |-> IF i < At(m, ws) THEN Parameter(ws, i) ELSE Parameter(ws, i + 1)]

\* What a user means, by places.
LEMMA MeantIs ==
  ASSUME NEW m \in Commands, NEW ws \in Lines, ws # <<>>
  PROVE  LET ps == [i \in 1..Last(ws) |-> Parameter(ws, i)]
         IN  Meant(m, ws) =
               IF m.subs = {} THEN [handler |-> "main", ps |-> ps]
               ELSE IF Parameter(ws, At(m, ws)) # <<"sub">> THEN [handler |-> "none", ps |-> <<>>]
               ELSE [handler |-> "sub", ps |-> Others(m, ws)]
<1> DEFINE ps == Parameters(ws)
           at == At(m, ws)
<1>1. Last(ws) \in Nat \ {0}
  BY LastIsThere
<1>2. ps = [i \in 1..Last(ws) |-> Parameter(ws, i)] /\ ps \in Seq(Seq(Words)) /\ Len(ps) = Last(ws)
  BY ParametersAre
<1>3. ps # <<>>
  BY <1>1, <1>2, EmptySeq
<1>4. m.keep \in BOOLEAN /\ at \in 1..2 /\ at <= Last(ws)
  BY <1>1, MessagesTyped DEF At, MessageTyped
<1>5. (IF m.keep /\ Len(ps) > 1 THEN 2 ELSE 1) = at
  BY <1>2 DEF At
<1>6. ps[at] = Parameter(ws, at)
  BY <1>2, <1>4
<1>7. SubSeq(ps, 1, at - 1) \o SubSeq(ps, at + 1, Len(ps)) = Others(m, ws)
  <2> DEFINE a == SubSeq(ps, 1, at - 1)
             b == SubSeq(ps, at + 1, Len(ps))
  <2> HIDE DEF ps, at
  <2>1. /\ a \in Seq(Seq(Words)) /\ Len(a) = at - 1
        /\ \A i \in 1..(at - 1) : a[i] = ps[i]
    BY <1>1, <1>2, <1>4
  <2>2. /\ b \in Seq(Seq(Words)) /\ Len(b) = Last(ws) - at
        /\ \A i \in 1..(Last(ws) - at) : b[i] = ps[at + i]
    BY <1>1, <1>2, <1>4
  <2> HIDE DEF a, b
  <2>3. a \o b \in Seq(Seq(Words)) /\ Len(a \o b) = Last(ws) - 1
    BY <1>1, <1>4, <2>1, <2>2
  <2>4. ASSUME NEW i \in 1..(Last(ws) - 1)
        PROVE  (a \o b)[i] = IF i < at THEN Parameter(ws, i) ELSE Parameter(ws, i + 1)
    <3>1. CASE i < at
      <4>1. (a \o b)[i] = a[i] /\ i \in 1..Last(ws)
        BY <1>1, <1>4, <2>1, <2>2, <3>1
      <4> QED BY <1>2, <1>4, <2>1, <3>1, <4>1
    <3>2. CASE ~ (i < at)
      <4>1. (a \o b)[i] = b[i - (at - 1)] /\ i - (at - 1) \in 1..(Last(ws) - at)
        BY <1>1, <1>4, <2>1, <2>2, <3>2, SMTT(20)
      <4>2. b[i - (at - 1)] = ps[i + 1] /\ i + 1 \in 1..Last(ws)
        BY <1>1, <1>4, <2>2, <4>1
      <4> QED BY <1>2, <3>2, <4>1, <4>2
    <3> QED BY <3>1, <3>2
  <2>5. Others(m, ws) = [i \in 1..(Last(ws) - 1) |-> IF i < at THEN Parameter(ws, i) ELSE Parameter(ws, i + 1)]
    BY DEF Others, at
  <2>6. a \o b = [i \in 1..(Last(ws) - 1) |-> (a \o b)[i]]
    <3>1. \A s \in Seq(Seq(Words)) : s = [i \in 1..Len(s) |-> s[i]]
      OBVIOUS
    <3> QED BY <2>3, <3>1
  <2> QED BY <2>4, <2>5, <2>6 DEF a, b
<1> QED BY <1>2, <1>3, <1>5, <1>6, <1>7 DEF Meant

\* What process_privmsg hands on, by places.
Handed(m, ws, p) ==
  /\ p.m = m
  /\ p.sub = (m.subs # {})
  /\ p.unknown = (p.sub /\ Parameter(ws, At(m, ws)) # <<"sub">>)
  /\ p.n = IF p.sub THEN Last(ws) - 1 ELSE Last(ws)
  /\ \A k \in 1..p.n : p.v[k] = IF p.sub THEN Others(m, ws)[k] ELSE Parameter(ws, k)
  /\ p.v[p.n + 1] = Null
LEMMA ProcessHands ==
  ASSUME NEW m \in Commands, NEW ws \in Lines, ws # <<>>
  PROVE  Handed(m, ws, ProcessPrivmsg(m, ws))
<1> DEFINE a == StringToArray(ws)
           l == Last(ws)
           v == IF a.i > 2 /\ m.keep THEN Swap(a.v) ELSE a.v
           p == ProcessPrivmsg(m, ws)
<1>1. /\ l \in Nat \ {0} /\ l <= MaxPara - 1 /\ MaxPara \in Nat \ {0, 1}
      /\ a.i = l + 1 /\ DOMAIN a.v = 1..(MaxPara + 1)
      /\ \A k \in 1..l : a.v[k] = Parameter(ws, k)
      /\ \A k \in (l + 1)..(MaxPara + 1) : a.v[k] = Null
  BY LastIsThere, ArrayIs, DispatchAssumption
<1>2. m.keep \in BOOLEAN /\ (m.keep => m.subs # {})
  BY MessagesTyped, KeptHaveSubs DEF MessageTyped
<1>3. p = [m |-> m, sub |-> (m.subs # {} /\ v[1] # Null),
           unknown |-> ((m.subs # {} /\ v[1] # Null) /\ v[1] # <<"sub">>),
           n |-> IF a.i = 0 THEN 0 ELSE IF m.subs # {} /\ v[1] # Null THEN a.i - 2 ELSE a.i - 1,
           v |-> IF m.subs # {} /\ v[1] # Null THEN Shift(v, a.i) ELSE v]
  BY DEF ProcessPrivmsg
<1> HIDE DEF a, l, p
<1>4. /\ DOMAIN v = 1..(MaxPara + 1)
      /\ v[1] = Parameter(ws, At(m, ws))
      /\ At(m, ws) \in 1..l
      /\ \A k \in 1..(MaxPara + 1) :
            v[k] = IF At(m, ws) = 2 /\ k = 1 THEN a.v[2]
                   ELSE IF At(m, ws) = 2 /\ k = 2 THEN a.v[1] ELSE a.v[k]
  <2>1. CASE m.keep /\ l > 1
    <3>1. v = [a.v EXCEPT ![1] = a.v[2], ![2] = a.v[1]] /\ At(m, ws) = 2
      BY <1>1, <2>1 DEF At, Swap, l
    <3> HIDE DEF v
    <3> QED BY <1>1, <2>1, <3>1
  <2>2. CASE ~ (m.keep /\ l > 1)
    <3>1. v = a.v /\ At(m, ws) = 1
      BY <1>1, <1>2, <2>2 DEF At, l
    <3> HIDE DEF v
    <3> QED BY <1>1, <3>1
  <2> QED BY <2>1, <2>2
<1> HIDE DEF v
<1>5. v[1] # Null
  BY <1>4, ParametersAreWords DEF l
<1>6. /\ p.m = m /\ p.sub = (m.subs # {})
      /\ p.unknown = (m.subs # {} /\ v[1] # <<"sub">>)
      /\ p.n = IF m.subs # {} THEN l - 1 ELSE l
      /\ p.v = IF m.subs # {} THEN Shift(v, l + 1) ELSE v
  <2>1. a.i # 0 /\ a.i - 2 = l - 1 /\ a.i - 1 = l
    BY <1>1
  <2> QED BY <1>1, <1>3, <1>5, <2>1
<1>7. CASE m.subs = {}
  <2>1. At(m, ws) = 1
    BY <1>2, <1>7 DEF At
  <2>2. \A k \in 1..(MaxPara + 1) : v[k] = a.v[k]
    BY <1>4, <2>1
  <2>3. p.n = l /\ p.v = v /\ p.sub = FALSE /\ p.unknown = FALSE /\ p.m = m
    BY <1>6, <1>7
  <2>4. p.v[l + 1] = Null /\ \A k \in 1..l : p.v[k] = Parameter(ws, k)
    <3>1. l + 1 \in (l + 1)..(MaxPara + 1) /\ l + 1 \in 1..(MaxPara + 1)
          /\ \A k \in 1..l : k \in 1..(MaxPara + 1)
      BY <1>1
    <3>2. v[l + 1] = Null /\ \A k \in 1..l : v[k] = Parameter(ws, k)
      BY <1>1, <2>2, <3>1, Zenon
    <3> QED BY <2>3, <3>2, Zenon
  <2> HIDE DEF p
  <2>5. Handed(m, ws, p)
    BY <1>7, <2>3, <2>4 DEF Handed, l
  <2> QED BY <2>5 DEF p
<1>8. CASE m.subs # {}
  <2>1. \A k \in 1..l : p.v[k] = v[k + 1] /\ k + 1 \in 1..(MaxPara + 1)
    <3>1. p.v = [k \in 1..(MaxPara + 1) |-> IF k \in 1..((l + 1) - 1) THEN v[k + 1] ELSE v[k]]
      BY <1>4, <1>6, <1>8 DEF Shift
    <3> QED BY <1>1, <3>1
  <2>2. p.n = l - 1 /\ p.v[l] = Null
    <3>1. l \in 1..l /\ l + 1 \in (l + 1)..(MaxPara + 1) /\ l + 1 \in 1..(MaxPara + 1)
          /\ l + 1 # 1 /\ (At(m, ws) = 2 => l + 1 # 2)
      BY <1>1, <1>4
    <3>2. v[l + 1] = a.v[l + 1] /\ a.v[l + 1] = Null
      BY <1>1, <1>4, <3>1
    <3>3. p.v[l] = v[l + 1] /\ p.n = l - 1
      BY <1>6, <1>8, <2>1, <3>1, Zenon
    <3> QED BY <3>2, <3>3, Zenon
  <2>3. ASSUME NEW k \in 1..(l - 1)
        PROVE  p.v[k] = Others(m, ws)[k]
    <3>1. k \in 1..l /\ k + 1 \in 1..l /\ k + 1 # 1
      BY <1>1
    <3>2. p.v[k] = IF At(m, ws) = 2 /\ k = 1 THEN a.v[1] ELSE a.v[k + 1]
      BY <1>1, <1>4, <2>1, <3>1
    <3>3. Others(m, ws)[k] = IF k < At(m, ws) THEN Parameter(ws, k) ELSE Parameter(ws, k + 1)
      BY DEF Others, l
    <3>4. At(m, ws) \in {1, 2}
      BY DEF At
    <3>5. a.v[1] = Parameter(ws, 1) /\ a.v[k + 1] = Parameter(ws, k + 1)
      BY <1>1, <3>1
    <3>6. CASE At(m, ws) = 1
      BY <3>1, <3>2, <3>3, <3>5, <3>6
    <3>7. CASE At(m, ws) = 2
      BY <3>1, <3>2, <3>3, <3>5, <3>7
    <3> QED BY <3>4, <3>6, <3>7
  <2>4. p.sub /\ p.m = m /\ p.unknown = (p.sub /\ Parameter(ws, At(m, ws)) # <<"sub">>)
    BY <1>4, <1>6, <1>8
  <2>5. p.n + 1 = l
    BY <1>1, <2>2
  <2> QED BY <1>8, <2>2, <2>3, <2>4, <2>5 DEF Handed, p, l
<1> QED BY <1>7, <1>8

\* What process_privmsg hands on is what the user means.
Fits(m, ws, p) ==
  LET meant == Meant(m, ws)
  IN  /\ p.m = m
      /\ p.unknown = (meant.handler = "none")
      /\ p.unknown \/
           /\ p.sub = (meant.handler = "sub")
           /\ p.n \in Nat /\ p.n = Len(meant.ps)
           /\ Call(p) = [handler |-> meant.handler, ps |-> Append(meant.ps, Null)]
           /\ p.n >= 1 => p.v[1] = meant.ps[1]
LEMMA NothingFits ==
  ASSUME NEW m \in Commands
  PROVE  Fits(m, <<>>, ProcessPrivmsg(m, <<>>))
<1> DEFINE p == ProcessPrivmsg(m, <<>>)
<1>1. p = [m |-> m, sub |-> FALSE, unknown |-> FALSE, n |-> 0,
           v |-> [k \in 1..(MaxPara + 1) |-> Null]]
  <2>1. 1 \in 1..(MaxPara + 1)
    BY DispatchAssumption
  <2> DEFINE v == [k \in 1..(MaxPara + 1) |-> Null]
  <2>2. v[1] = Null
    BY <2>1
  <2>3. NoParameters = [i |-> 0, v |-> v]
    BY DEF NoParameters
  <2> HIDE DEF v
  <2>4. /\ NoParameters.i = 0 /\ NoParameters.v = v
        /\ (IF 0 > 2 /\ m.keep THEN Swap(v) ELSE v) = v
    BY <2>3
  <2>5. ProcessPrivmsg(m, <<>>) =
          [m |-> m, sub |-> m.subs # {} /\ v[1] # Null,
           unknown |-> (m.subs # {} /\ v[1] # Null) /\ v[1] # <<"sub">>,
           n |-> 0, v |-> IF m.subs # {} /\ v[1] # Null THEN Shift(v, 0) ELSE v]
    BY <2>4 DEF ProcessPrivmsg
  <2>6. (m.subs # {} /\ v[1] # Null) = FALSE
    BY <2>2
  <2> QED BY <2>5, <2>6 DEF v
<1>2. Parameters(<<>>) = <<>>
  <2>1. /\ {i \in 1..Len(<<>>) : <<>>[i] = ":x"} \cup {MaxPara - 1, Len(<<>>)} = {MaxPara - 1, 0}
        /\ MaxPara - 1 \in Nat
    BY DispatchAssumption
  <2>2. Least({MaxPara - 1, 0}) = 0
    <3>1. Least({MaxPara - 1, 0}) \in {MaxPara - 1, 0} /\ Least({MaxPara - 1, 0}) <= 0
      BY <2>1, LeastIsThere
    <3> QED BY <2>1, <3>1
  <2>3. Parameters(<<>>) = [i \in 1..0 |-> IF i < 0 THEN <<(<<>>)[i]>> ELSE SubSeq(<<>>, i, Len(<<>>))]
    BY <2>1, <2>2 DEF Parameters
  <2> QED BY <2>3
<1>3. Meant(m, <<>>) = [handler |-> "main", ps |-> <<>>]
  BY <1>2 DEF Meant
<1>4. Call(p) = [handler |-> "main", ps |-> Append(<<>>, Null)]
  <2>1. [i \in 1..(p.n + 1) |-> p.v[i]] = <<Null>>
    BY <1>1, DispatchAssumption
  <2> QED BY <1>1, <2>1 DEF Call
<1> HIDE DEF p
<1>5. Fits(m, <<>>, p)
  <2>1. p.m = m /\ p.sub = FALSE /\ p.unknown = FALSE /\ p.n = 0
    BY <1>1 DEF p
  <2>2. Meant(m, <<>>).handler = "main" /\ Meant(m, <<>>).ps = <<>> /\ Len(<<>>) = 0
    BY <1>3
  <2>3. p.unknown = (Meant(m, <<>>).handler = "none") /\ p.sub = (Meant(m, <<>>).handler = "sub")
    BY <2>1, <2>2
  <2>4. p.n \in Nat /\ p.n = Len(Meant(m, <<>>).ps) /\ ~ (p.n >= 1)
    BY <2>1, <2>2
  <2>5. Call(p) = [handler |-> Meant(m, <<>>).handler, ps |-> Append(Meant(m, <<>>).ps, Null)]
    BY <1>4, <2>2
  <2> QED BY <2>1, <2>3, <2>4, <2>5 DEF Fits
<1> QED BY <1>5 DEF p

LEMMA LineFits ==
  ASSUME NEW m \in Commands, NEW ws \in Lines
  PROVE  Fits(m, ws, ProcessPrivmsg(m, ws))
<1>1. CASE ws = <<>>
  BY <1>1, NothingFits
<1>2. CASE ws # <<>>
  <2> DEFINE p == ProcessPrivmsg(m, ws)
             ps == [i \in 1..Last(ws) |-> Parameter(ws, i)]
  <2>1. Last(ws) \in Nat \ {0}
    BY <1>2, LastIsThere
  <2>2. Handed(m, ws, p)
    BY <1>2, ProcessHands
  <2>3. Meant(m, ws) =
          IF m.subs = {} THEN [handler |-> "main", ps |-> ps]
          ELSE IF Parameter(ws, At(m, ws)) # <<"sub">> THEN [handler |-> "none", ps |-> <<>>]
          ELSE [handler |-> "sub", ps |-> Others(m, ws)]
    BY <1>2, MeantIs
  <2>4. ps \in Seq(Seq(Words)) /\ Len(ps) = Last(ws)
    BY <1>2, ParametersAre
  <2>5. Others(m, ws) \in Seq(Seq(Words)) /\ Len(Others(m, ws)) = Last(ws) - 1
    <3>1. \A i \in 1..(Last(ws) - 1) : i \in 1..Last(ws) /\ i + 1 \in 1..Last(ws)
      BY <2>1
    <3>2. Others(m, ws) \in [1..(Last(ws) - 1) -> Seq(Words)]
      BY <1>2, <3>1, ParametersAreWords DEF Others
    <3>3. Last(ws) - 1 \in Nat
      BY <2>1
    <3> QED BY <3>2, <3>3
  <2> HIDE DEF p, ps
  <2>6. \A s \in Seq(Seq(Words)) :
          /\ Append(s, Null) = [i \in 1..(Len(s) + 1) |-> IF i = Len(s) + 1 THEN Null ELSE s[i]]
          /\ Len(s) \in Nat
    <3>1. ASSUME NEW s \in Seq(Seq(Words))
          PROVE  /\ Append(s, Null) = [i \in 1..(Len(s) + 1) |-> IF i = Len(s) + 1 THEN Null ELSE s[i]]
                 /\ Len(s) \in Nat
      <4>1. <<>> \in Seq(Words)
        OBVIOUS
      <4>2. /\ Append(s, Null) \in Seq(Seq(Words)) /\ Len(Append(s, Null)) = Len(s) + 1
            /\ \A i \in 1..Len(s) : Append(s, Null)[i] = s[i]
            /\ Append(s, Null)[Len(s) + 1] = Null
        BY <4>1 DEF Null
      <4> HIDE DEF Null
      <4>3. \A q \in Seq(Seq(Words)) : q = [i \in 1..Len(q) |-> q[i]]
        OBVIOUS
      <4>4. Append(s, Null) = [i \in 1..(Len(s) + 1) |-> Append(s, Null)[i]] /\ Len(s) \in Nat
        <5> DEFINE q == Append(s, Null)
        <5> HIDE DEF q
        <5>1. q \in Seq(Seq(Words)) /\ Len(q) = Len(s) + 1
          BY <4>2 DEF q
        <5>2. q = [i \in 1..Len(q) |-> q[i]]
          BY <4>3, <5>1
        <5>3. q = [i \in 1..(Len(s) + 1) |-> q[i]]
          BY <5>1, <5>2
        <5> QED BY <5>3 DEF q
      <4>5. \A i \in 1..(Len(s) + 1) : i = Len(s) + 1 \/ i \in 1..Len(s)
        BY <4>4
      <4> QED BY <4>2, <4>4, <4>5
    <3> QED BY <3>1
  <2>7. CASE m.subs = {}
    <3>1. p.sub = FALSE /\ p.unknown = FALSE /\ p.n = Last(ws) /\ p.m = m
      BY <2>2, <2>7 DEF Handed
    <3>2. \A k \in 1..(Last(ws) + 1) : p.v[k] = IF k = Last(ws) + 1 THEN Null ELSE ps[k]
      BY <2>1, <2>2, <3>1 DEF Handed, ps
    <3>3. [i \in 1..(p.n + 1) |-> p.v[i]] = Append(ps, Null)
      BY <2>4, <2>6, <3>1, <3>2
    <3>4. Meant(m, ws).handler = "main" /\ Meant(m, ws).ps = ps
      BY <2>3, <2>7
    <3>5. Call(p) = [handler |-> "main", ps |-> Append(ps, Null)]
      BY <3>1, <3>3 DEF Call
    <3>6. p.v[1] = ps[1]
      BY <2>1, <3>2
    <3>7. Fits(m, ws, p)
      BY <2>1, <2>4, <3>1, <3>4, <3>5, <3>6 DEF Fits
    <3> QED BY <3>7 DEF p
  <2>8. CASE m.subs # {} /\ Parameter(ws, At(m, ws)) # <<"sub">>
    <3>1. p.unknown = TRUE /\ p.m = m
      BY <2>2, <2>8 DEF Handed
    <3>2. Meant(m, ws).handler = "none"
      BY <2>3, <2>8
    <3>3. Fits(m, ws, p)
      BY <3>1, <3>2 DEF Fits
    <3> QED BY <3>3 DEF p
  <2>9. CASE m.subs # {} /\ Parameter(ws, At(m, ws)) = <<"sub">>
    <3>1. p.sub = TRUE /\ p.unknown = FALSE /\ p.n = Last(ws) - 1 /\ p.m = m
      BY <2>2, <2>9 DEF Handed
    <3>2. \A k \in 1..Last(ws) : p.v[k] = IF k = Last(ws) THEN Null ELSE Others(m, ws)[k]
      BY <2>1, <2>2, <3>1 DEF Handed
    <3>3. [i \in 1..(p.n + 1) |-> p.v[i]] = Append(Others(m, ws), Null)
      BY <2>1, <2>5, <2>6, <3>1, <3>2, SMTT(20)
    <3>4. Meant(m, ws).handler = "sub" /\ Meant(m, ws).ps = Others(m, ws)
      BY <2>3, <2>9
    <3>5. Call(p) = [handler |-> "sub", ps |-> Append(Others(m, ws), Null)]
      BY <3>1, <3>3 DEF Call
    <3>6. p.n >= 1 => p.v[1] = Others(m, ws)[1]
      BY <2>1, <3>1, <3>2
    <3>7. p.n \in Nat /\ p.n = Len(Meant(m, ws).ps)
      BY <2>1, <2>5, <3>1, <3>4
    <3>8. Fits(m, ws, p)
      BY <3>1, <3>4, <3>5, <3>6, <3>7 DEF Fits
    <3> QED BY <3>8 DEF p
  <2> QED BY <2>7, <2>8, <2>9
<1> QED BY <1>1, <1>2

\* What should come of a line.
Answer(m, ws, u) ==
  IF Permitted(m, ws, u)
  THEN LET meant == Meant(m, ws) IN [handler |-> meant.handler, ps |-> Append(meant.ps, Null)]
  ELSE Refused

\* Who may have a command has the access or the level for it.
LEMMA LevelsAgree ==
  ASSUME NEW u \in Users, NEW n \in 0..4
  PROVE  /\ u.access \in Nat /\ Level(u) \in Nat
         /\ ~ (Level(u) < n) <=> (u.access = Sudo \/ n <= u.level)
<1> USE DEF Level, Anyone, Identified, Oper, Admin, Sudo, CHUSER, MEMBER, CHANOP, MASTER
<1>1. CASE u \in { [access |-> Anyone, nickname |-> FALSE, level |-> CHUSER],
                   [access |-> Oper, nickname |-> FALSE, level |-> CHUSER],
                   [access |-> Sudo, nickname |-> TRUE, level |-> CHUSER] }
  BY <1>1
<1>2. CASE u \in [access : {Identified}, nickname : {TRUE}, level : {CHUSER, MEMBER, CHANOP, MASTER}]
  <2>1. u.access \in {1} /\ u.nickname = TRUE /\ u.level \in {0, 2, 3, 4}
    BY <1>2
  <2>2. Level(u) = u.level
    BY <2>1
  <2> QED BY <2>1, <2>2
<1> QED BY <1>1, <1>2 DEF Users

LEMMA LineIsAnswered ==
  ASSUME NEW m \in Commands, NEW ws \in Lines, NEW u \in Users, NEW p,
         Fits(m, ws, p), HandleServicesCommand(p, u)
  PROVE  /\ crashed' \/ ran' = Answer(m, ws, u)
         /\ crashed' => crashed \/ (row /\ exists /\ regchan = 0)
<1> DEFINE meant == Meant(m, ws)
           entry == IF meant.handler = "sub" THEN CHOOSE e \in m.subs : TRUE ELSE m
<1>1. CASE p.unknown
  <2>1. ran' = Refused /\ UNCHANGED crashed
    BY <1>1 DEF HandleServicesCommand
  <2>2. meant.handler = "none"
    BY <1>1 DEF Fits
  <2> QED BY <2>1, <2>2 DEF Answer, Permitted
<1>2. CASE ~ p.unknown
  <2>1. /\ p.m = m /\ meant.handler # "none"
        /\ p.sub = (meant.handler = "sub")
        /\ p.n \in Nat /\ p.n = Len(meant.ps)
        /\ Call(p) = [handler |-> meant.handler, ps |-> Append(meant.ps, Null)]
        /\ p.n >= 1 => p.v[1] = meant.ps[1]
    BY <1>2 DEF Fits
  <2>2. Entry(p) = entry
    <3>1. CASE p.sub
      <4> DEFINE Sub(x) == CHOOSE e \in x.subs : TRUE
      <4>1. Entry(p) = Sub(p.m) /\ entry = Sub(m)
        BY <2>1, <3>1 DEF Entry
      <4> HIDE DEF Sub, entry
      <4> QED BY <2>1, <4>1
    <3>2. CASE ~ p.sub
      BY <2>1, <3>2 DEF Entry
    <3> QED BY <3>1, <3>2
  <2>3. MessageTyped(m)
    BY MessagesTyped
  <2>4. meant.handler = "sub" => m.subs # {}
    BY DEF Meant
  <2>5. /\ entry.min \in Nat /\ entry.max \in Nat /\ entry.access \in 0..4
        /\ m.arg # "none" => entry.min >= 1
    BY <2>3, <2>4 DEF MessageTyped
  <2> HIDE DEF meant, entry
  <2>6. Permitted(m, ws, u) <=>
          /\ Len(meant.ps) \in entry.min..entry.max
          /\ IF m.arg = "none" THEN entry.access <= u.access
             ELSE /\ meant.ps[1] = <<"#c">>
                  /\ m.arg = "chan" => row
                  /\ u.access = Sudo \/ entry.access <= u.level
    BY <2>1 DEF Permitted, meant, entry
  <2>7. Answer(m, ws, u) = IF Permitted(m, ws, u) THEN Call(p) ELSE Refused
    BY <2>1 DEF Answer, meant
  <2>8. m.arg \in {"chan", "group", "none"}
    BY <2>3 DEF MessageTyped
  <2>9. CASE TooFew(p) \/ TooMany(p)
    <3>1. ran' = Refused /\ UNCHANGED crashed
      BY <2>9 DEF HandleServicesCommand
    <3>2. ~ (Len(meant.ps) \in entry.min..entry.max)
      BY <2>1, <2>2, <2>5, <2>9 DEF TooFew, TooMany
    <3> QED BY <2>6, <2>7, <3>1, <3>2
  <2>10. CASE ~ (TooFew(p) \/ TooMany(p))
    <3>1. Len(meant.ps) \in entry.min..entry.max
      BY <2>1, <2>2, <2>5, <2>10 DEF TooFew, TooMany
    <3>2. m.arg # "none" => p.v[1] = meant.ps[1]
      BY <2>1, <2>5, <3>1
    <3>3. u.access \in Nat /\ (~ (Level(u) < entry.access) <=> (u.access = Sudo \/ entry.access <= u.level))
      BY <2>5, LevelsAgree
    <3>4. CASE m.arg = "chan"
      <4>1. ChannelCommand(p, u)
        BY <1>2, <2>1, <2>10, <3>4 DEF HandleServicesCommand
      <4>2. Permitted(m, ws, u) <=> ~ (p.v[1] # <<"#c">> \/ ~row \/ Level(u) < entry.access)
        BY <2>6, <3>1, <3>2, <3>3, <3>4
      <4>3. CASE ~ Permitted(m, ws, u)
        BY <2>2, <2>7, <4>1, <4>2, <4>3 DEF ChannelCommand
      <4>4. CASE Permitted(m, ws, u)
        BY <2>2, <2>7, <4>1, <4>2, <4>4 DEF ChannelCommand
      <4> QED BY <4>3, <4>4
    <3>5. CASE m.arg = "group"
      <4>1. GroupCommand(p, u)
        BY <1>2, <2>1, <2>10, <3>5 DEF HandleServicesCommand
      <4>2. Permitted(m, ws, u) <=> ~ (p.v[1] # <<"#c">> \/ Level(u) < entry.access)
        BY <2>6, <3>1, <3>2, <3>3, <3>5
      <4> QED BY <2>2, <2>7, <4>1, <4>2 DEF GroupCommand
    <3>6. CASE m.arg = "none"
      <4>1. ran' = (IF u.access < entry.access THEN Refused ELSE Call(p)) /\ UNCHANGED crashed
        BY <1>2, <2>1, <2>2, <2>10, <3>6 DEF HandleServicesCommand
      <4>2. Permitted(m, ws, u) <=> ~ (u.access < entry.access)
        BY <2>5, <2>6, <3>1, <3>3, <3>6
      <4> QED BY <2>7, <4>1, <4>2
    <3> QED BY <2>8, <3>4, <3>5, <3>6
  <2> QED BY <2>9, <2>10
<1> QED BY <1>1, <1>2

\* The inductive invariant of Dispatch: what was asked is a request and was
\* answered, and a channel with a row has its record unless reading it failed.
Answered ==
  /\ LineReachesHandler /\ ChannelHasItsRow
  /\ exists \in BOOLEAN /\ row \in BOOLEAN /\ failed \in BOOLEAN /\ crashed \in BOOLEAN
  /\ live \subseteq 1..MaxObjects
  /\ ~exists => regchan = 0
  /\ exists /\ row /\ ~failed => regchan # 0

LEMMA AnsweredInit ==
  ASSUME Init
  PROVE  Answered
BY DEF Init, Answered, LineReachesHandler, ChannelHasItsRow, NotAsked

LEMMA NewIsFree ==
  ASSUME NEW n \in New
  PROVE  n \in 1..MaxObjects /\ n \notin live /\ n # 0
BY DispatchAssumption DEF New

LEMMA AnsweredNext ==
  ASSUME Answered, [Next]_vars
  PROVE  Answered'
<1> USE DEF Answered, ChannelHasItsRow
<1>1. ASSUME NEW m \in Commands, NEW ws \in Lines, NEW u \in Users, Privmsg(m, ws, u)
      PROVE  Answered'
  <2>1. /\ ~crashed /\ asked' = [m |-> m, ws |-> ws, u |-> u]
        /\ HandleServicesCommand(ProcessPrivmsg(m, ws), u)
        /\ UNCHANGED <<exists, regchan, row, live, failed>>
    BY <1>1 DEF Privmsg
  <2>2. /\ crashed' \/ ran' = Answer(m, ws, u)
        /\ crashed' => row /\ exists /\ regchan = 0
    BY <2>1, LineFits, LineIsAnswered
  <2>3. crashed' \in BOOLEAN
    <3>1. crashed' = crashed \/ crashed' = (exists /\ regchan = 0)
      BY <2>1 DEF HandleServicesCommand, ChannelCommand, GroupCommand
    <3> QED BY <3>1
  <2>4. Permitted(m, ws, u)' = Permitted(m, ws, u)
    BY <2>1 DEF Permitted
  <2>5. /\ asked'.m = m /\ asked'.ws = ws /\ asked'.u = u
    BY <2>1
  <2>6. LineReachesHandler'
    <3>1. ~crashed' => ran' = IF Permitted(m, ws, u)'
                              THEN LET meant == Meant(m, ws)
                                   IN  [handler |-> meant.handler, ps |-> Append(meant.ps, Null)]
                              ELSE Refused
      BY <2>2, <2>4 DEF Answer
    <3> QED BY <2>5, <3>1 DEF LineReachesHandler
  <2>7. ChannelHasItsRow'
    BY <2>1, <2>2
  <2> QED BY <2>1, <2>3, <2>6, <2>7
<1>2. CASE Return
  BY <1>2 DEF Return, LineReachesHandler
<1>3. ASSUME NEW ok \in BOOLEAN, MakeChannel(ok)
      PROVE  Answered'
  BY <1>3, NewIsFree DEF MakeChannel, Between, LineReachesHandler
<1>4. CASE DestroyChannel
  BY <1>4 DEF DestroyChannel, Between, LineReachesHandler
<1>5. CASE Register
  BY <1>5, NewIsFree DEF Register, Between, LineReachesHandler
<1>6. CASE Drop
  BY <1>6 DEF Drop, LineReachesHandler
<1>7. CASE UNCHANGED vars
  <2>1. LineReachesHandler'
    BY <1>7 DEF vars, LineReachesHandler, Permitted
  <2> QED BY <1>7, <2>1 DEF vars
<1> QED BY <1>1, <1>2, <1>3, <1>4, <1>5, <1>6, <1>7 DEF Next

LEMMA DispatchMoves ==
  ASSUME [MCNext]_<<part, vars, cvars, tvars, fvars>>
  PROVE  [Next]_vars
BY DEF MCNext

\* A line reaches the handler it names exactly if the user may have it, and with
\* its parameters, for arrays and lines of any length; the channel it is for has
\* the record of its row, unless make_channel could not read it.
\* (string_to_array, process_privmsg, handle_services_command)
THEOREM LinesAreHandled == MCSpec => []LinesReachHandlers
<1>1. MCInit => Answered
  BY AnsweredInit DEF MCInit
<1>2. Answered /\ [MCNext]_<<part, vars, cvars, tvars, fvars>> => Answered'
  BY AnsweredNext, DispatchMoves
<1>3. Answered => LinesReachHandlers
  BY DEF Answered, LinesReachHandlers
<1> QED BY <1>1, <1>2, <1>3, PTL DEF MCSpec

-----------------------------------------------------------------------------
(* The topic *)

\* What may be on the wire.
TopicMessages ==
  {<<"create">>, <<"gone">>, <<"eob">>} \cup ({"topic"} \X (Texts \cup {Dash, NoTopic}))

Places(w) == 1..Len(w)
Kind(w, i) == w[i][1]
\* The channel comes or goes.
Moves(w, i) == Kind(w, i) \in {"create", "gone"}

\* The last message that says whether the channel is there is right, and without
\* one services know already.
Knows(w, is, kn) ==
  /\ \A i \in Places(w) :
       Moves(w, i) /\ (\A j \in Places(w) : Moves(w, j) => j <= i) => (Kind(w, i) = "create" <=> is)
  /\ (\A i \in Places(w) : ~ Moves(w, i)) => (kn <=> is)

\* The end of a burst at e: before it are the channel and a topic that is not empty.
EndsAt(w, e) ==
  /\ e \in Places(w) /\ Kind(w, e) = "eob"
  /\ \A j \in Places(w) :
       /\ Kind(w, j) = "eob" => j = e
       /\ j < e /\ Moves(w, j) => j = 1 /\ Kind(w, j) = "create"
       /\ j < e /\ Kind(w, j) = "topic" => w[j][2] # NoTopic
Bursts(w, b) ==
  /\ ~b => \A i \in Places(w) : Kind(w, i) # "eob"
  /\ b => \E e \in Places(w) : EndsAt(w, e)

\* No channel is introduced after the burst: services know it, or will from the burst.
Settled(w) == \A i \in Places(w) : Moves(w, i) => \E j \in Places(w) : i < j /\ Kind(w, j) = "eob"

\* The last topic under way.
LastIs(w, t) ==
  \E i \in Places(w) : /\ w[i] = <<"topic", t>>
                       /\ \A j \in Places(w) : i < j => Kind(w, j) # "topic"

\* The topic n of the network and what services will make of the messages w.
Agreed(w, n, r, v, b) ==
  IF T!UnderWay(w) THEN LastIs(w, n) \/ (r.lock /\ n = r.topic)
  ELSE IF ~b THEN n = r.topic
  ELSE IF \E i \in Places(w) : Moves(w, i) THEN n = NoTopic
  ELSE IF r.lock THEN n \in {v, r.topic}
  ELSE n = IF v = NoTopic THEN NoTopic ELSE r.topic

TopicTyped ==
  /\ wire \in Seq(TopicMessages)
  /\ topic \in Texts \cup {Dash, NoTopic} /\ seen \in Texts \cup {Dash, NoTopic}
  /\ setting = T!NoRow \/ setting \in [topic : Texts \cup {NoTopic}, lock : BOOLEAN]
  /\ there \in BOOLEAN /\ known \in BOOLEAN /\ burst \in BOOLEAN /\ apart \in BOOLEAN

\* The inductive invariant of Topics.
TopicInv ==
  /\ TopicTyped /\ T!CacheIsRow
  /\ Knows(wire, there, known) /\ Bursts(wire, burst)
  /\ there /\ setting # T!NoRow /\ ~apart /\ Settled(wire) => Agreed(wire, topic, setting, seen, burst)

\* Once nothing is under way the topics are the same.
LEMMA AgreedAtLast ==
  ASSUME TopicInv
  PROVE  T!CacheIsRow /\ T!TopicAgrees
<1>1. ASSUME wire = <<>>, there, setting # T!NoRow, ~apart
      PROVE  topic = setting.topic
  <2>1. Places(wire) = {}
    BY <1>1 DEF Places
  <2>2. ~burst /\ Settled(wire)
    BY <2>1 DEF TopicInv, TopicTyped, Bursts, Settled
  <2>3. ~ T!UnderWay(wire)
    BY <2>1 DEF T!UnderWay, Places
  <2> QED BY <1>1, <2>2, <2>3 DEF TopicInv, Agreed
<1> QED BY <1>1 DEF TopicInv, T!TopicAgrees

\* A sequence without its head, by places.
LEMMA TailPlaces ==
  ASSUME NEW w \in Seq(TopicMessages), w # <<>>
  PROVE  /\ Tail(w) \in Seq(TopicMessages) /\ 1 \in Places(w) /\ Head(w) = w[1] /\ Head(w) \in TopicMessages
         /\ \A i \in Places(Tail(w)) : i + 1 \in Places(w) /\ Tail(w)[i] = w[i + 1] /\ i \in Nat
         /\ \A i \in Places(w) : i \in Nat \ {0} /\ (i = 1 \/ i - 1 \in Places(Tail(w)))
<1>1. Len(w) \in Nat \ {0} /\ Len(Tail(w)) = Len(w) - 1
  BY EmptySeq
<1>2. \A i \in 1..Len(Tail(w)) : Tail(w)[i] = w[i + 1]
  OBVIOUS
<1>3. Head(w) = w[1] /\ w[1] \in TopicMessages /\ Tail(w) \in Seq(TopicMessages)
  BY <1>1
<1> QED BY <1>1, <1>2, <1>3 DEF Places

\* One more message, by places.
LEMMA AppendPlaces ==
  ASSUME NEW w \in Seq(TopicMessages), NEW m \in TopicMessages
  PROVE  LET v == Append(w, m)
         IN  /\ v \in Seq(TopicMessages)
             /\ Len(w) \in Nat /\ Len(w) + 1 \in Places(v) /\ v[Len(w) + 1] = m
             /\ \A i \in Places(w) : i \in Places(v) /\ v[i] = w[i] /\ i \in Nat /\ i < Len(w) + 1
             /\ \A i \in Places(v) : i = Len(w) + 1 \/ i \in Places(w)
<1>1. /\ Append(w, m) \in Seq(TopicMessages) /\ Len(Append(w, m)) = Len(w) + 1 /\ Len(w) \in Nat
      /\ \A i \in 1..Len(w) : Append(w, m)[i] = w[i]
      /\ Append(w, m)[Len(w) + 1] = m
  OBVIOUS
<1> QED BY <1>1 DEF Places

\* The kinds of messages differ.
LEMMA KindsDiffer ==
  ASSUME NEW m \in TopicMessages
  PROVE  /\ m[1] \in {"create", "gone", "eob", "topic"}
         /\ m[1] = "topic" => m = <<"topic", m[2]>> /\ m[2] \in Texts \cup {Dash, NoTopic}
BY DEF TopicMessages

\* What is under way without the head.
LEMMA TakenUnderWay ==
  ASSUME NEW w \in Seq(TopicMessages), w # <<>>
  PROVE  /\ T!UnderWay(w) <=> (Head(w)[1] = "topic" \/ T!UnderWay(Tail(w)))
         /\ \A t : LastIs(w, t) => LastIs(Tail(w), t)
                                   \/ (Head(w) = <<"topic", t>> /\ ~ T!UnderWay(Tail(w)))
<1> DEFINE v == Tail(w)
<1>1. /\ v \in Seq(TopicMessages) /\ 1 \in Places(w) /\ Head(w) = w[1]
      /\ \A i \in Places(v) : i + 1 \in Places(w) /\ v[i] = w[i + 1] /\ i \in Nat
      /\ \A i \in Places(w) : i \in Nat \ {0} /\ (i = 1 \/ i - 1 \in Places(v))
  BY TailPlaces
<1> HIDE DEF v
<1>2. T!UnderWay(w) <=> \E i \in Places(w) : w[i][1] = "topic"
  BY DEF T!UnderWay, Places
<1>3. T!UnderWay(v) <=> \E i \in Places(v) : v[i][1] = "topic"
  BY DEF T!UnderWay, Places
<1>4. ASSUME NEW i \in Places(w)
      PROVE  i = 1 \/ (i - 1 \in Places(v) /\ v[i - 1] = w[i])
  BY <1>1
<1>5. T!UnderWay(w) <=> (Head(w)[1] = "topic" \/ T!UnderWay(v))
  BY <1>1, <1>2, <1>3, <1>4
<1>6. ASSUME NEW t, LastIs(w, t)
      PROVE  LastIs(v, t) \/ (Head(w) = <<"topic", t>> /\ ~ T!UnderWay(v))
  <2>1. PICK i \in Places(w) : w[i] = <<"topic", t>> /\ \A j \in Places(w) : i < j => Kind(w, j) # "topic"
    BY <1>6 DEF LastIs
  <2>2. CASE i = 1
    <3>1. ASSUME NEW j \in Places(v) PROVE v[j][1] # "topic"
      <4>1. j + 1 \in Places(w) /\ 1 < j + 1 /\ v[j] = w[j + 1]
        BY <1>1 DEF Places
      <4> QED BY <2>1, <2>2, <4>1 DEF Kind
    <3> QED BY <1>1, <1>3, <2>1, <2>2, <3>1
  <2>3. CASE i # 1
    <3>1. i - 1 \in Places(v) /\ v[i - 1] = <<"topic", t>>
      BY <1>4, <2>1, <2>3
    <3>2. ASSUME NEW j \in Places(v), i - 1 < j PROVE Kind(v, j) # "topic"
      <4>1. j + 1 \in Places(w) /\ i < j + 1 /\ v[j] = w[j + 1]
        BY <1>1, <3>2
      <4> QED BY <2>1, <4>1 DEF Kind
    <3> QED BY <3>1, <3>2 DEF LastIs
  <2> QED BY <2>2, <2>3
<1> QED BY <1>5, <1>6 DEF v

LEMMA TakenKnows ==
  ASSUME NEW w \in Seq(TopicMessages), w # <<>>, NEW is \in BOOLEAN, NEW kn \in BOOLEAN,
         NEW new \in BOOLEAN, Knows(w, is, kn),
         Head(w)[1] = "create" => new, Head(w)[1] = "gone" => ~new,
         Head(w)[1] \notin {"create", "gone"} => (new <=> kn)
  PROVE  Knows(Tail(w), is, new)
<1> DEFINE v == Tail(w)
<1>1. /\ v \in Seq(TopicMessages) /\ 1 \in Places(w) /\ Head(w) = w[1]
      /\ \A i \in Places(v) : i + 1 \in Places(w) /\ v[i] = w[i + 1] /\ i \in Nat
      /\ \A i \in Places(w) : i \in Nat \ {0} /\ (i = 1 \/ i - 1 \in Places(v))
  BY TailPlaces
<1> HIDE DEF v
<1>2. ASSUME NEW i \in Places(v)
      PROVE  i + 1 \in Places(w) /\ Kind(v, i) = Kind(w, i + 1) /\ (Moves(v, i) <=> Moves(w, i + 1))
  BY <1>1 DEF Kind, Moves
<1>3. ASSUME NEW i \in Places(v), Moves(v, i), \A j \in Places(v) : Moves(v, j) => j <= i
      PROVE  Kind(v, i) = "create" <=> is
  <2>1. ASSUME NEW j \in Places(w), Moves(w, j) PROVE j <= i + 1
    <3>1. CASE j = 1
      <4>1. i \in Nat
        BY <1>1
      <4> QED BY <3>1, <4>1
    <3>2. CASE j # 1
      <4>1. j - 1 \in Places(v) /\ j \in Nat
        BY <1>1, <3>2
      <4>2. (j - 1) + 1 = j
        BY <4>1
      <4>3. Moves(v, j - 1)
        BY <1>2, <2>1, <4>1, <4>2
      <4>4. j - 1 <= i /\ i \in Nat
        BY <1>1, <1>3, <4>1, <4>3
      <4> QED BY <4>1, <4>4
    <3> QED BY <3>1, <3>2
  <2> QED BY <1>2, <1>3, <2>1 DEF Knows
<1>4. ASSUME \A i \in Places(v) : ~ Moves(v, i)
      PROVE  new <=> is
  <2>1. ASSUME NEW j \in Places(w), Moves(w, j) PROVE j = 1
    <3>1. SUFFICES ASSUME j # 1 PROVE FALSE
      OBVIOUS
    <3>2. j - 1 \in Places(v) /\ (j - 1) + 1 = j
      BY <1>1, <3>1
    <3> QED BY <1>2, <1>4, <2>1, <3>2
  <2>2. CASE Moves(w, 1)
    <3>1. Kind(w, 1) = "create" <=> is
      BY <1>1, <2>1, <2>2 DEF Knows
    <3>2. Kind(w, 1) = Head(w)[1] /\ Kind(w, 1) \in {"create", "gone"}
      BY <1>1, <2>2 DEF Moves, Kind
    <3> QED BY <3>1, <3>2
  <2>3. CASE ~ Moves(w, 1)
    <3>1. kn <=> is
      BY <2>1, <2>3 DEF Knows
    <3>2. Head(w)[1] \notin {"create", "gone"}
      BY <1>1, <2>3 DEF Moves, Kind
    <3> QED BY <3>1, <3>2
  <2> QED BY <2>2, <2>3
<1>5. Knows(v, is, new)
  BY <1>3, <1>4 DEF Knows
<1> QED BY <1>5 DEF v

LEMMA TakenBursts ==
  ASSUME NEW w \in Seq(TopicMessages), w # <<>>, NEW b \in BOOLEAN, NEW new \in BOOLEAN,
         Bursts(w, b), new <=> (b /\ Head(w)[1] # "eob")
  PROVE  Bursts(Tail(w), new)
<1> DEFINE v == Tail(w)
<1>1. /\ v \in Seq(TopicMessages) /\ 1 \in Places(w) /\ Head(w) = w[1]
      /\ \A i \in Places(v) : i + 1 \in Places(w) /\ v[i] = w[i + 1] /\ i \in Nat
      /\ \A i \in Places(w) : i \in Nat \ {0} /\ (i = 1 \/ i - 1 \in Places(v))
  BY TailPlaces
<1> HIDE DEF v
<1>2. ASSUME NEW i \in Places(v)
      PROVE  /\ i + 1 \in Places(w) /\ Kind(v, i) = Kind(w, i + 1) /\ (Moves(v, i) <=> Moves(w, i + 1))
             /\ v[i] = w[i + 1] /\ i \in Nat
  BY <1>1 DEF Kind, Moves
<1>3. CASE ~b
  <2>1. \A i \in Places(w) : Kind(w, i) # "eob"
    BY <1>3 DEF Bursts
  <2>2. \A i \in Places(v) : Kind(v, i) # "eob"
    BY <1>2, <2>1
  <2>3. new = FALSE
    BY <1>3
  <2> QED BY <2>2, <2>3 DEF Bursts, v
<1>4. CASE b
  <2>1. PICK e \in Places(w) : EndsAt(w, e)
    BY <1>4 DEF Bursts
  <2>2. CASE e = 1
    <3>1. ASSUME NEW i \in Places(v) PROVE Kind(v, i) # "eob"
      <4>1. i + 1 # 1
        BY DEF Places
      <4>2. i + 1 \in Places(w) /\ Kind(v, i) = Kind(w, i + 1)
        BY <1>2
      <4> QED BY <2>1, <2>2, <4>1, <4>2 DEF EndsAt
    <3>2. Head(w)[1] = "eob"
      BY <1>1, <2>1, <2>2 DEF EndsAt, Kind
    <3>3. new = FALSE
      BY <3>2
    <3> QED BY <3>1, <3>3 DEF Bursts, v
  <2>3. CASE e # 1
    <3>1. e - 1 \in Places(v) /\ (e - 1) + 1 = e /\ e \in Nat
      BY <1>1, <2>3
    <3>2. Head(w)[1] # "eob"
      BY <1>1, <2>1, <2>3 DEF EndsAt, Kind
    <3>3. Kind(v, e - 1) = "eob"
      BY <1>2, <2>1, <3>1 DEF EndsAt
    <3>4. ASSUME NEW j \in Places(v)
          PROVE  /\ Kind(v, j) = "eob" => j = e - 1
                 /\ j < e - 1 /\ Moves(v, j) => j = 1 /\ Kind(v, j) = "create"
                 /\ j < e - 1 /\ Kind(v, j) = "topic" => v[j][2] # NoTopic
      <4>1. /\ j + 1 \in Places(w) /\ Kind(v, j) = Kind(w, j + 1) /\ (Moves(v, j) <=> Moves(w, j + 1))
            /\ v[j] = w[j + 1] /\ j \in Nat
        BY <1>2
      <4>2. /\ Kind(w, j + 1) = "eob" => j + 1 = e
            /\ j + 1 < e /\ Moves(w, j + 1) => j + 1 = 1 /\ Kind(w, j + 1) = "create"
            /\ j + 1 < e /\ Kind(w, j + 1) = "topic" => w[j + 1][2] # NoTopic
        BY <2>1, <4>1 DEF EndsAt
      <4>3. j # 0
        BY DEF Places
      <4> QED BY <3>1, <4>1, <4>2, <4>3
    <3>5. EndsAt(v, e - 1)
      BY <3>1, <3>3, <3>4 DEF EndsAt
    <3>6. new = TRUE
      BY <1>4, <3>2
    <3> QED BY <3>1, <3>5, <3>6 DEF Bursts, v
  <2> QED BY <2>2, <2>3
<1> QED BY <1>3, <1>4 DEF v

\* A channel that services know or will know from the burst is the burst's.
LEMMA SettledMoves ==
  ASSUME NEW w \in Seq(TopicMessages), NEW b \in BOOLEAN, Bursts(w, b), Settled(w),
         NEW i \in Places(w), Moves(w, i)
  PROVE  b /\ i = 1 /\ Kind(w, i) = "create"
<1>1. PICK j \in Places(w) : i < j /\ Kind(w, j) = "eob"
  BY DEF Settled
<1>2. b
  BY <1>1 DEF Bursts
<1>3. PICK e \in Places(w) : EndsAt(w, e)
  BY <1>2 DEF Bursts
<1>4. j = e
  BY <1>1, <1>3 DEF EndsAt
<1> QED BY <1>1, <1>2, <1>3, <1>4 DEF EndsAt

LEMMA TakenSettled ==
  ASSUME NEW w \in Seq(TopicMessages), w # <<>>, NEW b \in BOOLEAN, Bursts(w, b), Settled(Tail(w))
  PROVE  Settled(w) \/ (~b /\ Moves(w, 1))
<1> DEFINE v == Tail(w)
<1>1. /\ v \in Seq(TopicMessages) /\ 1 \in Places(w) /\ Head(w) = w[1]
      /\ \A i \in Places(v) : i + 1 \in Places(w) /\ v[i] = w[i + 1] /\ i \in Nat
      /\ \A i \in Places(w) : i \in Nat \ {0} /\ (i = 1 \/ i - 1 \in Places(v))
  BY TailPlaces
<1>2. Settled(v)
  OBVIOUS
<1> HIDE DEF v
<1>3. ASSUME NEW i \in Places(w), i # 1, Moves(w, i)
      PROVE  \E j \in Places(w) : i < j /\ Kind(w, j) = "eob"
  <2>1. i - 1 \in Places(v) /\ v[i - 1] = w[i] /\ i \in Nat
    BY <1>1, <1>3
  <2>2. Moves(v, i - 1)
    BY <1>3, <2>1 DEF Moves, Kind
  <2>3. PICK j \in Places(v) : i - 1 < j /\ Kind(v, j) = "eob"
    BY <1>2, <2>1, <2>2 DEF Settled
  <2>4. j + 1 \in Places(w) /\ i < j + 1 /\ Kind(w, j + 1) = "eob"
    BY <1>1, <2>1, <2>3 DEF Kind
  <2> QED BY <2>4
<1>4. ASSUME b, Moves(w, 1)
      PROVE  \E j \in Places(w) : 1 < j /\ Kind(w, j) = "eob"
  <2>1. PICK e \in Places(w) : EndsAt(w, e)
    BY <1>4 DEF Bursts
  <2>2. Kind(w, e) = "eob" /\ Kind(w, 1) # "eob"
    BY <1>4, <2>1 DEF EndsAt, Moves
  <2>3. e # 1 /\ e \in Nat \ {0}
    BY <1>1, <2>2
  <2> QED BY <2>2, <2>3
<1>5. CASE Moves(w, 1) /\ ~b
  BY <1>5
<1>6. CASE Moves(w, 1) /\ b
  <2>1. ASSUME NEW i \in Places(w), Moves(w, i)
        PROVE  \E j \in Places(w) : i < j /\ Kind(w, j) = "eob"
    BY <1>3, <1>4, <1>6, <2>1
  <2> QED BY <2>1 DEF Settled
<1>7. CASE ~ Moves(w, 1)
  BY <1>3, <1>7 DEF Settled
<1> QED BY <1>5, <1>6, <1>7

\* What a message of users' adds.
LEMMA SentTopics ==
  ASSUME NEW w \in Seq(TopicMessages), NEW m \in TopicMessages, NEW b \in BOOLEAN, Bursts(w, b), m[1] # "eob"
  PROVE  LET v == Append(w, m)
         IN  /\ Bursts(v, b)
             /\ m[1] = "topic" => T!UnderWay(v) /\ LastIs(v, m[2])
             /\ m[1] \in {"create", "gone"} => ~ Settled(v)
             /\ m[1] = "topic" /\ Settled(v) => Settled(w)
<1> DEFINE v == Append(w, m)
           n == Len(w) + 1
<1>1. /\ v \in Seq(TopicMessages)
      /\ n \in Nat /\ n \in Places(v) /\ v[n] = m
      /\ \A i \in Places(w) : i \in Places(v) /\ v[i] = w[i] /\ i \in Nat /\ i < n
      /\ \A i \in Places(v) : i = n \/ i \in Places(w)
  BY AppendPlaces
<1> HIDE DEF v, n
<1>2. Kind(v, n) # "eob"
  BY <1>1 DEF Kind
<1>3. Bursts(v, b)
  <2>1. CASE ~b
    <3>1. \A i \in Places(v) : Kind(v, i) # "eob"
      BY <1>1, <1>2, <2>1 DEF Bursts, Kind
    <3> QED BY <2>1, <3>1 DEF Bursts
  <2>2. CASE b
    <3>1. PICK e \in Places(w) : EndsAt(w, e)
      BY <2>2 DEF Bursts
    <3>2. e \in Places(v) /\ Kind(v, e) = "eob" /\ e < n
      BY <1>1, <3>1 DEF EndsAt, Kind
    <3>3. ASSUME NEW j \in Places(v)
          PROVE  /\ Kind(v, j) = "eob" => j = e
                 /\ j < e /\ Moves(v, j) => j = 1 /\ Kind(v, j) = "create"
                 /\ j < e /\ Kind(v, j) = "topic" => v[j][2] # NoTopic
      <4>1. CASE j = n
        <5>1. e \in Nat
          BY <1>1, <3>1 DEF EndsAt
        <5>2. ~ (n < e)
          BY <1>1, <3>2, <5>1
        <5>3. ~ (j < e) /\ Kind(v, j) # "eob"
          BY <1>2, <4>1, <5>2
        <5> QED BY <5>3
      <4>2. CASE j \in Places(w)
        BY <1>1, <3>1, <4>2 DEF EndsAt, Kind, Moves
      <4> QED BY <1>1, <4>1, <4>2
    <3>4. EndsAt(v, e)
      BY <3>2, <3>3 DEF EndsAt
    <3> QED BY <2>2, <3>2, <3>4 DEF Bursts
  <2> QED BY <2>1, <2>2
<1>4. ASSUME m[1] = "topic"
      PROVE  T!UnderWay(v) /\ LastIs(v, m[2])
  <2>1. m = <<"topic", m[2]>>
    BY <1>4, KindsDiffer
  <2>2. \A j \in Places(v) : ~ (n < j)
    BY <1>1
  <2>3. LastIs(v, m[2])
    BY <1>1, <2>1, <2>2 DEF LastIs
  <2>4. n \in 1..Len(v) /\ v[n][1] = "topic"
    BY <1>1, <1>4 DEF Places
  <2> QED BY <2>3, <2>4 DEF T!UnderWay
<1>5. ASSUME m[1] \in {"create", "gone"}, Settled(v)
      PROVE  FALSE
  <2>1. Moves(v, n)
    BY <1>1, <1>5 DEF Moves, Kind
  <2>2. PICK j \in Places(v) : n < j
    BY <1>1, <1>5, <2>1 DEF Settled
  <2>3. CASE j = n
    BY <1>1, <2>2, <2>3
  <2>4. CASE j \in Places(w)
    <3>1. j \in Nat /\ j < n
      BY <1>1, <2>4
    <3> QED BY <1>1, <2>2, <3>1
  <2> QED BY <1>1, <2>3, <2>4
<1>6. ASSUME m[1] = "topic", Settled(v)
      PROVE  Settled(w)
  <2>1. ASSUME NEW i \in Places(w), Moves(w, i)
        PROVE  \E j \in Places(w) : i < j /\ Kind(w, j) = "eob"
    <3>1. i \in Places(v) /\ Moves(v, i)
      BY <1>1, <2>1 DEF Moves, Kind
    <3>2. PICK j \in Places(v) : i < j /\ Kind(v, j) = "eob"
      BY <1>6, <3>1 DEF Settled
    <3>3. j \in Places(w) /\ Kind(w, j) = "eob"
      BY <1>1, <1>2, <3>2 DEF Kind
    <3> QED BY <3>2, <3>3
  <2> QED BY <2>1 DEF Settled
<1> QED BY <1>3, <1>4, <1>5, <1>6 DEF v

LEMMA SentKnows ==
  ASSUME NEW w \in Seq(TopicMessages), NEW m \in TopicMessages, NEW is \in BOOLEAN, NEW kn \in BOOLEAN,
         NEW new \in BOOLEAN, Knows(w, is, kn),
         m[1] = "create" => new, m[1] = "gone" => ~new,
         m[1] \notin {"create", "gone"} => (new <=> is)
  PROVE  Knows(Append(w, m), new, kn)
<1> DEFINE v == Append(w, m)
           n == Len(w) + 1
<1>1. /\ v \in Seq(TopicMessages)
      /\ n \in Nat /\ n \in Places(v) /\ v[n] = m
      /\ \A i \in Places(w) : i \in Places(v) /\ v[i] = w[i] /\ i \in Nat /\ i < n
      /\ \A i \in Places(v) : i = n \/ i \in Places(w)
  BY AppendPlaces
<1> HIDE DEF v, n
<1>2. \A i \in Places(w) : Kind(v, i) = Kind(w, i) /\ (Moves(v, i) <=> Moves(w, i))
  BY <1>1 DEF Kind, Moves
<1>3. Kind(v, n) = m[1]
  BY <1>1 DEF Kind
<1>4. CASE m[1] \in {"create", "gone"}
  <2>1. Moves(v, n)
    BY <1>3, <1>4 DEF Moves
  <2>2. ASSUME NEW i \in Places(v), Moves(v, i), \A j \in Places(v) : Moves(v, j) => j <= i
        PROVE  Kind(v, i) = "create" <=> new
    <3>1. i = n
      <4>1. n <= i
        BY <1>1, <2>1, <2>2
      <4>2. CASE i \in Places(w)
        <5>1. i \in Nat /\ i < n
          BY <1>1, <4>2
        <5> QED BY <1>1, <4>1, <5>1
      <4> QED BY <1>1, <4>2
    <3> QED BY <1>3, <1>4, <3>1
  <2> QED BY <1>1, <2>1, <2>2 DEF Knows, v
<1>5. CASE m[1] \notin {"create", "gone"}
  <2>1. ~ Moves(v, n)
    BY <1>3, <1>5 DEF Moves
  <2>2. ASSUME NEW i \in Places(v), Moves(v, i), \A j \in Places(v) : Moves(v, j) => j <= i
        PROVE  Kind(v, i) = "create" <=> new
    <3>1. i \in Places(w)
      BY <1>1, <2>1, <2>2
    <3>2. \A j \in Places(w) : Moves(w, j) => j <= i
      BY <1>1, <1>2, <2>2
    <3> QED BY <1>2, <1>5, <2>2, <3>1, <3>2 DEF Knows
  <2>3. ASSUME \A i \in Places(v) : ~ Moves(v, i)
        PROVE  kn <=> new
    <3>1. \A i \in Places(w) : ~ Moves(w, i)
      BY <1>1, <1>2, <2>3
    <3> QED BY <1>5, <3>1 DEF Knows
  <2> QED BY <2>2, <2>3 DEF Knows, v
<1> QED BY <1>4, <1>5
\* A burst whose next message is not the channel has the channel no more.
LEMMA NoMoves ==
  ASSUME NEW w \in Seq(TopicMessages), w # <<>>, NEW b \in BOOLEAN, Bursts(w, b), Settled(w),
         Head(w)[1] \notin {"create", "gone"}
  PROVE  (\A i \in Places(w) : ~ Moves(w, i)) /\ (\A i \in Places(Tail(w)) : ~ Moves(Tail(w), i))
<1>1. /\ 1 \in Places(w) /\ Head(w) = w[1]
      /\ \A i \in Places(Tail(w)) : i + 1 \in Places(w) /\ Tail(w)[i] = w[i + 1] /\ i \in Nat
  BY TailPlaces
<1>2. ASSUME NEW i \in Places(w), Moves(w, i)
      PROVE  FALSE
  <2>1. Kind(w, 1) = "create"
    BY <1>2, SettledMoves
  <2> QED BY <1>1, <2>1 DEF Kind
<1>3. ASSUME NEW i \in Places(Tail(w)), Moves(Tail(w), i)
      PROVE  FALSE
  <2>1. i + 1 \in Places(w) /\ Moves(w, i + 1)
    BY <1>1, <1>3 DEF Moves, Kind
  <2> QED BY <1>2, <2>1
<1> QED BY <1>2, <1>3

\* After a burst and with nothing about the channel under way, services know it
\* if it is there.
LEMMA KnownAfterBurst ==
  ASSUME NEW w \in Seq(TopicMessages), Bursts(w, FALSE), Settled(w),
         NEW is \in BOOLEAN, NEW kn \in BOOLEAN, Knows(w, is, kn)
  PROVE  (\A i \in Places(w) : ~ Moves(w, i)) /\ is = kn
<1>1. \A i \in Places(w) : ~ Moves(w, i)
  BY SettledMoves
<1> QED BY <1>1 DEF Knows

\* The last topic is a topic.
LEMMA LastUnderWay ==
  ASSUME NEW w, NEW t, LastIs(w, t)
  PROVE  T!UnderWay(w)
BY DEF LastIs, T!UnderWay, Places

\* What a topic that services send leaves.
LEMMA SentAgrees ==
  ASSUME NEW w, NEW r, NEW v, NEW b, T!UnderWay(w) => r.lock,
         ~b \/ (r.lock /\ \A i \in Places(w) : ~ Moves(w, i))
  PROVE  Agreed(w, r.topic, r, v, b)
BY DEF Agreed

\* The conjuncts about the wire.
WireInv == wire \in Seq(TopicMessages) /\ Knows(wire, there, known) /\ Bursts(wire, burst)

LEMMA UsersSend ==
  ASSUME TopicInv, NEW m \in TopicMessages, wire' = Append(wire, m), m[1] # "eob",
         there' \in BOOLEAN, UNCHANGED <<known, burst>>,
         m[1] = "create" => there', m[1] = "gone" => ~there',
         m[1] = "topic" => there' = there
  PROVE  WireInv'
<1>1. wire \in Seq(TopicMessages) /\ there \in BOOLEAN /\ known \in BOOLEAN /\ burst \in BOOLEAN
      /\ Knows(wire, there, known) /\ Bursts(wire, burst)
  BY DEF TopicInv, TopicTyped
<1>2. m[1] \in {"create", "gone", "eob", "topic"}
  BY KindsDiffer
<1>3. wire' \in Seq(TopicMessages)
  BY <1>1
<1>4. Bursts(wire', burst')
  BY <1>1, SentTopics
<1>5. Knows(wire', there', known)
  BY <1>1, <1>2, SentKnows
<1> QED BY <1>3, <1>4, <1>5 DEF WireInv

LEMMA ServicesTake ==
  ASSUME TopicInv, wire # <<>>, wire' = Tail(wire), there' = there, known' \in BOOLEAN, burst' \in BOOLEAN,
         Head(wire)[1] = "create" => known', Head(wire)[1] = "gone" => ~known',
         Head(wire)[1] \notin {"create", "gone"} => known' = known,
         burst' <=> (burst /\ Head(wire)[1] # "eob")
  PROVE  WireInv'
<1>1. wire \in Seq(TopicMessages) /\ there \in BOOLEAN /\ known \in BOOLEAN /\ burst \in BOOLEAN
      /\ Knows(wire, there, known) /\ Bursts(wire, burst)
  BY DEF TopicInv, TopicTyped
<1>2. wire' \in Seq(TopicMessages)
  BY <1>1, TailPlaces
<1>3. Bursts(Tail(wire), burst')
  BY <1>1, TakenBursts
<1>4. Knows(Tail(wire), there, known')
  BY <1>1, TakenKnows
<1> QED BY <1>2, <1>3, <1>4 DEF WireInv

LEMMA CreateKeeps ==
  ASSUME TopicInv, T!Create
  PROVE  TopicInv'
<1>1. /\ there' = TRUE /\ wire' = Append(wire, <<"create">>)
      /\ UNCHANGED <<topic, known, seen, setting, copy, burst, apart>>
  BY DEF T!Create, T!Send
<1>2. <<"create">> \in TopicMessages
  BY DEF TopicMessages
<1>3. WireInv'
  BY <1>1, <1>2, UsersSend
<1>4. ~ Settled(wire')
  BY <1>1, <1>2, SentTopics DEF TopicInv, TopicTyped
<1> QED BY <1>1, <1>3, <1>4 DEF TopicInv, TopicTyped, WireInv, T!CacheIsRow

LEMMA LeaveKeeps ==
  ASSUME TopicInv, T!Leave
  PROVE  TopicInv'
<1>1. /\ there' = FALSE /\ topic' = NoTopic /\ wire' = Append(wire, <<"gone">>)
      /\ UNCHANGED <<known, seen, setting, copy, burst, apart>>
  BY DEF T!Leave, T!Send
<1>2. <<"gone">> \in TopicMessages
  BY DEF TopicMessages
<1>3. WireInv'
  BY <1>1, <1>2, UsersSend
<1> QED BY <1>1, <1>3 DEF TopicInv, TopicTyped, WireInv, T!CacheIsRow

LEMMA UserTopicKeeps ==
  ASSUME TopicInv, NEW t \in Texts \cup {Dash, NoTopic}, T!UserTopic(t)
  PROVE  TopicInv'
<1> DEFINE m == <<"topic", t>>
<1>1. /\ topic' = t /\ wire' = Append(wire, m)
      /\ UNCHANGED <<there, known, seen, setting, copy, burst, apart>>
  BY DEF T!UserTopic, T!Send
<1>2. m \in TopicMessages /\ m[1] = "topic" /\ m[2] = t
  BY DEF TopicMessages
<1> HIDE DEF m
<1>3. WireInv'
  BY <1>1, <1>2, UsersSend DEF TopicInv, TopicTyped
<1>4. T!UnderWay(wire') /\ LastIs(wire', t)
  BY <1>1, <1>2, SentTopics DEF TopicInv, TopicTyped
<1>5. Agreed(wire', topic', setting', seen', burst')
  BY <1>1, <1>4 DEF Agreed
<1> QED BY <1>1, <1>3, <1>5 DEF TopicInv, TopicTyped, WireInv, T!CacheIsRow
\* A burst of the channel, if any, its topic, if any, and its end.
LEMMA BurstIs ==
  ASSUME NEW w, NEW n \in Texts \cup {Dash, NoTopic}, NEW is \in BOOLEAN,
         w = (IF is THEN << <<"create">> >> ELSE <<>>)
             \o (IF n # NoTopic THEN << <<"topic", n>> >> ELSE <<>>) \o << <<"eob">> >>
  PROVE  /\ w \in Seq(TopicMessages) /\ Knows(w, is, FALSE) /\ Bursts(w, TRUE)
         /\ n # NoTopic => T!UnderWay(w) /\ LastIs(w, n)
         /\ n = NoTopic => ~ T!UnderWay(w)
         /\ is => \E i \in Places(w) : Moves(w, i)
<1> DEFINE c == <<"create">>
           o == <<"topic", n>>
           e == <<"eob">>
           x == IF is THEN <<c>> ELSE <<>>
           y == IF n # NoTopic THEN <<o>> ELSE <<>>
           z == <<e>>
           h == x \o y
           a == Len(x)
           b == Len(x) + Len(y)
<1>1. c \in TopicMessages /\ o \in TopicMessages /\ e \in TopicMessages
  BY DEF TopicMessages
<1>2. c[1] = "create" /\ o[1] = "topic" /\ o[2] = n /\ e[1] = "eob" /\ o = <<"topic", n>>
  OBVIOUS
<1> HIDE DEF c, o, e
<1>3. /\ x \in Seq(TopicMessages) /\ (is => Len(x) = 1 /\ x[1] = c) /\ (~is => Len(x) = 0)
      /\ y \in Seq(TopicMessages) /\ (n # NoTopic => Len(y) = 1 /\ y[1] = o) /\ (n = NoTopic => Len(y) = 0)
      /\ z \in Seq(TopicMessages) /\ Len(z) = 1 /\ z[1] = e
  BY <1>1
<1>4. w = h \o z
  BY DEF c, o, e
<1> HIDE DEF x, y, z
<1>5. /\ h \in Seq(TopicMessages) /\ Len(h) = b
      /\ \A i \in 1..b : h[i] = IF i <= a THEN x[i] ELSE y[i - a]
  BY <1>3, ConcatProperties
<1> HIDE DEF h
<1>6. /\ w \in Seq(TopicMessages) /\ Len(w) = b + 1
      /\ \A i \in 1..b + 1 : w[i] = IF i <= b THEN h[i] ELSE z[i - b]
  <2>1. z \in Seq(TopicMessages) /\ Len(z) = 1
    BY <1>3
  <2> HIDE DEF a, b
  <2>2. /\ h \o z \in Seq(TopicMessages) /\ Len(h \o z) = Len(h) + Len(z)
        /\ \A i \in 1..Len(h) + Len(z) : (h \o z)[i] = IF i <= Len(h) THEN h[i] ELSE z[i - Len(h)]
    BY <1>5, <2>1, ConcatProperties
  <2> QED BY <1>4, <1>5, <2>1, <2>2
<1>7. a \in 0..1 /\ b \in Nat /\ a <= b /\ b <= a + 1 /\ (is <=> a = 1) /\ (n # NoTopic <=> b = a + 1)
  <2>1. (is => a = 1) /\ (~is => a = 0)
    BY <1>3, Zenon
  <2>2. a \in Nat /\ Len(y) \in Nat /\ b = a + Len(y)
    BY <1>3
  <2>3. (n # NoTopic => Len(y) = 1) /\ (n = NoTopic => Len(y) = 0)
    BY <1>3, Zenon
  <2> HIDE DEF a, b
  <2> QED BY <2>1, <2>2, <2>3, SMTT(20)
<1>8. Places(w) = 1..b + 1 /\ b + 1 \in Places(w) /\ \A i \in Places(w) : i \in Nat /\ i >= 1 /\ i <= b + 1
  BY <1>3, <1>5, <1>6, <1>7 DEF Places
<1> HIDE DEF a, b
<1>9. ASSUME NEW i \in 1..b + 1
      PROVE  w[i] = IF i <= a THEN c ELSE IF i <= b THEN o ELSE e
  <2>1. CASE i <= a
    <3>1. i = 1 /\ a = 1 /\ i <= b /\ i \in 1..b
      BY <1>7, <2>1
    <3>2. w[i] = h[i] /\ h[i] = x[i]
      BY <1>5, <1>6, <2>1, <3>1
    <3>3. x[1] = c
      BY <1>3, <1>7, <3>1
    <3> QED BY <2>1, <3>1, <3>2, <3>3
  <2>2. CASE ~ (i <= a) /\ i <= b
    <3>1. i - a = 1 /\ b = a + 1 /\ i \in 1..b
      BY <1>7, <2>2
    <3>2. w[i] = h[i] /\ h[i] = y[1]
      BY <1>5, <1>6, <2>2, <3>1
    <3>3. y[1] = o
      BY <1>3, <1>7, <3>1
    <3> QED BY <2>2, <3>2, <3>3
  <2>3. CASE ~ (i <= b)
    <3>1. i - b = 1 /\ ~ (i <= a)
      BY <1>7, <2>3
    <3> QED BY <1>3, <1>6, <2>3, <3>1
  <2> QED BY <2>1, <2>2, <2>3
<1>10. ASSUME NEW i \in Places(w)
       PROVE  /\ i \in Nat /\ i >= 1
              /\ i <= a => Kind(w, i) = "create" /\ is /\ i = 1
              /\ ~ (i <= a) /\ i <= b => Kind(w, i) = "topic" /\ w[i] = <<"topic", n>> /\ n # NoTopic /\ i = b
              /\ ~ (i <= b) => Kind(w, i) = "eob" /\ i = b + 1
  <2>1. i \in 1..b + 1 /\ w[i] = IF i <= a THEN c ELSE IF i <= b THEN o ELSE e
    BY <1>8, <1>9
  <2>2. /\ i <= a => is /\ i = 1
        /\ ~ (i <= a) /\ i <= b => n # NoTopic /\ i = b
        /\ ~ (i <= b) => i = b + 1
    BY <1>7, <2>1
  <2>3. /\ i <= a => Kind(w, i) = "create"
        /\ ~ (i <= a) /\ i <= b => Kind(w, i) = "topic" /\ w[i] = <<"topic", n>>
        /\ ~ (i <= b) => Kind(w, i) = "eob"
    BY <1>2, <1>7, <2>1 DEF Kind
  <2> QED BY <1>8, <2>2, <2>3
<1>11. \A i \in Places(w) : Moves(w, i) <=> i <= a
  BY <1>7, <1>10 DEF Moves
<1>12. Knows(w, is, FALSE)
  <2>1. ASSUME \A i \in Places(w) : ~ Moves(w, i)
        PROVE  ~is
    <3>1. is => 1 \in Places(w) /\ 1 <= a
      BY <1>7, <1>8
    <3> QED BY <1>11, <2>1, <3>1
  <2> QED BY <1>10, <1>11, <2>1 DEF Knows
<1>13. EndsAt(w, b + 1)
  <2>1. Kind(w, b + 1) = "eob"
    <3>1. ~ (b + 1 <= b)
      BY <1>7
    <3> QED BY <1>8, <1>10, <3>1
  <2>2. ASSUME NEW j \in Places(w)
        PROVE  /\ Kind(w, j) = "eob" => j = b + 1
               /\ j < b + 1 /\ Moves(w, j) => j = 1 /\ Kind(w, j) = "create"
               /\ j < b + 1 /\ Kind(w, j) = "topic" => w[j][2] # NoTopic
    BY <1>7, <1>10, <1>11, SMTT(20)
  <2> QED BY <1>8, <2>1, <2>2 DEF EndsAt
<1>14. Bursts(w, TRUE)
  BY <1>8, <1>13 DEF Bursts
<1>15. ASSUME n # NoTopic
       PROVE  T!UnderWay(w) /\ LastIs(w, n)
  <2>1. b \in Places(w) /\ ~ (b <= a)
    BY <1>7, <1>8, <1>15
  <2>2. w[b] = <<"topic", n>>
    BY <1>7, <1>10, <2>1
  <2>3. ASSUME NEW j \in Places(w), b < j
        PROVE  Kind(w, j) # "topic"
    BY <1>7, <1>10, <2>3
  <2> QED BY <2>1, <2>2, <2>3, LastUnderWay DEF LastIs
<1>16. ASSUME n = NoTopic
       PROVE  ~ T!UnderWay(w)
  <2>1. \A i \in Places(w) : Kind(w, i) # "topic"
    BY <1>10, <1>16
  <2> QED BY <2>1 DEF T!UnderWay, Places, Kind
<1>17. ASSUME is
       PROVE  1 \in Places(w) /\ Moves(w, 1)
  <2>1. 1 \in 1..b + 1 /\ 1 <= a
    BY <1>7, <1>17
  <2> QED BY <1>8, <1>11, <2>1
<1> QED BY <1>6, <1>12, <1>14, <1>15, <1>16, <1>17

LEMMA RestartKeeps ==
  ASSUME TopicInv, T!Restart
  PROVE  TopicInv'
<1>1. /\ known' = FALSE /\ seen' = NoTopic /\ copy' = T!NoRow /\ burst' = TRUE
      /\ wire' = (IF there THEN << <<"create">> >> ELSE <<>>)
                 \o (IF topic # NoTopic THEN << <<"topic", topic>> >> ELSE <<>>) \o << <<"eob">> >>
      /\ UNCHANGED <<there, topic, setting, apart>>
  BY DEF T!Restart
<1>2. topic \in Texts \cup {Dash, NoTopic} /\ there \in BOOLEAN
  BY DEF TopicInv, TopicTyped
<1>3. /\ wire' \in Seq(TopicMessages) /\ Knows(wire', there, FALSE) /\ Bursts(wire', TRUE)
      /\ topic # NoTopic => T!UnderWay(wire') /\ LastIs(wire', topic)
      /\ topic = NoTopic => ~ T!UnderWay(wire')
      /\ there => \E i \in Places(wire') : Moves(wire', i)
  BY <1>1, <1>2, BurstIs
<1>4. there => Agreed(wire', topic', setting', seen', TRUE)
  BY <1>1, <1>3 DEF Agreed
<1>5. TopicTyped'
  BY <1>1, <1>3 DEF TopicInv, TopicTyped
<1> QED BY <1>1, <1>3, <1>4, <1>5 DEF TopicInv, T!CacheIsRow

LEMMA RecvCreateKeeps ==
  ASSUME TopicInv, T!RecvCreate
  PROVE  TopicInv'
<1>1. /\ wire # <<>> /\ Head(wire)[1] = "create" /\ wire' = Tail(wire)
      /\ known' = TRUE /\ seen' = NoTopic /\ copy' = setting
      /\ IF setting # T!NoRow /\ ~burst THEN T!SendTopic(setting.topic, setting.lock, wire')
                                        ELSE UNCHANGED <<topic, apart>>
      /\ UNCHANGED <<there, setting, burst>>
  BY DEF T!RecvCreate, T!Heads, T!Take
<1>2. TopicTyped /\ Bursts(wire, burst)
  BY DEF TopicInv
<1>3. WireInv'
  BY <1>1, <1>2, ServicesTake DEF TopicTyped
<1>4. topic' \in Texts \cup {Dash, NoTopic} /\ apart' \in BOOLEAN
  BY <1>1, <1>2 DEF T!SendTopic, TopicTyped
<1>5. ASSUME there, setting # T!NoRow, ~apart', Settled(wire')
      PROVE  Agreed(wire', topic', setting, NoTopic, burst)
  <2>1. CASE ~burst
    <3>1. topic' = setting.topic /\ (T!UnderWay(wire') => setting.lock)
      BY <1>1, <1>5, <2>1 DEF T!SendTopic
    <3> QED BY <2>1, <3>1, SentAgrees
  <2>2. CASE burst
    <3>1. UNCHANGED <<topic, apart>>
      BY <1>1, <2>2
    <3>2. Settled(wire)
      BY <1>1, <1>2, <1>5, <2>2, TakenSettled DEF TopicTyped
    <3>3. Agreed(wire, topic, setting, seen, burst)
      BY <1>5, <3>1, <3>2 DEF TopicInv
    <3>4. /\ T!UnderWay(wire) <=> T!UnderWay(wire')
          /\ LastIs(wire, topic) => LastIs(wire', topic)
      <4>1. Head(wire) # <<"topic", topic>>
        BY <1>1
      <4> QED BY <1>1, <1>2, <4>1, TakenUnderWay DEF TopicTyped
    <3>5. CASE T!UnderWay(wire)
      BY <3>1, <3>3, <3>4, <3>5 DEF Agreed
    <3>6. CASE ~ T!UnderWay(wire)
      <4>1. 1 \in Places(wire) /\ Moves(wire, 1)
        BY <1>1, <1>2, TailPlaces DEF Moves, Kind, TopicTyped
      <4>2. topic = NoTopic
        BY <2>2, <3>3, <3>6, <4>1 DEF Agreed
      <4> QED BY <2>2, <3>1, <3>4, <3>6, <4>2 DEF Agreed
    <3> QED BY <3>5, <3>6
  <2> QED BY <2>1, <2>2
<1>6. TopicTyped'
  BY <1>1, <1>2, <1>3, <1>4 DEF TopicTyped, WireInv
<1> QED BY <1>1, <1>3, <1>5, <1>6 DEF TopicInv, WireInv, T!CacheIsRow

LEMMA RecvGoneKeeps ==
  ASSUME TopicInv, T!RecvGone
  PROVE  TopicInv'
<1>1. /\ wire # <<>> /\ Head(wire)[1] = "gone" /\ wire' = Tail(wire)
      /\ known' = FALSE /\ seen' = NoTopic /\ copy' = T!NoRow
      /\ UNCHANGED <<there, topic, setting, burst, apart>>
  BY DEF T!RecvGone, T!Heads, T!Take
<1>2. TopicTyped /\ Bursts(wire, burst)
  BY DEF TopicInv
<1>3. WireInv'
  BY <1>1, <1>2, ServicesTake DEF TopicTyped
<1>4. ASSUME there, Settled(wire')
      PROVE  FALSE
  <2>1. CASE burst
    <3>1. 1 \in Places(wire) /\ Moves(wire, 1) /\ Kind(wire, 1) = "gone"
      BY <1>1, <1>2, TailPlaces DEF Moves, Kind, TopicTyped
    <3>2. Settled(wire)
      BY <1>1, <1>2, <1>4, <2>1, TakenSettled DEF TopicTyped
    <3>3. Kind(wire, 1) = "create"
      BY <1>2, <3>1, <3>2, SettledMoves DEF TopicTyped
    <3> QED BY <3>1, <3>3
  <2>2. CASE burst = FALSE
    <3>1. wire' \in Seq(TopicMessages) /\ Bursts(wire', FALSE) /\ Knows(wire', there, FALSE)
      BY <1>1, <1>3, <2>2 DEF WireInv
    <3>2. there = FALSE
      BY <1>2, <1>4, <3>1, KnownAfterBurst DEF TopicTyped
    <3> QED BY <1>4, <3>2
  <2> QED BY <1>2, <2>1, <2>2 DEF TopicTyped
<1>5. TopicTyped'
  BY <1>1, <1>2, <1>3 DEF TopicTyped, WireInv
<1> QED BY <1>1, <1>3, <1>4, <1>5 DEF TopicInv, WireInv, T!CacheIsRow
\* The values of settings.
LEMMA ValuesAre ==
  ASSUME NEW t \in Texts \cup {Dash, NoTopic}
  PROVE  T!Value(t) \in Texts \cup {NoTopic} /\ (t # Dash => T!Value(t) = t)
BY DEF T!Value

\* A row with another topic, or another lock.
LEMMA RowsChange ==
  ASSUME NEW r \in [topic : Texts \cup {NoTopic}, lock : BOOLEAN],
         NEW t \in Texts \cup {NoTopic}, NEW l \in BOOLEAN
  PROVE  /\ [r EXCEPT !["topic"] = t] \in [topic : Texts \cup {NoTopic}, lock : BOOLEAN]
         /\ [r EXCEPT !["topic"] = t].topic = t /\ [r EXCEPT !["topic"] = t].lock = r.lock
         /\ [r EXCEPT !["lock"] = l] \in [topic : Texts \cup {NoTopic}, lock : BOOLEAN]
         /\ [r EXCEPT !["lock"] = l].topic = r.topic /\ [r EXCEPT !["lock"] = l].lock = l
<1>1. /\ [r EXCEPT !["topic"] = t] \in [topic : Texts \cup {NoTopic}, lock : BOOLEAN]
      /\ [r EXCEPT !["topic"] = t].topic = t /\ [r EXCEPT !["topic"] = t].lock = r.lock
  OBVIOUS
<1>2. /\ [r EXCEPT !["lock"] = l] \in [topic : Texts \cup {NoTopic}, lock : BOOLEAN]
      /\ [r EXCEPT !["lock"] = l].topic = r.topic /\ [r EXCEPT !["lock"] = l].lock = l
  OBVIOUS
<1> QED BY <1>1, <1>2

LEMMA RecvTopicKeeps ==
  ASSUME TopicInv, T!RecvTopic
  PROVE  TopicInv'
<1> DEFINE t == Head(wire)[2]
<1>1. /\ wire # <<>> /\ Head(wire)[1] = "topic" /\ wire' = Tail(wire)
      /\ seen' = t
      /\ UNCHANGED <<there, known, burst>>
  BY DEF T!RecvTopic, T!Heads, T!Take
<1>2. TopicTyped /\ Bursts(wire, burst) /\ T!CacheIsRow /\ Knows(wire, there, known)
  BY DEF TopicInv
<1>3. WireInv'
  BY <1>1, <1>2, ServicesTake DEF TopicTyped
<1>4. t \in Texts \cup {Dash, NoTopic} /\ Head(wire) = <<"topic", t>>
  <2>1. Head(wire) \in TopicMessages
    BY <1>1, <1>2, TailPlaces DEF TopicTyped
  <2> QED BY <1>1, <2>1, KindsDiffer
<1>5. copy = T!NoRow => UNCHANGED <<topic, setting, copy, apart>>
  BY DEF T!RecvTopic
<1>6. copy # T!NoRow /\ copy.lock =>
        /\ IF t # copy.topic \/ copy.topic = NoTopic
           THEN T!SendTopic(copy.topic, copy.lock, wire') ELSE UNCHANGED <<topic, apart>>
        /\ UNCHANGED <<setting, copy>>
  BY <1>1 DEF T!RecvTopic
<1>7. copy # T!NoRow /\ ~copy.lock =>
        /\ IF t # NoTopic \/ ~burst THEN T!SetString("topic", t) ELSE UNCHANGED <<setting, copy>>
        /\ apart' = (apart \/ t = Dash)
        /\ UNCHANGED topic
  BY DEF T!RecvTopic
<1>8. copy # T!NoRow => known = TRUE /\ copy = setting
  BY <1>2 DEF T!CacheIsRow, TopicTyped
<1> HIDE DEF t
<1> DEFINE Rows == [topic : Texts \cup {NoTopic}, lock : BOOLEAN]
<1>9. copy # T!NoRow => setting \in Rows
  BY <1>2, <1>8 DEF TopicTyped
<1> HIDE DEF Rows
<1>10. T!Value(t) \in Texts \cup {NoTopic} /\ (t # Dash => T!Value(t) = t)
  BY <1>4, ValuesAre
<1>11. ASSUME copy # T!NoRow, ~copy.lock, t # NoTopic \/ ~burst
       PROVE  /\ setting' = copy' /\ setting' \in Rows
              /\ setting'.topic = T!Value(t) /\ setting'.lock = setting.lock
  <2>1. setting' = [setting EXCEPT !["topic"] = T!Value(t)] /\ copy' = [copy EXCEPT !["topic"] = T!Value(t)]
    BY <1>7, <1>8, <1>11 DEF T!SetString, T!DbSetString
  <2> QED BY <1>8, <1>9, <1>10, <1>11, <2>1, RowsChange DEF Rows
<1>12. TopicTyped'
  <2>1. topic' \in Texts \cup {Dash, NoTopic} /\ apart' \in BOOLEAN
    <3>1. CASE copy = T!NoRow
      BY <1>2, <1>5, <3>1 DEF TopicTyped
    <3>2. CASE copy # T!NoRow /\ copy.lock
      <4>1. copy.topic \in Texts \cup {NoTopic}
        BY <1>8, <1>9, <3>2 DEF Rows
      <4> QED BY <1>2, <1>6, <3>2, <4>1 DEF TopicTyped, T!SendTopic
    <3>3. CASE copy # T!NoRow /\ ~copy.lock
      BY <1>2, <1>7, <3>3 DEF TopicTyped
    <3> QED BY <3>1, <3>2, <3>3
  <2>2. setting' = T!NoRow \/ setting' \in Rows
    BY <1>2, <1>5, <1>6, <1>7, <1>11 DEF TopicTyped, Rows
  <2> QED BY <1>1, <1>2, <1>3, <1>4, <2>1, <2>2 DEF TopicTyped, WireInv, Rows
<1>13. T!CacheIsRow'
  <2>1. CASE copy = T!NoRow
    BY <1>1, <1>2, <1>5, <2>1 DEF T!CacheIsRow
  <2>2. CASE copy # T!NoRow
    <3>1. setting' = copy'
      BY <1>6, <1>7, <1>8, <1>11, <2>2
    <3> QED BY <1>1, <1>8, <2>2, <3>1 DEF T!CacheIsRow
  <2> QED BY <2>1, <2>2
<1>14. ASSUME there, setting' # T!NoRow, ~apart', Settled(wire')
       PROVE  Agreed(wire', topic', setting', t, burst)
  <2>1. Settled(wire)
    <3>1. ~ Moves(wire, 1)
      BY <1>1, <1>2, TailPlaces DEF Moves, Kind, TopicTyped
    <3> QED BY <1>1, <1>2, <1>14, <3>1, TakenSettled DEF TopicTyped
  <2>2. \A i \in Places(wire') : ~ Moves(wire', i)
    BY <1>1, <1>2, <2>1, NoMoves DEF TopicTyped
  <2>3. known
    BY <1>1, <1>3, <1>14, <2>2 DEF WireInv, Knows
  <2>4. copy # T!NoRow
    BY <1>2, <1>5, <1>14, <2>3 DEF T!CacheIsRow
  <2>5. ~apart /\ setting # T!NoRow
    BY <1>2, <1>6, <1>7, <1>8, <1>14, <2>4 DEF T!SendTopic, TopicTyped
  <2>6. LastIs(wire, topic) \/ (setting.lock /\ topic = setting.topic)
    <3>1. T!UnderWay(wire)
      BY <1>1, <1>2, TakenUnderWay DEF TopicTyped
    <3>2. Agreed(wire, topic, setting, seen, burst)
      BY <1>14, <2>1, <2>5 DEF TopicInv
    <3> QED BY <3>1, <3>2 DEF Agreed
  <2>7. LastIs(wire, topic) => LastIs(wire', topic) \/ (t = topic /\ ~ T!UnderWay(wire'))
    BY <1>1, <1>2, <1>4, TakenUnderWay DEF TopicTyped
  <2>8. LastIs(wire', topic) => T!UnderWay(wire')
    BY LastUnderWay
  <2>9. CASE copy.lock
    <3>1. setting' = setting /\ setting.lock
      BY <1>6, <1>8, <2>4, <2>9
    <3>2. CASE topic' = setting.topic
      BY <2>2, <3>1, <3>2, SentAgrees
    <3>3. CASE topic' # setting.topic
      <4>1. topic' = topic /\ t = setting.topic
        BY <1>6, <1>8, <1>14, <2>4, <2>9, <3>3 DEF T!SendTopic
      <4>2. LastIs(wire', topic)
        BY <2>6, <2>7, <3>3, <4>1
      <4> QED BY <2>8, <4>1, <4>2 DEF Agreed
    <3> QED BY <3>2, <3>3
  <2>10. CASE ~copy.lock
    <3>1. topic' = topic /\ t # Dash
      BY <1>7, <1>14, <2>4, <2>10
    <3>2. ~setting.lock
      BY <1>8, <2>4, <2>10
    <3>3. CASE LastIs(wire', topic)
      BY <2>8, <3>1, <3>3 DEF Agreed
    <3>4. CASE t = topic /\ ~ T!UnderWay(wire')
      <4>1. CASE t # NoTopic \/ ~burst
        <5>1. setting'.topic = t /\ ~setting'.lock
          BY <1>10, <1>11, <2>4, <2>10, <3>1, <3>2, <4>1
        <5> QED BY <2>2, <3>1, <3>4, <4>1, <5>1 DEF Agreed
      <4>2. CASE t = NoTopic /\ burst
        <5>1. setting' = setting
          BY <1>7, <2>4, <2>10, <4>2
        <5> QED BY <2>2, <3>1, <3>2, <3>4, <4>2, <5>1 DEF Agreed
      <4> QED BY <4>1, <4>2
    <3> QED BY <2>6, <2>7, <3>2, <3>3, <3>4
  <2> QED BY <2>9, <2>10
<1> QED BY <1>1, <1>3, <1>12, <1>13, <1>14 DEF TopicInv, WireInv

LEMMA RecvEobKeeps ==
  ASSUME TopicInv, T!RecvEob
  PROVE  TopicInv'
<1>1. /\ wire # <<>> /\ Head(wire)[1] = "eob" /\ wire' = Tail(wire)
      /\ burst' = FALSE
      /\ IF /\ copy # T!NoRow
            /\ IF copy.lock THEN seen # copy.topic ELSE seen = NoTopic /\ copy.topic # NoTopic
         THEN T!SendTopic(copy.topic, copy.lock, wire') ELSE UNCHANGED <<topic, apart>>
      /\ UNCHANGED <<there, known, seen, setting, copy>>
  BY DEF T!RecvEob, T!Heads, T!Take
<1>2. TopicTyped /\ Bursts(wire, burst) /\ T!CacheIsRow
  BY DEF TopicInv
<1>3. WireInv'
  BY <1>1, <1>2, ServicesTake DEF TopicTyped
<1>4. burst = TRUE
  <2>1. 1 \in Places(wire) /\ Kind(wire, 1) = "eob"
    BY <1>1, <1>2, TailPlaces DEF Kind, TopicTyped
  <2> QED BY <1>2, <2>1 DEF Bursts, TopicTyped
<1>5. topic' \in Texts \cup {Dash, NoTopic} /\ apart' \in BOOLEAN
  <2>1. copy # T!NoRow => copy.topic \in Texts \cup {NoTopic}
    BY <1>2 DEF TopicTyped, T!CacheIsRow
  <2> QED BY <1>1, <1>2, <2>1 DEF T!SendTopic, TopicTyped
<1>6. ASSUME there, setting # T!NoRow, ~apart', Settled(wire')
      PROVE  Agreed(wire', topic', setting, seen, FALSE)
  <2>1. there = known
    BY <1>1, <1>2, <1>3, <1>6, KnownAfterBurst DEF WireInv, TopicTyped
  <2>2. copy = setting /\ copy # T!NoRow
    BY <1>2, <1>6, <2>1 DEF T!CacheIsRow
  <2>3. Settled(wire)
    BY <1>1, <1>2, <1>4, <1>6, TakenSettled DEF TopicTyped
  <2>4. \A i \in Places(wire) : ~ Moves(wire, i)
    BY <1>1, <1>2, <2>3, NoMoves DEF TopicTyped
  <2>5. ~apart
    BY <1>1, <1>6 DEF T!SendTopic
  <2>6. Agreed(wire, topic, setting, seen, TRUE)
    BY <1>4, <1>6, <2>3, <2>5 DEF TopicInv
  <2>7. /\ T!UnderWay(wire) <=> T!UnderWay(wire')
        /\ LastIs(wire, topic) => LastIs(wire', topic)
    <3>1. Head(wire) # <<"topic", topic>>
      BY <1>1
    <3> QED BY <1>1, <1>2, <3>1, TakenUnderWay DEF TopicTyped
  <2>8. CASE IF setting.lock THEN seen # setting.topic ELSE seen = NoTopic /\ setting.topic # NoTopic
    <3>1. topic' = setting.topic /\ (T!UnderWay(wire') => setting.lock)
      BY <1>1, <1>6, <2>2, <2>8 DEF T!SendTopic
    <3> QED BY <3>1 DEF Agreed
  <2>9. CASE ~ (IF setting.lock THEN seen # setting.topic ELSE seen = NoTopic /\ setting.topic # NoTopic)
    <3>1. topic' = topic
      BY <1>1, <2>2, <2>9
    <3>2. CASE T!UnderWay(wire)
      BY <2>6, <2>7, <3>1, <3>2 DEF Agreed
    <3>3. CASE ~ T!UnderWay(wire)
      <4>1. IF setting.lock THEN topic \in {seen, setting.topic}
                            ELSE topic = IF seen = NoTopic THEN NoTopic ELSE setting.topic
        BY <2>4, <2>6, <3>3 DEF Agreed
      <4>2. topic = setting.topic
        BY <2>9, <4>1
      <4> QED BY <2>7, <3>1, <3>3, <4>2 DEF Agreed
    <3> QED BY <3>2, <3>3
  <2> QED BY <2>8, <2>9
<1>7. TopicTyped'
  BY <1>1, <1>2, <1>3, <1>5 DEF TopicTyped, WireInv
<1> QED BY <1>1, <1>2, <1>3, <1>6, <1>7 DEF TopicInv, WireInv, T!CacheIsRow
LEMMA CommandsKeep ==
  ASSUME TopicInv, ~burst, UNCHANGED <<there, wire, known, seen, burst>>,
         topic' \in Texts \cup {Dash, NoTopic}, apart' \in BOOLEAN,
         setting' = T!NoRow \/ setting' \in [topic : Texts \cup {NoTopic}, lock : BOOLEAN],
         copy' = IF known THEN setting' ELSE T!NoRow,
         there /\ known /\ setting' # T!NoRow /\ ~apart' /\ Settled(wire) =>
           IF T!UnderWay(wire) THEN LastIs(wire, topic') \/ (setting'.lock /\ topic' = setting'.topic)
                               ELSE topic' = setting'.topic
  PROVE  TopicInv'
<1>1. TopicTyped /\ Bursts(wire, burst) /\ Knows(wire, there, known)
  BY DEF TopicInv
<1>2. ASSUME there, setting' # T!NoRow, ~apart', Settled(wire)
      PROVE  Agreed(wire, topic', setting', seen, burst)
  <2>1. there = known
    <3>1. burst = FALSE
      BY <1>1 DEF TopicTyped
    <3> QED BY <1>1, <1>2, <3>1, KnownAfterBurst DEF TopicTyped
  <2> QED BY <1>2, <2>1 DEF Agreed
<1>3. TopicTyped'
  BY <1>1 DEF TopicTyped
<1> QED BY <1>1, <1>2, <1>3 DEF TopicInv, T!CacheIsRow

LEMMA RegisterKeeps ==
  ASSUME TopicInv, T!Register
  PROVE  TopicInv'
<1>1. /\ ~burst /\ known /\ setting' = [topic |-> NoTopic, lock |-> FALSE] /\ copy' = setting'
      /\ apart' = (topic # NoTopic \/ T!UnderWay(wire))
      /\ UNCHANGED <<there, topic, wire, known, seen, burst>>
  BY DEF T!Register
<1>2. /\ setting' \in [topic : Texts \cup {NoTopic}, lock : BOOLEAN] /\ setting'.topic = NoTopic
      /\ topic' \in Texts \cup {Dash, NoTopic} /\ apart' \in BOOLEAN
  BY <1>1 DEF TopicInv, TopicTyped
<1>3. there /\ known /\ setting' # T!NoRow /\ ~apart' /\ Settled(wire) =>
        IF T!UnderWay(wire) THEN LastIs(wire, topic') \/ (setting'.lock /\ topic' = setting'.topic)
                            ELSE topic' = setting'.topic
  BY <1>1, <1>2
<1> QED BY <1>1, <1>2, <1>3, CommandsKeep

LEMMA DropKeeps ==
  ASSUME TopicInv, T!Drop
  PROVE  TopicInv'
<1>1. /\ ~burst /\ setting' = T!NoRow /\ copy' = T!NoRow
      /\ UNCHANGED <<there, topic, wire, known, seen, burst, apart>>
  BY DEF T!Drop
<1>2. topic' \in Texts \cup {Dash, NoTopic} /\ apart' \in BOOLEAN
  BY <1>1 DEF TopicInv, TopicTyped
<1>3. copy' = IF known THEN setting' ELSE T!NoRow
  BY <1>1
<1> QED BY <1>1, <1>2, <1>3, CommandsKeep

\* What there was to say of the topic after the burst.
LEMMA AgreedBefore ==
  ASSUME TopicInv, ~burst, there, setting # T!NoRow, ~apart, Settled(wire)
  PROVE  IF T!UnderWay(wire) THEN LastIs(wire, topic) \/ (setting.lock /\ topic = setting.topic)
                             ELSE topic = setting.topic
BY DEF TopicInv, Agreed
LEMMA SetTopicKeeps ==
  ASSUME TopicInv, NEW t \in Texts \cup {Dash, NoTopic}, T!SetTopic(t)
  PROVE  TopicInv'
<1> DEFINE v == T!Value(t)
           Rows == [topic : Texts \cup {NoTopic}, lock : BOOLEAN]
<1>1. /\ ~burst /\ setting # T!NoRow
      /\ setting' = [setting EXCEPT !["topic"] = v]
      /\ copy' = IF known THEN [copy EXCEPT !["topic"] = v] ELSE copy
      /\ IF known /\ v # setting.topic THEN T!SendTopic(v, setting.lock, wire) ELSE UNCHANGED <<topic, apart>>
      /\ UNCHANGED <<there, wire, known, seen, burst>>
  BY DEF T!SetTopic, T!SetString, T!DbSetString
<1>2. v \in Texts \cup {NoTopic}
  BY ValuesAre
<1> HIDE DEF v
<1>3. TopicTyped /\ setting \in Rows
  BY <1>1 DEF TopicInv, TopicTyped
<1>4. setting' \in Rows /\ setting'.topic = v /\ setting'.lock = setting.lock
  BY <1>1, <1>2, <1>3, RowsChange
<1> HIDE DEF Rows
<1>5. topic' \in Texts \cup {Dash, NoTopic} /\ apart' \in BOOLEAN
  BY <1>1, <1>2, <1>3 DEF T!SendTopic, TopicTyped
<1>6. copy' = IF known THEN setting' ELSE T!NoRow
  BY <1>1 DEF TopicInv, T!CacheIsRow
<1>7. ASSUME there, known, ~apart', Settled(wire)
      PROVE  IF T!UnderWay(wire) THEN LastIs(wire, topic') \/ (setting'.lock /\ topic' = setting'.topic)
                                 ELSE topic' = setting'.topic
  <2>1. CASE v # setting.topic
    <3>1. topic' = v /\ (T!UnderWay(wire) => setting.lock)
      BY <1>1, <1>7, <2>1 DEF T!SendTopic
    <3> QED BY <1>4, <3>1
  <2>2. CASE v = setting.topic
    <3>1. topic' = topic /\ ~apart
      BY <1>1, <1>7, <2>2
    <3> QED BY <1>1, <1>4, <1>7, <2>2, <3>1, AgreedBefore
  <2> QED BY <2>1, <2>2
<1> QED BY <1>1, <1>4, <1>5, <1>6, <1>7, CommandsKeep DEF Rows

LEMMA SetTopicLockKeeps ==
  ASSUME TopicInv, NEW on \in BOOLEAN, T!SetTopicLock(on)
  PROVE  TopicInv'
<1> DEFINE Rows == [topic : Texts \cup {NoTopic}, lock : BOOLEAN]
<1>1. /\ ~burst /\ setting # T!NoRow
      /\ setting' = [setting EXCEPT !["lock"] = on]
      /\ copy' = IF known THEN [copy EXCEPT !["lock"] = on] ELSE copy
      /\ apart' = (apart \/ (~on /\ T!UnderWay(wire)))
      /\ UNCHANGED <<there, topic, wire, known, seen, burst>>
  BY DEF T!SetTopicLock, T!SetFlag, T!DbSetFlag
<1>2. TopicTyped /\ setting \in Rows
  BY <1>1 DEF TopicInv, TopicTyped
<1>3. setting' \in Rows /\ setting'.topic = setting.topic /\ setting'.lock = on
  <2>1. \E u : u \in Texts \cup {NoTopic}
    OBVIOUS
  <2> QED BY <1>1, <1>2, <2>1, RowsChange
<1> HIDE DEF Rows
<1>4. topic' \in Texts \cup {Dash, NoTopic} /\ apart' \in BOOLEAN
  BY <1>1, <1>2 DEF TopicTyped
<1>5. copy' = IF known THEN setting' ELSE T!NoRow
  BY <1>1 DEF TopicInv, T!CacheIsRow
<1>6. ASSUME there, known, ~apart', Settled(wire)
      PROVE  IF T!UnderWay(wire) THEN LastIs(wire, topic') \/ (setting'.lock /\ topic' = setting'.topic)
                                 ELSE topic' = setting'.topic
  <2>1. ~apart /\ (T!UnderWay(wire) => on)
    BY <1>1, <1>6
  <2>2. IF T!UnderWay(wire) THEN LastIs(wire, topic) \/ (setting.lock /\ topic = setting.topic)
                            ELSE topic = setting.topic
    BY <1>1, <1>6, <2>1, AgreedBefore
  <2> QED BY <1>1, <1>3, <2>1, <2>2
<1> QED BY <1>1, <1>3, <1>4, <1>5, <1>6, CommandsKeep DEF Rows

LEMMA TopicInit ==
  ASSUME T!Init
  PROVE  TopicInv
<1>1. /\ there = FALSE /\ topic = NoTopic /\ wire = <<>> /\ known = FALSE /\ seen = NoTopic
      /\ setting = T!NoRow /\ copy = T!NoRow /\ burst = FALSE /\ apart = FALSE
  BY DEF T!Init
<1>2. Places(wire) = {}
  BY <1>1 DEF Places
<1>3. Knows(wire, there, known) /\ Bursts(wire, burst)
  BY <1>1, <1>2 DEF Knows, Bursts
<1>4. wire \in Seq(TopicMessages)
  BY <1>1
<1>5. TopicTyped
  BY <1>1, <1>4 DEF TopicTyped
<1>6. T!CacheIsRow
  BY <1>1 DEF T!CacheIsRow
<1> QED BY <1>1, <1>3, <1>5, <1>6 DEF TopicInv

LEMMA TopicNext ==
  ASSUME TopicInv, [T!Next]_(T!vars)
  PROVE  TopicInv'
<1>1. CASE T!Create
  BY <1>1, CreateKeeps
<1>2. CASE T!Leave
  BY <1>2, LeaveKeeps
<1>3. ASSUME NEW t \in Texts \cup {Dash, NoTopic}, T!UserTopic(t)
      PROVE  TopicInv'
  BY <1>3, UserTopicKeeps
<1>4. CASE T!Restart
  BY <1>4, RestartKeeps
<1>5. CASE T!RecvCreate
  BY <1>5, RecvCreateKeeps
<1>6. CASE T!RecvGone
  BY <1>6, RecvGoneKeeps
<1>7. CASE T!RecvTopic
  BY <1>7, RecvTopicKeeps
<1>8. CASE T!RecvEob
  BY <1>8, RecvEobKeeps
<1>9. CASE T!Register
  BY <1>9, RegisterKeeps
<1>10. CASE T!Drop
  BY <1>10, DropKeeps
<1>11. ASSUME NEW t \in Texts \cup {Dash, NoTopic}, T!SetTopic(t)
       PROVE  TopicInv'
  BY <1>11, SetTopicKeeps
<1>12. ASSUME NEW on \in BOOLEAN, T!SetTopicLock(on)
       PROVE  TopicInv'
  BY <1>12, SetTopicLockKeeps
<1>13. CASE UNCHANGED T!vars
  <2>1. UNCHANGED <<there, topic, wire, known, seen, setting, copy, burst, apart>>
    BY <1>13 DEF T!vars
  <2>2. TopicTyped'
    BY <2>1 DEF TopicInv, TopicTyped
  <2> QED BY <2>1, <2>2 DEF TopicInv, T!CacheIsRow
<1> QED BY <1>1, <1>2, <1>3, <1>4, <1>5, <1>6, <1>7, <1>8, <1>9, <1>10, <1>11, <1>12, <1>13 DEF T!Next

LEMMA TopicMoves ==
  ASSUME [MCNext]_<<part, vars, cvars, tvars, fvars>>
  PROVE  [T!Next]_(T!vars)
BY DEF MCNext, tvars, T!vars

\* TopicHolds, for any topics and any number of messages under way: the copy of the
\* settings a channel carries is the row, and once nothing is under way the topic
\* the network shows is the topic of the row.
\* (cs_on_topic_change, cs_on_channel_create, cs_on_burst_done, m_set_topic, dbchannel_set_*)
THEOREM TopicIsKept == MCSpec => []TopicHolds
<1>1. MCInit => TopicInv
  BY TopicInit DEF MCInit
<1>2. TopicInv /\ [MCNext]_<<part, vars, cvars, tvars, fvars>> => TopicInv'
  BY TopicNext, TopicMoves
<1>3. TopicInv => TopicHolds
  BY AgreedAtLast DEF TopicHolds
<1> QED BY <1>1, <1>2, <1>3, PTL DEF MCSpec
-----------------------------------------------------------------------------
(* Floods *)

Entries == [text : Messages, time : Nat]
SaidMessages ==
  [host : F!Hosts, chan : Channels, text : Messages, time : Nat, crowd : BOOLEAN,
   did : {"akilled before", "akilled", "killed", "quieted", "nothing"}]

\* The places of s that the queues are about, as far back as they begin (a, and b): those
\* of a host, those of a channel, those of a host on a channel.
Network(s, a, h) == {i \in 1..Len(s) : i >= a /\ s[i].host = h}
Channel(s, a, c) ==
  {i \in 1..Len(s) : i >= a /\ s[i].chan = c /\ s[i].did \in {"nothing", "quieted"}}
Own(s, a, b, c, h) == {i \in Channel(s, a, c) : i >= b /\ s[i].host = h /\ ~s[i].crowd}

\* The queue q holds the last messages of s at the places P: f says which.  The
\* other places are before them, and q is full or they are old at the time t.
Holds(s, t, q, P, max, f) ==
  /\ \A i \in 1..Len(q) : f[i] \in P
  /\ \A i \in 1..Len(q), j \in 1..Len(q) : i < j => f[i] < f[j]
  /\ \A i \in 1..Len(q) : q[i].text = s[f[i]].text /\ q[i].time = s[f[i]].time
  /\ \A p \in P : \/ \E i \in 1..Len(q) : p = f[i]
                  \/ /\ \A i \in 1..Len(q) : p < f[i]
                     /\ Len(q) = max \/ s[p].time + FS_GC_EXPIRE_TIME <= t
Tracks(s, t, q, P, max) ==
  Len(q) <= max /\ \E f \in [1..Len(q) -> 1..Len(s)] : Holds(s, t, q, P, max, f)

\* Messages in the order of their times, none of which is to come.
InTime(s, t) ==
  /\ \A i \in 1..Len(s), j \in 1..Len(s) : i <= j => s[i].time <= s[j].time
  /\ \A i \in 1..Len(s) : s[i].time <= t

FloodTyped ==
  /\ now \in Nat /\ said \in Seq(SaidMessages) /\ InTime(said, now)
  /\ entries \in [F!Tables -> [F!Hosts -> Seq(Entries)]]
  /\ gqueue \in [Channels -> Seq(Entries)]
  /\ from \in [F!Tables -> [F!Hosts \cup {Everyone} -> 1..Len(said) + 1]]

\* The inductive invariant of FloodQueues: every queue holds the last messages it
\* is about.
FloodInv ==
  /\ FloodTyped /\ F!FloodsAreStopped
  /\ \A h \in F!Hosts :
       Tracks(said, now, entries["global"][h], Network(said, from["global"][h], h), FS_GMSG_COUNT)
  /\ \A c \in Channels : Tracks(said, now, gqueue[c], Channel(said, from[c][Everyone], c), FS_GMSG_COUNT)
  /\ \A c \in Channels, h \in F!Hosts :
       Tracks(said, now, entries[c][h], Own(said, from[c][Everyone], from[c][h], c, h), FS_MSG_COUNT)

LEMMA EntriesAre ==
  ASSUME NEW q \in Seq(Entries)
  PROVE  Len(q) \in Nat /\ \A i \in 1..Len(q) : q[i] \in Entries /\ q[i].time \in Nat /\ i \in Nat
<1>1. Len(q) \in Nat /\ \A i \in 1..Len(q) : q[i] \in Entries /\ i \in Nat
  OBVIOUS
<1>2. \A e \in Entries : e.time \in Nat
  BY DEF Entries
<1> QED BY <1>1, <1>2

LEMMA SaidAre ==
  ASSUME NEW s \in Seq(SaidMessages)
  PROVE  Len(s) \in Nat /\ \A i \in 1..Len(s) : s[i] \in SaidMessages /\ s[i].time \in Nat /\ i \in Nat
<1>1. Len(s) \in Nat /\ \A i \in 1..Len(s) : s[i] \in SaidMessages /\ i \in Nat
  OBVIOUS
<1>2. \A m \in SaidMessages : m.time \in Nat
  BY DEF SaidMessages
<1> QED BY <1>1, <1>2

\* How many places the last of an increasing sequence of places has.
LastOf(f, n, k) == {f[m] : m \in k + 1..n}

LEMMA LastPlaces ==
  ASSUME NEW n \in Nat, NEW k \in 0..n, NEW f,
         \A i \in 1..n : f[i] \in Nat,
         \A i \in 1..n, j \in 1..n : i < j => f[i] < f[j]
  PROVE  IsFiniteSet(LastOf(f, n, k)) /\ Cardinality(LastOf(f, n, k)) = n - k
<1> DEFINE Tops == {f[m] : m \in k + 1..n}
           g == [x \in 1..n - k |-> f[k + x]]
<1>1. n - k \in Nat
  OBVIOUS
<1>2. g \in [1..n - k -> Tops]
  <2>1. ASSUME NEW x \in 1..n - k
        PROVE  k + x \in k + 1..n
    OBVIOUS
  <2> QED BY <2>1
<1>3. ASSUME NEW x \in 1..n - k, NEW y \in 1..n - k, g[x] = g[y]
      PROVE  x = y
  <2>1. k + x \in 1..n /\ k + y \in 1..n /\ x \in Int /\ y \in Int
    OBVIOUS
  <2>2. f[k + x] = f[k + y]
    BY <1>3
  <2>3. ~ (k + x < k + y) /\ ~ (k + y < k + x)
    BY <2>1, <2>2
  <2> QED BY <2>1, <2>3
<1>4. ASSUME NEW z \in Tops
      PROVE  \E x \in 1..n - k : g[x] = z
  <2>1. PICK m \in k + 1..n : z = f[m]
    OBVIOUS
  <2>2. m - k \in 1..n - k /\ k + (m - k) = m
    OBVIOUS
  <2> QED BY <2>1, <2>2
<1>5. ExistsBijection(1..n - k, Tops)
  <2> HIDE DEF Tops, g
  <2>1. g \in Bijection(1..n - k, Tops)
    BY <1>2, <1>3, <1>4, Zenon DEF Bijection, Injection, Surjection, IsInjective
  <2> QED BY <2>1 DEF ExistsBijection
<1>6. IsFiniteSet(1..n - k) /\ Cardinality(1..n - k) = n - k
  BY <1>1, FS_Interval
<1> HIDE DEF Tops, g
<1>7. IsFiniteSet(Tops) /\ Cardinality(Tops) = n - k
  BY <1>5, <1>6, FS_Bijection
<1> QED BY <1>7 DEF Tops, LastOf

\* A queue that holds what it should holds it also when another message was said
\* that is not its own.
LEMMA OthersTrack ==
  ASSUME NEW s \in Seq(SaidMessages), NEW t, NEW q, NEW P \in SUBSET (1..Len(s)), NEW max,
         Tracks(s, t, q, P, max), NEW m \in SaidMessages
  PROVE  Tracks(Append(s, m), t, q, P, max)
<1> DEFINE v == Append(s, m)
<1>1. Len(v) = Len(s) + 1 /\ Len(s) \in Nat /\ \A i \in 1..Len(s) : v[i] = s[i]
  OBVIOUS
<1>2. PICK f \in [1..Len(q) -> 1..Len(s)] : Holds(s, t, q, P, max, f)
  BY DEF Tracks
<1> HIDE DEF v
<1>3. f \in [1..Len(q) -> 1..Len(v)]
  BY <1>1
<1>4. Holds(v, t, q, P, max, f)
  BY <1>1, <1>2 DEF Holds
<1>5. Tracks(v, t, q, P, max)
  BY <1>3, <1>4 DEF Tracks
<1> QED BY <1>5 DEF v

LEMMA LaterTracks ==
  ASSUME NEW s \in Seq(SaidMessages), NEW t \in Nat, NEW q, NEW P \in SUBSET (1..Len(s)), NEW max,
         Tracks(s, t, q, P, max)
  PROVE  Tracks(s, t + 1, q, P, max)
<1>1. PICK f \in [1..Len(q) -> 1..Len(s)] : Holds(s, t, q, P, max, f)
  BY DEF Tracks
<1>2. ASSUME NEW p \in P, s[p].time + FS_GC_EXPIRE_TIME <= t
      PROVE  s[p].time + FS_GC_EXPIRE_TIME <= t + 1
  BY <1>2, SaidAre, FloodsAssumption
<1>3. Holds(s, t + 1, q, P, max, f)
  BY <1>1, <1>2 DEF Holds
<1> QED BY <1>3 DEF Tracks

\* An empty queue, if all its messages are old.
LEMMA NothingTracks ==
  ASSUME NEW s, NEW t, NEW P, NEW max \in Nat,
         \A p \in P : s[p].time + FS_GC_EXPIRE_TIME <= t
  PROVE  Tracks(s, t, <<>>, P, max)
<1> DEFINE q == <<>>
           f == [x \in 1..Len(q) |-> 1]
<1>1. Len(q) = 0 /\ 1..Len(q) = {}
  OBVIOUS
<1>2. f \in [1..Len(q) -> 1..Len(s)]
  BY <1>1
<1> HIDE DEF q, f
<1>3. Holds(s, t, q, P, max, f)
  BY <1>1 DEF Holds
<1>4. Len(q) <= max
  BY <1>1
<1>5. Tracks(s, t, q, P, max)
  BY <1>2, <1>3, <1>4, Zenon DEF Tracks
<1> QED BY <1>5 DEF q

\* A queue that is freed for its age held nothing but what is old.
LEMMA FreedTracks ==
  ASSUME NEW s \in Seq(SaidMessages), NEW t \in Nat, InTime(s, t), NEW q \in Seq(Entries),
         NEW P \in SUBSET (1..Len(s)), NEW max \in Nat, Tracks(s, t, q, P, max),
         q # <<>>, ~ (t - q[Len(q)].time < FS_GC_EXPIRE_TIME)
  PROVE  Tracks(s, t, <<>>, P, max)
<1> DEFINE n == Len(q)
<1>1. PICK f \in [1..n -> 1..Len(s)] : Holds(s, t, q, P, max, f)
  BY DEF Tracks
<1>2. n \in Nat \ {0} /\ n \in 1..n /\ q[n].time \in Nat
  BY EmptySeq, EntriesAre
<1>3. f[n] \in 1..Len(s) /\ q[n].time = s[f[n]].time
  BY <1>1, <1>2 DEF Holds
<1>4. ASSUME NEW p \in P
      PROVE  s[p].time + FS_GC_EXPIRE_TIME <= t
  <2>1. p <= f[n]
    <3>1. CASE \E i \in 1..n : p = f[i]
      <4>1. PICK i \in 1..n : p = f[i]
        BY <3>1
      <4>2. i = n \/ f[i] < f[n]
        BY <1>1, <1>2 DEF Holds
      <4>3. p \in Nat /\ f[n] \in Nat
        BY <1>3, SaidAre
      <4> QED BY <4>1, <4>2, <4>3
    <3>2. CASE \A i \in 1..n : p < f[i]
      <4>1. p \in Nat /\ f[n] \in Nat /\ p < f[n]
        BY <1>2, <1>3, <3>2, SaidAre
      <4> QED BY <4>1
    <3> QED BY <1>1, <3>1, <3>2 DEF Holds
  <2>2. s[p].time <= s[f[n]].time /\ s[p].time \in Nat
    BY <1>3, <2>1, SaidAre DEF InTime
  <2> QED BY <1>2, <1>3, <2>2, FloodsAssumption
<1> QED BY <1>4, NothingTracks
\* One more message of a queue's own.
LEMMA OneMoreTracks ==
  ASSUME NEW s \in Seq(SaidMessages), NEW q \in Seq(Entries),
         NEW P \in SUBSET (1..Len(s)), NEW max \in Nat \ {0}, Tracks(s, now, q, P, max),
         NEW m \in SaidMessages, m.time = now
  PROVE  LET r == F!MqueueAdd(q, m.text, max)
         IN  /\ r \in Seq(Entries) /\ r # <<>>
             /\ Tracks(Append(s, m), now, r, P \cup {Len(s) + 1}, max)
<1> DEFINE v == Append(s, m)
           n == Len(s) + 1
           e == [text |-> m.text, time |-> now]
           base == IF Len(q) >= max THEN Tail(q) ELSE q
           d == IF Len(q) >= max THEN 1 ELSE 0
           r == Append(base, e)
           k == Len(q) - d + 1
<1>1. Len(v) = n /\ Len(s) \in Nat /\ n \in Nat /\ v[n] = m /\ \A i \in 1..Len(s) : v[i] = s[i]
  OBVIOUS
<1>2. e \in Entries /\ e.text = m.text /\ e.time = m.time
  BY DEF Entries, SaidMessages
<1>3. Len(q) \in Nat /\ Len(q) <= max
  BY EntriesAre DEF Tracks
<1>4. d \in 0..1 /\ d <= Len(q) /\ k \in 1..max /\ (d = 1 <=> Len(q) = max)
  BY <1>3
<1> HIDE DEF e
<1>5. base \in Seq(Entries) /\ Len(base) = Len(q) - d /\ \A i \in 1..Len(q) - d : base[i] = q[i + d]
  <2>1. CASE Len(q) >= max
    <3>1. q # <<>>
      BY <2>1
    <3> QED BY <2>1, <3>1, HeadTailProperties
  <2>2. CASE ~ (Len(q) >= max)
    BY <1>3, <2>2
  <2> QED BY <2>1, <2>2
<1> HIDE DEF base, d
<1>6. r \in Seq(Entries) /\ r # <<>> /\ Len(r) = k /\ r[k] = e /\ \A i \in 1..k - 1 : r[i] = q[i + d]
  BY <1>2, <1>3, <1>4, <1>5, AppendProperties
<1>7. F!MqueueAdd(q, m.text, max) = r
  BY DEF F!MqueueAdd, e, base
<1>8. PICK f \in [1..Len(q) -> 1..Len(s)] : Holds(s, now, q, P, max, f)
  BY DEF Tracks
<1> DEFINE g == [i \in 1..k |-> IF i = k THEN n ELSE f[i + d]]
<1>9. ASSUME NEW i \in 1..k, i # k
      PROVE  /\ i + d \in 1..Len(q) /\ i \in 1..k - 1 /\ i \in Nat
             /\ g[i] = f[i + d] /\ f[i + d] \in 1..Len(s) /\ f[i + d] \in P /\ g[i] < n
             /\ r[i] = q[i + d]
  <2>1. i + d \in 1..Len(q) /\ i \in 1..k - 1 /\ i \in Nat
    BY <1>3, <1>4, <1>9
  <2>2. g[i] = f[i + d]
    BY <1>9
  <2>3. f[i + d] \in 1..Len(s) /\ f[i + d] \in P
    BY <1>8, <2>1 DEF Holds
  <2> HIDE DEF g
  <2> QED BY <1>1, <1>6, <2>1, <2>2, <2>3
<1>10. k \in 1..k /\ g[k] = n /\ k \in Nat
  BY <1>4
<1>11. g \in [1..k -> 1..Len(v)]
  <2>1. ASSUME NEW i \in 1..k
        PROVE  (IF i = k THEN n ELSE f[i + d]) \in 1..Len(v)
    <3>1. CASE i = k
      BY <1>1, <3>1
    <3>2. CASE i # k
      <4>1. f[i + d] \in 1..Len(s)
        BY <1>9, <3>2
      <4> QED BY <1>1, <3>2, <4>1
    <3> QED BY <3>1, <3>2
  <2> QED BY <2>1
<1> HIDE DEF g, r, k, v, n
<1>12. ASSUME NEW i \in 1..k
       PROVE  g[i] \in P \cup {n}
  BY <1>9, <1>10
<1>13. ASSUME NEW i \in 1..k, NEW j \in 1..k, i < j
       PROVE  g[i] < g[j]
  <2>1. i # k /\ i \in Nat /\ j \in Nat
    BY <1>10, <1>13
  <2>2. CASE j = k
    BY <1>9, <1>10, <2>1, <2>2
  <2>3. CASE j # k
    <3>1. i + d \in 1..Len(q) /\ j + d \in 1..Len(q) /\ i + d < j + d
      <4>1. i + d \in 1..Len(q) /\ j + d \in 1..Len(q)
        BY <1>9, <2>1, <2>3
      <4>2. d = 0 \/ d = 1
        BY <1>4
      <4>3. i + d < j + d
        BY <1>13, <2>1, <4>2
      <4> QED BY <4>1, <4>3
    <3>2. f[i + d] < f[j + d]
      BY <1>8, <3>1 DEF Holds
    <3> QED BY <1>9, <2>1, <2>3, <3>2
  <2> QED BY <2>2, <2>3
<1>14. ASSUME NEW i \in 1..k
       PROVE  r[i].text = v[g[i]].text /\ r[i].time = v[g[i]].time
  <2>1. CASE i = k
    BY <1>1, <1>2, <1>6, <1>10, <2>1
  <2>2. CASE i # k
    <3>1. i + d \in 1..Len(q) /\ g[i] = f[i + d] /\ f[i + d] \in 1..Len(s) /\ r[i] = q[i + d]
      BY <1>9, <2>2
    <3>2. q[i + d].text = s[f[i + d]].text /\ q[i + d].time = s[f[i + d]].time
      BY <1>8, <3>1 DEF Holds
    <3> QED BY <1>1, <3>1, <3>2
  <2> QED BY <2>1, <2>2
<1>15. ASSUME NEW p \in P
       PROVE  \/ \E i \in 1..k : p = g[i]
              \/ /\ \A i \in 1..k : p < g[i]
                 /\ k = max \/ v[p].time + FS_GC_EXPIRE_TIME <= now
  <2>1. p \in 1..Len(s) /\ p \in Nat /\ p < n /\ v[p] = s[p]
    BY <1>1 DEF n
  <2>2. CASE \E j \in 1..Len(q) : p = f[j]
    <3>1. PICK j \in 1..Len(q) : p = f[j]
      BY <2>2
    <3>2. CASE j > d
      <4>1. j - d \in 1..k /\ j - d # k /\ (j - d) + d = j
        BY <1>3, <1>4, <3>2 DEF k
      <4> QED BY <1>9, <3>1, <4>1
    <3>3. CASE ~ (j > d)
      <4>1. j = 1 /\ d = 1
        BY <1>4, <3>3
      <4>2. k = max
        BY <1>3, <1>4, <4>1 DEF k
      <4>3. ASSUME NEW i \in 1..k
            PROVE  p < g[i]
        <5>1. CASE i = k
          BY <1>10, <2>1, <5>1
        <5>2. CASE i # k
          <6>1. i + d \in 1..Len(q) /\ i \in 1..k - 1 /\ i \in Nat /\ g[i] = f[i + d]
            BY <1>9, <5>2
          <6>2. i >= 1
            BY <1>10
          <6>3. j < i + d
            BY <4>1, <6>1, <6>2
          <6> QED BY <1>8, <3>1, <6>1, <6>3 DEF Holds
        <5> QED BY <5>1, <5>2
      <4> QED BY <4>2, <4>3
    <3> QED BY <3>2, <3>3
  <2>3. CASE /\ \A i \in 1..Len(q) : p < f[i]
             /\ Len(q) = max \/ s[p].time + FS_GC_EXPIRE_TIME <= now
    <3>1. ASSUME NEW i \in 1..k
          PROVE  p < g[i]
      <4>1. CASE i = k
        BY <1>10, <2>1, <4>1
      <4>2. CASE i # k
        BY <1>9, <2>3, <4>2
      <4> QED BY <4>1, <4>2
    <3>2. Len(q) = max => k = max
      BY <1>3, <1>4 DEF k
    <3> QED BY <2>1, <2>3, <3>1, <3>2
  <2> QED BY <1>8, <2>2, <2>3 DEF Holds
<1>16. ASSUME NEW p \in P \cup {n}
       PROVE  \/ \E i \in 1..k : p = g[i]
              \/ /\ \A i \in 1..k : p < g[i]
                 /\ k = max \/ v[p].time + FS_GC_EXPIRE_TIME <= now
  <2>1. CASE p = n
    BY <1>10, <2>1
  <2>2. CASE p \in P
    BY <1>15, <2>2
  <2> QED BY <2>1, <2>2
<1>17. Holds(v, now, r, P \cup {n}, max, g)
  BY <1>6, <1>12, <1>13, <1>14, <1>16 DEF Holds
<1>18. Tracks(v, now, r, P \cup {n}, max)
  <2>1. Len(r) <= max
    BY <1>4, <1>6
  <2> QED BY <1>6, <1>11, <1>17, <2>1 DEF Tracks
<1> QED BY <1>6, <1>7, <1>18 DEF v, n

\* Repeated of FloodQueues, of the messages s.
RepeatedIn(s, S, n, span) ==
  LET last == {i \in S : Cardinality({j \in S : j > i}) < n}
  IN  /\ Cardinality(last) = n
      /\ \A i, j \in last : s[i].text = s[j].text /\ s[j].time <= s[i].time + span

\* A queue to which the last message was added is judged as the messages are.
LEMMA QueueJudges ==
  ASSUME NEW s \in Seq(SaidMessages), NEW t \in Nat, InTime(s, t), NEW q \in Seq(Entries),
         NEW P \in SUBSET (1..Len(s)), NEW max \in Nat \ {0}, NEW span \in Nat,
         span < FS_GC_EXPIRE_TIME, Tracks(s, t, q, P, max),
         Len(s) \in P, s[Len(s)].time = t
  PROVE  F!MqueueEnforce(q, max, span) <=> RepeatedIn(s, P, max, span)
<1> DEFINE n == Len(q)
           After(i) == {j \in P : j > i}
           last == {i \in P : Cardinality(After(i)) < max}
<1>1. PICK f \in [1..n -> 1..Len(s)] : Holds(s, t, q, P, max, f)
  BY DEF Tracks
<1>2. /\ n \in Nat /\ n <= max /\ Len(s) \in Nat
      /\ \A i \in 1..n : f[i] \in P /\ f[i] \in Nat /\ i \in Nat
      /\ \A i \in 1..n, j \in 1..n : i < j => f[i] < f[j]
  <2>1. n \in Nat /\ n <= max /\ Len(s) \in Nat
    BY EntriesAre, SaidAre DEF Tracks
  <2>2. \A i \in 1..n : f[i] \in P /\ i \in Nat
    BY <1>1 DEF Holds
  <2>3. \A i \in 1..n : f[i] \in Nat
    BY <2>2, <2>1
  <2>4. \A i \in 1..n, j \in 1..n : i < j => f[i] < f[j]
    BY <1>1 DEF Holds
  <2> QED BY <2>1, <2>2, <2>3, <2>4
<1>3. \A i \in 1..n : q[i].text = s[f[i]].text /\ q[i].time = s[f[i]].time
  BY <1>1 DEF Holds
<1>4. \A p \in P : \/ \E i \in 1..n : p = f[i]
                   \/ /\ \A i \in 1..n : p < f[i]
                      /\ n = max \/ s[p].time + FS_GC_EXPIRE_TIME <= t
  BY <1>1 DEF Holds
<1> DEFINE Held == LastOf(f, n, 0)
<1>5. /\ IsFiniteSet(Held) /\ Cardinality(Held) = n
      /\ \A p : p \in Held <=> \E i \in 1..n : p = f[i]
  <2>1. IsFiniteSet(Held) /\ Cardinality(Held) = n - 0
    <3>1. n \in Nat /\ 0 \in 0..n /\ \A i \in 1..n : f[i] \in Nat
      BY <1>2
    <3>2. \A i \in 1..n, j \in 1..n : i < j => f[i] < f[j]
      BY <1>2
    <3> HIDE DEF n
    <3> QED BY <3>1, <3>2, LastPlaces
  <2>2. \A p : p \in Held <=> \E i \in 1..n : p = f[i]
    <3>1. 0 + 1 = 1
      OBVIOUS
    <3> HIDE DEF n
    <3> QED BY <3>1, Zenon DEF LastOf
  <2> QED BY <1>2, <2>1, <2>2
<1>6. IsFiniteSet(P) /\ \A p \in P : p \in Nat /\ p \in 1..Len(s)
  <2>1. IsFiniteSet(1..Len(s)) /\ P \subseteq 1..Len(s)
    BY <1>2, FS_Interval
  <2>2. IsFiniteSet(P)
    BY <2>1, FS_Subset
  <2>3. \A p \in P : p \in Nat /\ p \in 1..Len(s)
    BY <1>2
  <2> QED BY <2>2, <2>3
<1> HIDE DEF n, Held
<1>7. \A p \in P : IsFiniteSet(After(p)) /\ Cardinality(After(p)) \in Nat
  BY <1>6, FS_Subset, FS_CardinalityType
<1>8. ASSUME NEW m \in 1..n
      PROVE  f[m] \in last
  <2>1. m \in 0..n /\ n - m < max /\ m \in Nat
    BY <1>2
  <2>2. After(f[m]) = LastOf(f, n, m)
    <3>1. ASSUME NEW j \in P, j > f[m]
          PROVE  j \in {f[x] : x \in m + 1..n}
      <4>1. f[m] \in Nat /\ j \in Nat
        BY <1>2, <1>6
      <4>2. ~ (j < f[m])
        BY <3>1, <4>1
      <4>3. PICK x \in 1..n : j = f[x]
        BY <1>4, <4>2
      <4>4. ~ (x < m) /\ x # m /\ x \in Nat
        <5>1. x \in Nat /\ (x < m => f[x] < f[m])
          BY <1>2
        <5> QED BY <3>1, <4>1, <4>3, <5>1
      <4>5. x \in m + 1..n
        BY <1>2, <2>1, <4>4
      <4> QED BY <4>3, <4>5
    <3>2. ASSUME NEW x \in m + 1..n
          PROVE  f[x] \in P /\ f[x] > f[m]
      <4>1. x \in 1..n /\ m < x
        BY <1>2, <2>1
      <4>2. f[m] < f[x] /\ f[m] \in Nat /\ f[x] \in Nat /\ f[x] \in P
        BY <1>2, <4>1
      <4> QED BY <4>2
    <3> QED BY <3>1, <3>2 DEF LastOf
  <2>3. Cardinality(LastOf(f, n, m)) = n - m
    <3>1. n \in Nat /\ m \in 0..n /\ \A i \in 1..n : f[i] \in Nat
      BY <1>2, <2>1
    <3>2. \A i \in 1..n, j \in 1..n : i < j => f[i] < f[j]
      BY <1>2
    <3> QED BY <3>1, <3>2, LastPlaces
  <2> QED BY <1>2, <2>1, <2>2, <2>3
<1>9. CASE n = max
  <2>1. ASSUME NEW p \in last
        PROVE  p \in Held
    <3>1. SUFFICES ASSUME p \notin Held
                   PROVE  FALSE
      OBVIOUS
    <3>2. p \in P /\ \A i \in 1..n : p < f[i]
      BY <1>4, <1>5, <3>1
    <3>3. Held \subseteq After(p)
      <4>1. ASSUME NEW i \in 1..n
            PROVE  f[i] \in P /\ f[i] > p
        BY <1>2, <1>6, <3>2
      <4> QED BY <1>5, <4>1
    <3>4. Cardinality(Held) <= Cardinality(After(p))
      BY <1>7, <3>2, <3>3, FS_Subset
    <3>5. Cardinality(After(p)) < max /\ Cardinality(After(p)) \in Nat
      BY <1>7, <3>2
    <3> HIDE DEF After
    <3> QED BY <1>5, <1>9, <3>4, <3>5
  <2>2. last = Held
    <3> HIDE DEF last
    <3>1. \A p \in Held : p \in last
      BY <1>5, <1>8
    <3>2. \A p \in last : p \in Held
      BY <2>1
    <3> QED BY <3>1, <3>2
  <2>3. Cardinality(last) = max
    BY <1>5, <1>9, <2>2
  <2>4. 1 \in 1..n /\ n \in 1..n /\ q[1].time \in Nat /\ q[n].time \in Nat
        /\ \A i \in 1..n : q[i].time \in Nat
    <3>1. 1 \in 1..n /\ n \in 1..n
      BY <1>2, <1>9
    <3>2. \A i \in 1..n : q[i].time \in Nat
      BY EntriesAre DEF n
    <3> QED BY <3>1, <3>2
  <2>5. \A i \in 1..n : q[1].time <= q[i].time /\ q[i].time <= q[n].time
    <3>1. ASSUME NEW i \in 1..n
          PROVE  q[1].time <= q[i].time /\ q[i].time <= q[n].time
      <4>1. f[1] <= f[i] /\ f[i] <= f[n]
        <5>1. (1 = i \/ 1 < i) /\ (i = n \/ i < n)
          BY <1>2
        <5>2. f[1] \in Nat /\ f[i] \in Nat /\ f[n] \in Nat
          BY <1>2, <2>4
        <5> QED BY <1>2, <2>4, <5>1, <5>2
      <4>2. f[1] \in 1..Len(s) /\ f[i] \in 1..Len(s) /\ f[n] \in 1..Len(s)
        BY <1>2, <1>6, <2>4
      <4>3. s[f[1]].time <= s[f[i]].time /\ s[f[i]].time <= s[f[n]].time
        BY <4>1, <4>2 DEF InTime
      <4> QED BY <1>3, <2>4, <4>3
    <3> QED BY <3>1
  <2>6. ASSUME F!MqueueEnforce(q, max, span)
        PROVE  \A i, j \in last : s[i].text = s[j].text /\ s[j].time <= s[i].time + span
    <3>1. q[n].time - q[1].time <= span /\ \A i \in 1..n : q[i].text = q[n].text
      BY <1>9, <2>6 DEF F!MqueueEnforce
    <3>2. ASSUME NEW a \in 1..n, NEW b \in 1..n
          PROVE  s[f[a]].text = s[f[b]].text /\ s[f[b]].time <= s[f[a]].time + span
      <4>1. q[a].text = q[b].text
        BY <3>1
      <4>2. q[b].time <= q[n].time /\ q[1].time <= q[a].time
        BY <2>5
      <4>3. q[b].time <= q[a].time + span
        <5>1. q[b].time \in Nat /\ q[a].time \in Nat /\ q[n].time \in Nat /\ q[1].time \in Nat
          BY <2>4
        <5>2. q[n].time - q[1].time <= span
          BY <3>1
        <5>3. \A x, y, z, w \in Nat : x <= y /\ z <= w /\ y - z <= span => x <= w + span
          OBVIOUS
        <5> QED BY <4>2, <5>1, <5>2, <5>3
      <4> QED BY <1>3, <4>1, <4>3
    <3> QED BY <1>5, <2>2, <3>2
  <2>7. ASSUME \A i, j \in last : s[i].text = s[j].text /\ s[j].time <= s[i].time + span
        PROVE  F!MqueueEnforce(q, max, span)
    <3>1. \A a \in 1..n, b \in 1..n : q[a].text = q[b].text /\ q[b].time <= q[a].time + span
      <4> HIDE DEF last
      <4>1. ASSUME NEW a \in 1..n, NEW b \in 1..n
            PROVE  q[a].text = q[b].text /\ q[b].time <= q[a].time + span
        <5>1. s[f[a]].text = s[f[b]].text /\ s[f[b]].time <= s[f[a]].time + span
          BY <1>8, <2>7
        <5> QED BY <1>3, <5>1
      <4> QED BY <4>1
    <3>2. q[n].time - q[1].time <= span
      <4>1. q[n].time <= q[1].time + span
        BY <2>4, <3>1
      <4> QED BY <2>4, <4>1
    <3> QED BY <1>9, <2>4, <3>1, <3>2 DEF F!MqueueEnforce, n
  <2> QED BY <2>3, <2>6, <2>7 DEF RepeatedIn
<1>10. CASE n # max
  <2>1. ~ F!MqueueEnforce(q, max, span)
    BY <1>10 DEF F!MqueueEnforce, n
  <2>2. ASSUME RepeatedIn(s, P, max, span)
        PROVE  FALSE
    <3>1. /\ Cardinality(last) = max
          /\ \A i, j \in last : s[j].time <= s[i].time + span
      BY <2>2 DEF RepeatedIn
    <3>2. IsFiniteSet(last)
      BY <1>6, FS_Subset
    <3>3. PICK p \in last : p \notin Held
      <4>1. SUFFICES ASSUME last \subseteq Held
                     PROVE  FALSE
        OBVIOUS
      <4>2. Cardinality(last) <= Cardinality(Held)
        BY <1>5, <4>1, FS_Subset
      <4> QED BY <1>2, <1>5, <1>10, <3>1, <4>2
    <3>4. p \in P /\ s[p].time + FS_GC_EXPIRE_TIME <= t
      BY <1>4, <1>5, <1>10, <3>3
    <3>5. Len(s) \in last
      <4>1. After(Len(s)) = {}
        BY <1>2, <1>6
      <4>2. Cardinality(After(Len(s))) = 0
        BY <4>1, FS_EmptySet
      <4> QED BY <4>2
    <3>6. t <= s[p].time + span
      BY <3>1, <3>3, <3>5
    <3>7. s[p].time \in Nat
      BY <1>6, <3>4, SaidAre
    <3> QED BY <3>4, <3>6, <3>7, FloodsAssumption
  <2> QED BY <2>1, <2>2
<1> QED BY <1>9, <1>10

-----------------------------------------------------------------------------
\* What FsOnPrivmsg makes of the queues of the host, the channel and both, and
\* what it finds in them.
NetQueue(h, text) == F!MqueueAdd(entries["global"][h], text, FS_GMSG_COUNT)
AllQueue(c, text) == F!MqueueAdd(gqueue[c], text, FS_GMSG_COUNT)
OwnQueue(c, h, text) == F!MqueueAdd(entries[c][h], text, FS_MSG_COUNT)
Floods(h, text) == F!MqueueEnforce(NetQueue(h, text), FS_GMSG_COUNT, FS_GMSG_TIME)
Crowds(c, h, text) ==
  ~ Floods(h, text) /\ F!MqueueEnforce(AllQueue(c, text), FS_GMSG_COUNT, FS_GMSG_TIME)
Repeats(c, h, text) ==
  ~ Floods(h, text) /\ ~ Crowds(c, h, text) /\ F!MqueueEnforce(OwnQueue(c, h, text), FS_MSG_COUNT, FS_MSG_TIME)

\* The message m, as it is judged.
Judged(m, c, h, text) ==
  /\ m \in SaidMessages
  /\ m.host = h /\ m.chan = c /\ m.text = text /\ m.time = now
  /\ m.crowd <=> Crowds(c, h, text)
  /\ m.did \in IF Floods(h, text) THEN {"akilled before", "akilled", "killed"}
               ELSE IF Crowds(c, h, text) \/ Repeats(c, h, text) THEN {"quieted"} ELSE {"nothing"}

LEMMA HostsAre ==
  /\ \A u \in Speakers : Host[u] \in F!Hosts
  /\ \A h \in F!Hosts : h # Everyone
  /\ \A c \in Channels : c \in F!Tables /\ c # "global"
  /\ "global" \in F!Tables /\ \A t \in F!Tables : t = "global" \/ t \in Channels
BY FloodsAssumption DEF F!Hosts, F!Tables

LEMMA PrivmsgSays ==
  ASSUME FloodTyped, NEW u \in Speakers, NEW c \in Channels, NEW text \in Messages,
         F!FsOnPrivmsg(u, c, text)
  PROVE  \E m : said' = Append(said, m) /\ Judged(m, c, Host[u], text)
<1> DEFINE h == Host[u]
           flood == Floods(h, text)
           crowd == Crowds(c, h, text)
           repeat == Repeats(c, h, text)
           did == CASE flood /\ h \in akills -> "akilled before"
                    [] flood /\ h \notin akills /\ u \notin Tor -> "akilled"
                    [] flood /\ h \notin akills /\ u \in Tor -> "killed"
                    [] crowd \/ repeat -> "quieted"
                    [] OTHER -> "nothing"
           m == [host |-> h, chan |-> c, text |-> text, time |-> now, did |-> did, crowd |-> crowd]
<1>1. said' = Append(said, m)
  BY Zenon DEF F!FsOnPrivmsg, Floods, Crowds, Repeats, NetQueue, AllQueue, OwnQueue
<1>2. flood \in BOOLEAN /\ crowd \in BOOLEAN /\ repeat \in BOOLEAN
  BY DEF Floods, Crowds, Repeats, F!MqueueEnforce
<1>3. (crowd => ~flood) /\ (repeat => ~flood /\ ~crowd)
  BY DEF Crowds, Repeats
<1> HIDE DEF flood, crowd, repeat
<1>4. did \in IF flood THEN {"akilled before", "akilled", "killed"}
              ELSE IF crowd \/ repeat THEN {"quieted"} ELSE {"nothing"}
  <2>1. CASE flood /\ h \in akills
    BY <1>3, <2>1
  <2>2. CASE flood /\ h \notin akills /\ u \notin Tor
    BY <1>3, <2>2
  <2>3. CASE flood /\ h \notin akills /\ u \in Tor
    BY <1>3, <2>3
  <2>4. CASE ~flood /\ (crowd \/ repeat)
    BY <1>3, <2>4
  <2>5. CASE ~flood /\ ~ (crowd \/ repeat)
    BY <1>3, <2>5
  <2> QED BY <2>1, <2>2, <2>3, <2>4, <2>5
<1> HIDE DEF did
<1>5. h \in F!Hosts /\ now \in Nat
  BY HostsAre DEF FloodTyped
<1> HIDE DEF h
<1>6. did \in {"akilled before", "akilled", "killed", "quieted", "nothing"}
  BY <1>4
<1>7. m \in SaidMessages
  BY <1>2, <1>5, <1>6 DEF SaidMessages
<1>8. m.host = h /\ m.chan = c /\ m.text = text /\ m.time = now /\ m.crowd = crowd /\ m.did = did
  OBVIOUS
<1> HIDE DEF m
<1>9. Judged(m, c, h, text)
  BY <1>4, <1>7, <1>8 DEF Judged, flood, crowd, repeat
<1> QED BY <1>1, <1>9 DEF h

LEMMA PrivmsgMoves ==
  ASSUME FloodTyped, NEW u \in Speakers, NEW c \in Channels, NEW text \in Messages,
         F!FsOnPrivmsg(u, c, text),
         NetQueue(Host[u], text) \in Seq(Entries), AllQueue(c, text) \in Seq(Entries),
         OwnQueue(c, Host[u], text) \in Seq(Entries)
  PROVE  LET h == Host[u]
             Gone(t, g) == t \in {c, "global"} /\ g \in F!Lost(t, h)
         IN  /\ now' = now
             /\ entries' \in [F!Tables -> [F!Hosts -> Seq(Entries)]]
             /\ entries'["global"][h] = NetQueue(h, text)
             /\ entries'[c][h] = IF Floods(h, text) \/ Crowds(c, h, text) THEN entries[c][h]
                                                                     ELSE OwnQueue(c, h, text)
             /\ \A t \in F!Tables, g \in F!Hosts : t \notin {c, "global"} \/ g # h =>
                  entries'[t][g] = IF Gone(t, g) THEN <<>> ELSE entries[t][g]
             /\ gqueue' \in [Channels -> Seq(Entries)]
             /\ gqueue'[c] = IF Floods(h, text) THEN gqueue[c] ELSE AllQueue(c, text)
             /\ \A d \in Channels : d # c => gqueue'[d] = gqueue[d]
             /\ from' = [t \in F!Tables |-> [g \in F!Hosts \cup {Everyone} |->
                           IF Gone(t, g) THEN Len(said) + 1 ELSE from[t][g]]]
<1> DEFINE h == Host[u]
           Gone(t, g) == t \in {c, "global"} /\ g \in F!Lost(t, h)
           quiet == Floods(h, text) \/ Crowds(c, h, text)
           A == [F!Cut("global", F!Lost("global", h)) EXCEPT ![h] = NetQueue(h, text)]
           B == [F!Cut(c, F!Lost(c, h)) EXCEPT ![h] = IF quiet THEN @ ELSE OwnQueue(c, h, text)]
<1>1. /\ now' = now
      /\ entries' = [entries EXCEPT !["global"] = A, ![c] = B]
      /\ gqueue' = [gqueue EXCEPT ![c] = IF Floods(h, text) THEN @ ELSE AllQueue(c, text)]
      /\ from' = [t \in F!Tables |-> [g \in F!Hosts \cup {Everyone} |->
                    IF Gone(t, g) THEN Len(said) + 1 ELSE from[t][g]]]
  BY Zenon DEF F!FsOnPrivmsg, Floods, Crowds, NetQueue, AllQueue, OwnQueue
<1>2. /\ entries \in [F!Tables -> [F!Hosts -> Seq(Entries)]] /\ gqueue \in [Channels -> Seq(Entries)]
      /\ h \in F!Hosts /\ "global" \in F!Tables /\ c \in F!Tables /\ c # "global"
      /\ h \notin F!Lost("global", h) /\ h \notin F!Lost(c, h)
  BY HostsAre DEF FloodTyped, F!Lost
<1> DEFINE nq == NetQueue(h, text)
           oq == OwnQueue(c, h, text)
           X == F!Cut("global", F!Lost("global", h))
           Y == F!Cut(c, F!Lost(c, h))
<1>3. /\ X \in [F!Hosts -> Seq(Entries)] /\ Y \in [F!Hosts -> Seq(Entries)]
      /\ \A g \in F!Hosts : X[g] = IF g \in F!Lost("global", h) THEN <<>> ELSE entries["global"][g]
      /\ \A g \in F!Hosts : Y[g] = IF g \in F!Lost(c, h) THEN <<>> ELSE entries[c][g]
  <2>1. <<>> \in Seq(Entries)
    OBVIOUS
  <2> QED BY <1>2, <2>1, Zenon DEF F!Cut
<1>4. nq \in Seq(Entries) /\ oq \in Seq(Entries)
  OBVIOUS
<1> HIDE DEF nq, oq, X, Y, quiet
<1>5. A = [X EXCEPT ![h] = nq] /\ B = [Y EXCEPT ![h] = IF quiet THEN @ ELSE oq]
  BY DEF X, Y, nq, oq
<1> HIDE DEF A, B
<1>6. /\ A \in [F!Hosts -> Seq(Entries)] /\ A[h] = nq
      /\ \A g \in F!Hosts : g # h => A[g] = X[g]
  BY <1>2, <1>3, <1>4, <1>5
<1>7. /\ B \in [F!Hosts -> Seq(Entries)] /\ B[h] = IF quiet THEN Y[h] ELSE oq
      /\ \A g \in F!Hosts : g # h => B[g] = Y[g]
  BY <1>2, <1>3, <1>4, <1>5
<1>8. /\ entries' \in [F!Tables -> [F!Hosts -> Seq(Entries)]]
      /\ entries'["global"] = A /\ entries'[c] = B
      /\ \A t \in F!Tables : t \notin {c, "global"} => entries'[t] = entries[t]
  BY <1>1, <1>2, <1>6, <1>7
<1>9. /\ gqueue' \in [Channels -> Seq(Entries)]
      /\ gqueue'[c] = IF Floods(h, text) THEN gqueue[c] ELSE AllQueue(c, text)
      /\ \A d \in Channels : d # c => gqueue'[d] = gqueue[d]
  BY <1>1, <1>2
<1>10. entries'["global"][h] = nq /\ entries'[c][h] = IF quiet THEN entries[c][h] ELSE oq
  BY <1>2, <1>3, <1>6, <1>7, <1>8
<1>11. ASSUME NEW t \in F!Tables, NEW g \in F!Hosts, t \notin {c, "global"} \/ g # h
       PROVE  entries'[t][g] = IF Gone(t, g) THEN <<>> ELSE entries[t][g]
  <2>1. CASE t = "global"
    BY <1>3, <1>6, <1>8, <1>11, <2>1
  <2>2. CASE t = c
    BY <1>3, <1>7, <1>8, <1>11, <2>2
  <2>3. CASE t \notin {c, "global"}
    BY <1>8, <2>3
  <2> QED BY <2>1, <2>2, <2>3
<1> QED BY <1>1, <1>8, <1>9, <1>10, <1>11 DEF nq, oq, quiet

-----------------------------------------------------------------------------
\* What was said, and m.
More(s, m) == Append(s, m)

\* The places of a queue's messages after a message was said: its own count it.
LEMMA AppendedSaid ==
  ASSUME NEW s \in Seq(SaidMessages), NEW m \in SaidMessages
  PROVE  LET v == More(s, m)
         IN  /\ v \in Seq(SaidMessages) /\ Len(v) = Len(s) + 1 /\ Len(s) \in Nat
             /\ v[Len(s) + 1] = m /\ \A i \in 1..Len(s) : v[i] = s[i] /\ i \in Nat
             /\ 1..Len(v) = (1..Len(s)) \cup {Len(s) + 1} /\ Len(s) + 1 \notin 1..Len(s)
<1>1. More(s, m) \in Seq(SaidMessages) /\ Len(More(s, m)) = Len(s) + 1 /\ Len(s) \in Nat
      /\ More(s, m)[Len(s) + 1] = m /\ \A i \in 1..Len(s) : More(s, m)[i] = s[i]
  BY DEF More
<1>2. 1..(Len(s) + 1) = (1..Len(s)) \cup {Len(s) + 1} /\ Len(s) + 1 \notin 1..Len(s)
      /\ \A i \in 1..Len(s) : i \in Nat
  BY <1>1
<1> QED BY <1>1, <1>2

LEMMA SaidInTime ==
  ASSUME NEW s \in Seq(SaidMessages), now \in Nat, InTime(s, now), NEW m \in SaidMessages, m.time = now
  PROVE  InTime(More(s, m), now)
<1> DEFINE v == More(s, m)
           n == Len(s) + 1
<1>1. /\ v \in Seq(SaidMessages) /\ v[n] = m /\ 1..Len(v) = (1..Len(s)) \cup {n} /\ n \notin 1..Len(s)
      /\ \A i \in 1..Len(s) : v[i] = s[i] /\ i \in Nat /\ i < n
  <2>1. \A i \in 1..Len(s) : i \in Nat /\ i < n
    BY SaidAre
  <2>2. v \in Seq(SaidMessages) /\ v[n] = m /\ 1..Len(v) = (1..Len(s)) \cup {n} /\ n \notin 1..Len(s)
    BY AppendedSaid
  <2>3. \A i \in 1..Len(s) : v[i] = s[i]
    BY AppendedSaid
  <2> QED BY <2>1, <2>2, <2>3
<1>2. n \in Nat /\ now \in Nat /\ \A i \in 1..Len(s) : s[i].time \in Nat
  BY SaidAre
<1> HIDE DEF v, n
<1>3. ASSUME NEW i \in 1..Len(v)
      PROVE  v[i].time <= now
  BY <1>1, <1>2 DEF InTime
<1>4. ASSUME NEW i \in 1..Len(v), NEW j \in 1..Len(v), i <= j
      PROVE  v[i].time <= v[j].time
  <2>1. CASE j = n
    BY <1>1, <1>3, <2>1
  <2>2. CASE j # n
    <3>1. j \in 1..Len(s) /\ j < n /\ j \in Nat
      BY <1>1, <2>2
    <3>2. i # n
      BY <1>2, <1>4, <3>1
    <3>3. i \in 1..Len(s)
      BY <1>1, <3>2
    <3> QED BY <1>1, <1>4, <3>1, <3>3 DEF InTime
  <2> QED BY <2>1, <2>2
<1>5. InTime(v, now)
  BY <1>3, <1>4 DEF InTime
<1> QED BY <1>5 DEF v

\* The places of a queue after a message, if it begins where it did, or anew.
LEMMA NetworkGrows ==
  ASSUME NEW s \in Seq(SaidMessages), NEW m \in SaidMessages, NEW g, NEW a \in 1..Len(s) + 1
  PROVE  /\ Network(s, a, g) \subseteq 1..Len(s)
         /\ m.host = g => Network(More(s, m), a, g) = Network(s, a, g) \cup {Len(s) + 1}
         /\ m.host # g => Network(More(s, m), a, g) = Network(s, a, g)
         /\ m.host # g => Network(More(s, m), Len(s) + 1, g) = {}
<1> DEFINE v == More(s, m)
           n == Len(s) + 1
<1>1. v[n] = m /\ 1..Len(v) = (1..Len(s)) \cup {n} /\ n \notin 1..Len(s)
  BY AppendedSaid
<1>2. \A i \in 1..Len(s) : v[i] = s[i]
  BY AppendedSaid
<1>3. \A i \in 1..Len(s) : i \in Nat /\ i < n
  BY SaidAre
<1>4. a \in Nat /\ n >= a /\ n \in Nat
  BY SaidAre
<1> HIDE DEF v, n
<1>5. ASSUME m.host = g
      PROVE  Network(v, a, g) = Network(s, a, g) \cup {n}
  BY <1>1, <1>2, <1>4, <1>5 DEF Network
<1>6. ASSUME m.host # g
      PROVE  Network(v, a, g) = Network(s, a, g)
  BY <1>1, <1>2, <1>6 DEF Network
<1>7. ASSUME m.host # g
      PROVE  Network(v, n, g) = {}
  <2>1. \A i \in 1..Len(s) : ~ (i >= n)
    BY <1>3, <1>4
  <2> QED BY <1>1, <1>7, <2>1 DEF Network
<1>8. Network(s, a, g) \subseteq 1..Len(s)
  BY DEF Network
<1> QED BY <1>5, <1>6, <1>7, <1>8 DEF v, n

LEMMA ChannelGrows ==
  ASSUME NEW s \in Seq(SaidMessages), NEW m \in SaidMessages, NEW d, NEW a \in 1..Len(s) + 1
  PROVE  /\ Channel(s, a, d) \subseteq 1..Len(s)
         /\ Channel(More(s, m), a, d) =
              Channel(s, a, d) \cup (IF m.chan = d /\ m.did \in {"nothing", "quieted"} THEN {Len(s) + 1} ELSE {})
<1> DEFINE v == More(s, m)
           n == Len(s) + 1
<1>1. v[n] = m /\ 1..Len(v) = (1..Len(s)) \cup {n} /\ n \notin 1..Len(s)
  BY AppendedSaid
<1>2. \A i \in 1..Len(s) : v[i] = s[i]
  BY AppendedSaid
<1>3. n >= a
  BY SaidAre
<1> HIDE DEF v, n
<1>4. Channel(v, a, d) =
        Channel(s, a, d) \cup (IF m.chan = d /\ m.did \in {"nothing", "quieted"} THEN {n} ELSE {})
  BY <1>1, <1>2, <1>3 DEF Channel
<1>5. Channel(s, a, d) \subseteq 1..Len(s)
  BY DEF Channel
<1> QED BY <1>4, <1>5 DEF v, n

\* The message counts for the queue of the host g on the channel d.
OnesOwn(m, d, g) == m.chan = d /\ m.did \in {"nothing", "quieted"} /\ m.host = g /\ ~m.crowd

LEMMA OwnGrows ==
  ASSUME NEW s \in Seq(SaidMessages), NEW m \in SaidMessages, NEW d, NEW g,
         NEW a \in 1..Len(s) + 1, NEW b \in 1..Len(s) + 1
  PROVE  /\ Own(s, a, b, d, g) \subseteq 1..Len(s)
         /\ OnesOwn(m, d, g) =>
              Own(More(s, m), a, b, d, g) = Own(s, a, b, d, g) \cup {Len(s) + 1}
         /\ ~ OnesOwn(m, d, g) =>
              Own(More(s, m), a, b, d, g) = Own(s, a, b, d, g)
         /\ m.host # g => Own(More(s, m), a, Len(s) + 1, d, g) = {}
<1> DEFINE v == More(s, m)
           n == Len(s) + 1
           P == Channel(s, a, d)
           Q == Channel(v, a, d)
           yes == m.chan = d /\ m.did \in {"nothing", "quieted"}
<1>1. v[n] = m /\ n \notin 1..Len(s) /\ \A i \in 1..Len(s) : v[i] = s[i]
  BY AppendedSaid
<1>2. \A i \in 1..Len(s) : i \in Nat /\ i < n
  BY SaidAre
<1>3. n >= b /\ n \in Nat
  BY SaidAre
<1>4. P \subseteq 1..Len(s) /\ Q = P \cup (IF yes THEN {n} ELSE {})
  BY ChannelGrows
<1>5. Own(s, a, b, d, g) = {i \in P : i >= b /\ s[i].host = g /\ ~s[i].crowd}
  BY DEF Own
<1>6. \A e : Own(v, a, e, d, g) = {i \in Q : i >= e /\ v[i].host = g /\ ~v[i].crowd}
  BY DEF Own
<1> HIDE DEF v, n, P, Q, yes
<1>7. Own(s, a, b, d, g) \subseteq 1..Len(s)
  BY <1>4, <1>5
<1>8. \A i \in P : i \in 1..Len(s) /\ v[i] = s[i]
  BY <1>1, <1>4
<1>9. ASSUME yes, m.host = g, ~m.crowd
      PROVE  Own(v, a, b, d, g) = Own(s, a, b, d, g) \cup {n}
  <2>1. Q = P \cup {n}
    BY <1>4, <1>9
  <2>2. Own(v, a, b, d, g) = {i \in Q : i >= b /\ v[i].host = g /\ ~v[i].crowd}
    BY <1>6
  <2> QED BY <1>1, <1>3, <1>5, <1>8, <1>9, <2>1, <2>2
<1>10. ASSUME ~ (yes /\ m.host = g /\ ~m.crowd)
       PROVE  Own(v, a, b, d, g) = Own(s, a, b, d, g)
  <2>1. Own(v, a, b, d, g) = {i \in Q : i >= b /\ v[i].host = g /\ ~v[i].crowd}
    BY <1>6
  <2> QED BY <1>1, <1>4, <1>5, <1>8, <1>10, <2>1
<1>11. ASSUME m.host # g
       PROVE  Own(v, a, n, d, g) = {}
  <2>1. \A i \in P : ~ (i >= n)
    BY <1>2, <1>3, <1>4
  <2> QED BY <1>1, <1>4, <1>6, <1>11, <2>1
<1> QED BY <1>7, <1>9, <1>10, <1>11 DEF v, n, yes, OnesOwn

-----------------------------------------------------------------------------
\* FloodsAreStopped of FloodQueues, of the messages s and the beginnings fr.
Stopped(s, fr) ==
  LET n == Len(s)
      x == s[n]
      network == {i \in fr["global"][x.host] .. n : s[i].host = x.host}
      spared == {i \in 1 .. n : i = n \/ s[i].did \in {"nothing", "quieted"}}
      start == fr[x.chan]
      channel == {i \in spared : s[i].chan = x.chan /\ i >= start[Everyone]}
      own == {i \in channel : s[i].host = x.host /\ i >= start[x.host]
                             /\ (i = n \/ ~s[i].crowd)}
  IN  n > 0 /\ start[Everyone] <= n =>
        x.did \in
          IF RepeatedIn(s, network, FS_GMSG_COUNT, FS_GMSG_TIME) THEN {"akilled", "akilled before", "killed"}
          ELSE IF \/ RepeatedIn(s, channel, FS_GMSG_COUNT, FS_GMSG_TIME)
                  \/ RepeatedIn(s, own, FS_MSG_COUNT, FS_MSG_TIME)
               THEN {"quieted"} ELSE {"nothing"}

LEMMA RepeatedIs ==
  ASSUME NEW S, NEW n, NEW span
  PROVE  /\ F!Repeated(S, n, span) <=> RepeatedIn(said, S, n, span)
         /\ F!Repeated(S, n, span)' <=> RepeatedIn(said', S, n, span)
BY DEF F!Repeated, RepeatedIn, F!Cardinality, Cardinality

LEMMA StoppedIs == (F!FloodsAreStopped <=> Stopped(said, from)) /\ (F!FloodsAreStopped' <=> Stopped(said', from'))
<1>1. F!FloodsAreStopped <=> Stopped(said, from)
  BY RepeatedIs, Zenon DEF F!FloodsAreStopped, Stopped
<1>2. F!FloodsAreStopped' <=> Stopped(said', from')
  BY RepeatedIs, Zenon DEF F!FloodsAreStopped, Stopped
<1> QED BY <1>1, <1>2

LEMMA JudgedStops ==
  ASSUME NEW v \in Seq(SaidMessages), NEW m, NEW fr, NEW c, NEW h, NEW text, Judged(m, c, h, text),
         v # <<>>, v[Len(v)] = m,
         fr["global"][h] \in 1..Len(v), fr[c][Everyone] \in 1..Len(v), fr[c][h] \in 1..Len(v),
         Floods(h, text) <=> RepeatedIn(v, Network(v, fr["global"][h], h), FS_GMSG_COUNT, FS_GMSG_TIME),
         ~ Floods(h, text) =>
           (Crowds(c, h, text) <=> RepeatedIn(v, Channel(v, fr[c][Everyone], c), FS_GMSG_COUNT, FS_GMSG_TIME)),
         ~ Floods(h, text) /\ ~ Crowds(c, h, text) =>
           (Repeats(c, h, text) <=> RepeatedIn(v, Own(v, fr[c][Everyone], fr[c][h], c, h), FS_MSG_COUNT, FS_MSG_TIME))
  PROVE  Stopped(v, fr)
<1> DEFINE n == Len(v)
           network == {i \in fr["global"][h] .. n : v[i].host = h}
           spared == {i \in 1 .. n : i = n \/ v[i].did \in {"nothing", "quieted"}}
           channel == {i \in spared : v[i].chan = c /\ i >= fr[c][Everyone]}
           own == {i \in channel : v[i].host = h /\ i >= fr[c][h] /\ (i = n \/ ~v[i].crowd)}
<1>1. n \in Nat /\ n > 0 /\ n \in 1..n
  BY EmptySeq, SaidAre
<1>2. m.host = h /\ m.chan = c /\ (m.crowd <=> Crowds(c, h, text))
  BY DEF Judged
<1>3. network = Network(v, fr["global"][h], h)
  BY <1>1 DEF Network
<1>4. ~ Floods(h, text) => m.did \in {"nothing", "quieted"}
  BY DEF Judged
<1>5. ~ Floods(h, text) => channel = Channel(v, fr[c][Everyone], c)
  BY <1>1, <1>2, <1>4 DEF Channel
<1>6. ~ Floods(h, text) /\ ~ Crowds(c, h, text) => own = Own(v, fr[c][Everyone], fr[c][h], c, h)
  <2> SUFFICES ASSUME ~ Floods(h, text), ~ Crowds(c, h, text)
               PROVE  own = Own(v, fr[c][Everyone], fr[c][h], c, h)
    OBVIOUS
  <2>1. channel = Channel(v, fr[c][Everyone], c) /\ ~ v[n].crowd
    BY <1>2, <1>5
  <2> HIDE DEF channel, n
  <2> QED BY <2>1 DEF Own
<1>7. m.did \in IF RepeatedIn(v, network, FS_GMSG_COUNT, FS_GMSG_TIME) THEN {"akilled", "akilled before", "killed"}
                ELSE IF \/ RepeatedIn(v, channel, FS_GMSG_COUNT, FS_GMSG_TIME)
                        \/ RepeatedIn(v, own, FS_MSG_COUNT, FS_MSG_TIME)
                     THEN {"quieted"} ELSE {"nothing"}
  <2> HIDE DEF network, channel, own
  <2>1. CASE Floods(h, text)
    BY <1>3, <2>1 DEF Judged
  <2>2. CASE ~ Floods(h, text) /\ Crowds(c, h, text)
    BY <1>3, <1>5, <2>2 DEF Judged
  <2>3. CASE ~ Floods(h, text) /\ ~ Crowds(c, h, text)
    BY <1>3, <1>5, <1>6, <2>3 DEF Judged
  <2> QED BY <2>1, <2>2, <2>3
<1> QED BY <1>2, <1>7, Zenon DEF Stopped

LEMMA PrivmsgKeeps ==
  ASSUME FloodInv, NEW u \in Speakers, NEW c \in Channels, NEW text \in Messages,
         F!FsOnPrivmsg(u, c, text)
  PROVE  FloodInv'
<1> DEFINE h == Host[u]
           n == Len(said) + 1
<1>1. FloodTyped
  BY DEF FloodInv
<1>2. PICK m : said' = Append(said, m) /\ Judged(m, c, h, text)
  BY <1>1, PrivmsgSays
<1>3. /\ h \in F!Hosts /\ h # Everyone /\ c \in F!Tables /\ c # "global" /\ "global" \in F!Tables
      /\ now \in Nat /\ said \in Seq(SaidMessages) /\ InTime(said, now)
      /\ entries \in [F!Tables -> [F!Hosts -> Seq(Entries)]] /\ gqueue \in [Channels -> Seq(Entries)]
      /\ from \in [F!Tables -> [F!Hosts \cup {Everyone} -> 1..n]]
  BY <1>1, HostsAre DEF FloodTyped
<1>4. m \in SaidMessages /\ m.host = h /\ m.chan = c /\ m.text = text /\ m.time = now
  BY <1>2 DEF Judged
<1> HIDE DEF h
<1> DEFINE v == More(said, m)
<1>5. v \in Seq(SaidMessages) /\ Len(v) = n /\ n \in Nat /\ v[n] = m /\ v # <<>> /\ InTime(v, now)
  <2>1. InTime(v, now)
    BY <1>3, <1>4, SaidInTime
  <2>2. v \in Seq(SaidMessages) /\ Len(v) = n /\ n \in Nat /\ v[n] = m
    BY <1>3, <1>4, AppendedSaid
  <2>3. v # <<>>
    BY <2>2, <1>3, SaidAre
  <2> QED BY <2>1, <2>2, <2>3
<1>6. /\ FS_MSG_COUNT \in Nat \ {0} /\ FS_GMSG_COUNT \in Nat \ {0} /\ FS_MSG_TIME \in Nat /\ FS_GMSG_TIME \in Nat
      /\ FS_MSG_TIME < FS_GC_EXPIRE_TIME /\ FS_GMSG_TIME < FS_GC_EXPIRE_TIME
  BY FloodsAssumption
<1> DEFINE P == Network(said, from["global"][h], h)
           Q == Channel(said, from[c][Everyone], c)
           R == Own(said, from[c][Everyone], from[c][h], c, h)
<1>7. P \subseteq 1..Len(said) /\ Q \subseteq 1..Len(said) /\ R \subseteq 1..Len(said)
  BY DEF Network, Channel, Own
<1>8. /\ NetQueue(h, text) \in Seq(Entries) /\ NetQueue(h, text) # <<>>
      /\ Tracks(v, now, NetQueue(h, text), P \cup {n}, FS_GMSG_COUNT)
  <2>1. Tracks(said, now, entries["global"][h], P, FS_GMSG_COUNT)
    BY <1>3 DEF FloodInv
  <2>2. entries["global"][h] \in Seq(Entries)
    BY <1>3
  <2> HIDE DEF P
  <2> QED BY <1>3, <1>4, <1>6, <1>7, <2>1, <2>2, OneMoreTracks DEF NetQueue, More
<1>9. /\ AllQueue(c, text) \in Seq(Entries) /\ AllQueue(c, text) # <<>>
      /\ Tracks(v, now, AllQueue(c, text), Q \cup {n}, FS_GMSG_COUNT)
  <2>1. Tracks(said, now, gqueue[c], Q, FS_GMSG_COUNT)
    BY <1>3 DEF FloodInv
  <2>2. gqueue[c] \in Seq(Entries)
    BY <1>3
  <2> HIDE DEF Q
  <2> QED BY <1>3, <1>4, <1>6, <1>7, <2>1, <2>2, OneMoreTracks DEF AllQueue, More
<1>10. /\ OwnQueue(c, h, text) \in Seq(Entries) /\ OwnQueue(c, h, text) # <<>>
       /\ Tracks(v, now, OwnQueue(c, h, text), R \cup {n}, FS_MSG_COUNT)
  <2>1. Tracks(said, now, entries[c][h], R, FS_MSG_COUNT)
    BY <1>3 DEF FloodInv
  <2>2. entries[c][h] \in Seq(Entries)
    BY <1>3
  <2> HIDE DEF R
  <2> QED BY <1>3, <1>4, <1>6, <1>7, <2>1, <2>2, OneMoreTracks DEF OwnQueue, More
<1> DEFINE Gone(t, g) == t \in {c, "global"} /\ g \in F!Lost(t, h)
<1>11. /\ now' = now
       /\ entries' \in [F!Tables -> [F!Hosts -> Seq(Entries)]]
       /\ entries'["global"][h] = NetQueue(h, text)
       /\ entries'[c][h] = IF Floods(h, text) \/ Crowds(c, h, text) THEN entries[c][h] ELSE OwnQueue(c, h, text)
       /\ \A t \in F!Tables, g \in F!Hosts : t \notin {c, "global"} \/ g # h =>
            entries'[t][g] = IF Gone(t, g) THEN <<>> ELSE entries[t][g]
       /\ gqueue' \in [Channels -> Seq(Entries)]
       /\ gqueue'[c] = IF Floods(h, text) THEN gqueue[c] ELSE AllQueue(c, text)
       /\ \A d \in Channels : d # c => gqueue'[d] = gqueue[d]
       /\ from' = [t \in F!Tables |-> [g \in F!Hosts \cup {Everyone} |-> IF Gone(t, g) THEN n ELSE from[t][g]]]
  BY <1>1, <1>8, <1>9, <1>10, PrivmsgMoves DEF h
<1>12. /\ \A t \in F!Tables : ~ Gone(t, h) /\ ~ Gone(t, Everyone)
       /\ \A t \in F!Tables, g \in F!Hosts \cup {Everyone} :
            /\ from[t][g] \in 1..n
            /\ from'[t][g] = IF Gone(t, g) THEN n ELSE from[t][g]
            /\ Gone(t, g) => g \in F!Hosts /\ g # h
  <2>1. \A t \in F!Tables : \A g : Gone(t, g) => g \in F!Hosts /\ g # h
    BY DEF F!Lost
  <2>2. \A g \in F!Hosts : g # Everyone
    BY HostsAre
  <2> HIDE DEF Gone
  <2>3. \A t \in F!Tables : ~ Gone(t, h) /\ ~ Gone(t, Everyone)
    BY <2>1, <2>2
  <2>4. ASSUME NEW t \in F!Tables, NEW g \in F!Hosts \cup {Everyone}
        PROVE  /\ from[t][g] \in 1..n
               /\ from'[t][g] = IF Gone(t, g) THEN n ELSE from[t][g]
    <3>1. from[t][g] \in 1..n
      BY <1>3
    <3>2. from'[t][g] = IF Gone(t, g) THEN n ELSE from[t][g]
      BY <1>11
    <3> QED BY <3>1, <3>2
  <2> QED BY <2>1, <2>3, <2>4
<1> HIDE DEF v, Gone, n, P, Q, R
<1>s. said \in Seq(SaidMessages) /\ m \in SaidMessages /\ m.host = h /\ m.chan = c
  BY <1>3, <1>4
<1>13. FloodTyped'
  <2>1. from' \in [F!Tables -> [F!Hosts \cup {Everyone} -> 1..n + 1]]
    <3>1. \A t \in F!Tables, g \in F!Hosts \cup {Everyone} : (IF Gone(t, g) THEN n ELSE from[t][g]) \in 1..n + 1
      <4>1. n \in Nat /\ n \in 1..n + 1 /\ 1..n \subseteq 1..n + 1
        <5>1. n \in Nat /\ n # 0
          BY <1>3, SaidAre DEF n
        <5> QED BY <5>1
      <4> QED BY <1>12, <4>1
    <3> QED BY <1>11, <3>1
  <2>2. said' = v
    BY <1>2 DEF v, More
  <2>3. from' \in [F!Tables -> [F!Hosts \cup {Everyone} -> 1..Len(said') + 1]]
    BY <1>5, <2>1, <2>2
  <2>4. now' \in Nat /\ said' \in Seq(SaidMessages) /\ InTime(said', now')
    BY <1>3, <1>5, <1>11, <2>2
  <2> QED BY <1>11, <2>3, <2>4, Zenon DEF FloodTyped
<1>14. Network(v, from'["global"][h], h) = P \cup {n} /\ P \subseteq 1..Len(said)
  <2>1. from'["global"][h] = from["global"][h] /\ from["global"][h] \in 1..Len(said) + 1
    BY <1>3, <1>12 DEF n
  <2>2. /\ Network(said, from["global"][h], h) \subseteq 1..Len(said)
        /\ Network(v, from'["global"][h], h) = Network(said, from["global"][h], h) \cup {Len(said) + 1}
    BY <1>s, <2>1, NetworkGrows DEF v
  <2> QED BY <1>s, <2>2 DEF n, P
<1>15. Channel(v, from'[c][Everyone], c) = Q \cup (IF m.did \in {"nothing", "quieted"} THEN {n} ELSE {})
  <2>1. from'[c][Everyone] = from[c][Everyone] /\ from[c][Everyone] \in 1..Len(said) + 1
    BY <1>3, <1>12 DEF n
  <2> QED BY <1>s, <2>1, ChannelGrows DEF v, n, Q
<1>16. Own(v, from'[c][Everyone], from'[c][h], c, h) =
         R \cup (IF m.did \in {"nothing", "quieted"} /\ ~m.crowd THEN {n} ELSE {})
  <2> DEFINE a == from[c][Everyone]
             b == from[c][h]
  <2>1. from'[c][Everyone] = a /\ a \in 1..Len(said) + 1 /\ from'[c][h] = b /\ b \in 1..Len(said) + 1
    BY <1>3, <1>12 DEF n
  <2>2. R = Own(said, a, b, c, h)
    BY DEF R
  <2> HIDE DEF a, b
  <2>3. CASE m.did \in {"nothing", "quieted"} /\ ~m.crowd
    <3>1. OnesOwn(m, c, h)
      BY <1>s, <2>3 DEF OnesOwn
    <3>2. Own(v, a, b, c, h) = R \cup {n}
      BY <1>s, <2>1, <2>2, <3>1, OwnGrows DEF v, n
    <3> QED BY <2>1, <2>3, <3>2
  <2>4. CASE ~ (m.did \in {"nothing", "quieted"} /\ ~m.crowd)
    <3>1. ~ OnesOwn(m, c, h)
      BY <2>4 DEF OnesOwn
    <3>2. Own(v, a, b, c, h) = R
      BY <1>s, <2>1, <2>2, <3>1, OwnGrows DEF v, n
    <3> QED BY <2>1, <2>4, <3>2
  <2> QED BY <2>3, <2>4
<1>17. /\ Floods(h, text) => m.did \notin {"nothing", "quieted"}
       /\ ~ Floods(h, text) => m.did \in {"nothing", "quieted"}
       /\ m.crowd <=> Crowds(c, h, text)
  BY <1>2 DEF Judged
<1>18. F!FloodsAreStopped'
  <2>1. \A S : S \subseteq 1..Len(said) => S \cup {n} \subseteq 1..Len(v)
    BY <1>s, AppendedSaid DEF v, n
  <2>2. Floods(h, text) <=> RepeatedIn(v, P \cup {n}, FS_GMSG_COUNT, FS_GMSG_TIME)
    BY <1>3, <1>4, <1>5, <1>6, <1>7, <1>8, <2>1, QueueJudges DEF Floods
  <2>3. F!MqueueEnforce(AllQueue(c, text), FS_GMSG_COUNT, FS_GMSG_TIME) <=>
          RepeatedIn(v, Q \cup {n}, FS_GMSG_COUNT, FS_GMSG_TIME)
    BY <1>3, <1>4, <1>5, <1>6, <1>7, <1>9, <2>1, QueueJudges
  <2>4. F!MqueueEnforce(OwnQueue(c, h, text), FS_MSG_COUNT, FS_MSG_TIME) <=>
          RepeatedIn(v, R \cup {n}, FS_MSG_COUNT, FS_MSG_TIME)
    BY <1>3, <1>4, <1>5, <1>6, <1>7, <1>10, <2>1, QueueJudges
  <2>5. ~ Floods(h, text) =>
          (Crowds(c, h, text) <=> RepeatedIn(v, Channel(v, from'[c][Everyone], c), FS_GMSG_COUNT, FS_GMSG_TIME))
    BY <1>15, <1>17, <2>3 DEF Crowds
  <2>6. ~ Floods(h, text) /\ ~ Crowds(c, h, text) =>
          (Repeats(c, h, text) <=> RepeatedIn(v, Own(v, from'[c][Everyone], from'[c][h], c, h), FS_MSG_COUNT, FS_MSG_TIME))
    BY <1>16, <1>17, <2>4 DEF Repeats
  <2>7. Floods(h, text) <=> RepeatedIn(v, Network(v, from'["global"][h], h), FS_GMSG_COUNT, FS_GMSG_TIME)
    BY <1>14, <2>2
  <2>8. from'["global"][h] \in 1..Len(v) /\ from'[c][Everyone] \in 1..Len(v) /\ from'[c][h] \in 1..Len(v)
    BY <1>3, <1>5, <1>12
  <2>9. Stopped(v, from')
    BY <1>2, <1>5, <2>5, <2>6, <2>7, <2>8, JudgedStops
  <2>10. said' = v
    BY <1>2 DEF v, More
  <2> QED BY <2>9, <2>10, StoppedIs
<1>19. ASSUME NEW g \in F!Hosts
       PROVE  Tracks(v, now, entries'["global"][g], Network(v, from'["global"][g], g), FS_GMSG_COUNT)
  <2>1. CASE g = h
    BY <1>8, <1>11, <1>14, <2>1
  <2>2. CASE g # h /\ ~ Gone("global", g)
    <3>1. entries'["global"][g] = entries["global"][g]
      BY <1>3, <1>11, <2>2
    <3>2. from'["global"][g] = from["global"][g] /\ from["global"][g] \in 1..Len(said) + 1
      BY <1>3, <1>12, <2>2 DEF n
    <3>3. /\ Network(said, from["global"][g], g) \subseteq 1..Len(said)
          /\ Network(v, from'["global"][g], g) = Network(said, from["global"][g], g)
      BY <1>s, <2>2, <3>2, NetworkGrows DEF v
    <3>4. Tracks(said, now, entries["global"][g], Network(said, from["global"][g], g), FS_GMSG_COUNT)
      BY DEF FloodInv
    <3> QED BY <1>3, <1>4, <3>1, <3>3, <3>4, OthersTrack DEF v, More
  <2>3. CASE g # h /\ Gone("global", g)
    <3>1. entries'["global"][g] = <<>>
      BY <1>3, <1>11, <2>3
    <3>2. from'["global"][g] = Len(said) + 1 /\ from["global"][g] \in 1..Len(said) + 1
      BY <1>3, <1>12, <2>3 DEF n
    <3>3. Network(v, from'["global"][g], g) = {}
      BY <1>s, <2>3, <3>2, NetworkGrows DEF v
    <3>4. FS_GMSG_COUNT \in Nat
      BY <1>6
    <3> QED BY <3>1, <3>3, <3>4, NothingTracks
  <2> QED BY <2>1, <2>2, <2>3
<1>20. ASSUME NEW d \in Channels
       PROVE  Tracks(v, now, gqueue'[d], Channel(v, from'[d][Everyone], d), FS_GMSG_COUNT)
  <2>1. d \in F!Tables
    BY HostsAre
  <2>2. from'[d][Everyone] = from[d][Everyone] /\ from[d][Everyone] \in 1..Len(said) + 1
    BY <1>12, <2>1 DEF n
  <2>3. /\ Channel(said, from[d][Everyone], d) \subseteq 1..Len(said)
        /\ Channel(v, from'[d][Everyone], d) =
             Channel(said, from[d][Everyone], d) \cup (IF m.chan = d /\ m.did \in {"nothing", "quieted"} THEN {n} ELSE {})
    BY <1>s, <2>2, ChannelGrows DEF v, n
  <2>4. CASE d = c /\ ~ Floods(h, text)
    <3>1. Channel(v, from'[d][Everyone], d) = Q \cup {n}
      BY <1>15, <1>17, <2>4
    <3> QED BY <1>9, <1>11, <2>4, <3>1
  <2>5. CASE ~ (d = c /\ ~ Floods(h, text))
    <3>1. gqueue'[d] = gqueue[d]
      BY <1>11, <2>5
    <3>2. Channel(v, from'[d][Everyone], d) = Channel(said, from[d][Everyone], d)
      BY <1>4, <1>17, <2>3, <2>5
    <3>3. Tracks(said, now, gqueue[d], Channel(said, from[d][Everyone], d), FS_GMSG_COUNT)
      BY DEF FloodInv
    <3> QED BY <1>3, <1>4, <2>3, <3>1, <3>2, <3>3, OthersTrack DEF v, More
  <2> QED BY <2>4, <2>5
<1>21. ASSUME NEW d \in Channels, NEW g \in F!Hosts
       PROVE  Tracks(v, now, entries'[d][g], Own(v, from'[d][Everyone], from'[d][g], d, g), FS_MSG_COUNT)
  <2>1. d \in F!Tables /\ d # "global"
    BY HostsAre
  <2>2. /\ from'[d][Everyone] = from[d][Everyone] /\ from[d][Everyone] \in 1..Len(said) + 1
        /\ from[d][g] \in 1..Len(said) + 1
    BY <1>12, <2>1 DEF n
  <2>3. Tracks(said, now, entries[d][g], Own(said, from[d][Everyone], from[d][g], d, g), FS_MSG_COUNT)
    BY DEF FloodInv
  <2>4. CASE Gone(d, g)
    <3>1. d = c /\ g # h
      BY <1>12, <2>1, <2>4 DEF Gone
    <3>2. entries'[d][g] = <<>> /\ from'[d][g] = Len(said) + 1
      BY <1>11, <1>12, <2>1, <2>4, <3>1 DEF n
    <3>3. Own(v, from'[d][Everyone], from'[d][g], d, g) = {}
      BY <1>s, <2>2, <3>1, <3>2, OwnGrows DEF v
    <3>4. FS_MSG_COUNT \in Nat
      BY <1>6
    <3> QED BY <3>2, <3>3, <3>4, NothingTracks
  <2>5. CASE ~ Gone(d, g) /\ d = c /\ g = h /\ ~ Floods(h, text) /\ ~ Crowds(c, h, text)
    <3>1. entries'[d][g] = OwnQueue(c, h, text)
      BY <1>11, <2>5
    <3>2. Own(v, from'[d][Everyone], from'[d][g], d, g) = R \cup {n}
      BY <1>16, <1>17, <2>5
    <3> QED BY <1>10, <3>1, <3>2
  <2>6. CASE ~ Gone(d, g) /\ ~ (d = c /\ g = h /\ ~ Floods(h, text) /\ ~ Crowds(c, h, text))
    <3>1. entries'[d][g] = entries[d][g]
      BY <1>11, <2>1, <2>6
    <3>2. from'[d][g] = from[d][g]
      BY <1>12, <2>1, <2>6
    <3>3. ~ OnesOwn(m, d, g)
      BY <1>4, <1>17, <2>6 DEF OnesOwn
    <3>4. /\ Own(said, from[d][Everyone], from[d][g], d, g) \subseteq 1..Len(said)
          /\ Own(v, from'[d][Everyone], from'[d][g], d, g) = Own(said, from[d][Everyone], from[d][g], d, g)
      <4> DEFINE a == from[d][Everyone]
                 b == from[d][g]
      <4>1. from'[d][Everyone] = a /\ a \in 1..Len(said) + 1 /\ from'[d][g] = b /\ b \in 1..Len(said) + 1
        BY <2>2, <3>2
      <4> HIDE DEF a, b
      <4>2. Own(said, a, b, d, g) \subseteq 1..Len(said) /\ Own(v, a, b, d, g) = Own(said, a, b, d, g)
        BY <1>s, <3>3, <4>1, OwnGrows DEF v
      <4> QED BY <4>1, <4>2 DEF a, b
    <3> QED BY <1>3, <1>4, <2>3, <3>1, <3>4, OthersTrack DEF v, More
  <2> QED BY <2>4, <2>5, <2>6
<1> QED BY <1>2, <1>11, <1>13, <1>18, <1>19, <1>20, <1>21 DEF FloodInv, v, More

-----------------------------------------------------------------------------
LEMMA GcKeeps ==
  ASSUME FloodInv, F!FloodservGc
  PROVE  FloodInv'
<1> DEFINE used(q) == q # <<>> /\ now - q[Len(q)].time < FS_GC_EXPIRE_TIME
<1>1. /\ entries' = [t \in F!Tables |-> [h \in F!Hosts |-> IF used(entries[t][h]) THEN entries[t][h] ELSE <<>>]]
      /\ now' = now /\ gqueue' = gqueue /\ said' = said /\ from' = from
  BY DEF F!FloodservGc
<1>2. /\ now \in Nat /\ said \in Seq(SaidMessages) /\ InTime(said, now)
      /\ entries \in [F!Tables -> [F!Hosts -> Seq(Entries)]]
      /\ {FS_MSG_COUNT, FS_GMSG_COUNT} \subseteq Nat
  BY FloodsAssumption DEF FloodInv, FloodTyped
<1>3. ASSUME NEW q \in Seq(Entries), NEW P \in SUBSET (1..Len(said)), NEW max \in Nat,
             Tracks(said, now, q, P, max)
      PROVE  Tracks(said, now, IF used(q) THEN q ELSE <<>>, P, max)
  <2>1. CASE used(q) \/ q = <<>>
    BY <1>3, <2>1
  <2>2. CASE ~ (used(q) \/ q = <<>>)
    BY <1>2, <1>3, <2>2, FreedTracks
  <2> QED BY <2>1, <2>2
<1> HIDE DEF used
<1>4. ASSUME NEW t \in F!Tables, NEW h \in F!Hosts
      PROVE  /\ entries[t][h] \in Seq(Entries)
             /\ entries'[t][h] = IF used(entries[t][h]) THEN entries[t][h] ELSE <<>>
  BY <1>1, <1>2
<1>5. entries' \in [F!Tables -> [F!Hosts -> Seq(Entries)]]
  <2>1. \A t \in F!Tables, h \in F!Hosts :
          (IF used(entries[t][h]) THEN entries[t][h] ELSE <<>>) \in Seq(Entries)
    <3>1. <<>> \in Seq(Entries)
      OBVIOUS
    <3> QED BY <1>2, <3>1
  <2> QED BY <1>1, <2>1
<1>6. FloodTyped'
  BY <1>1, <1>5, Zenon DEF FloodInv, FloodTyped
<1>7. ASSUME NEW h \in F!Hosts
      PROVE  Tracks(said, now, entries'["global"][h], Network(said, from["global"][h], h), FS_GMSG_COUNT)
  <2>1. Network(said, from["global"][h], h) \subseteq 1..Len(said)
    BY DEF Network
  <2>2. Tracks(said, now, entries["global"][h], Network(said, from["global"][h], h), FS_GMSG_COUNT)
    BY DEF FloodInv
  <2> QED BY <1>2, <1>3, <1>4, <2>1, <2>2, HostsAre
<1>8. ASSUME NEW c \in Channels, NEW h \in F!Hosts
      PROVE  Tracks(said, now, entries'[c][h], Own(said, from[c][Everyone], from[c][h], c, h), FS_MSG_COUNT)
  <2>1. Own(said, from[c][Everyone], from[c][h], c, h) \subseteq 1..Len(said)
    BY DEF Own, Channel
  <2>2. Tracks(said, now, entries[c][h], Own(said, from[c][Everyone], from[c][h], c, h), FS_MSG_COUNT)
    BY DEF FloodInv
  <2>3. c \in F!Tables /\ FS_MSG_COUNT \in Nat
    BY <1>2, HostsAre
  <2>4. /\ entries[c][h] \in Seq(Entries)
        /\ entries'[c][h] = IF used(entries[c][h]) THEN entries[c][h] ELSE <<>>
    BY <1>4, <2>3
  <2> QED BY <1>3, <2>1, <2>2, <2>3, <2>4
<1>9. F!FloodsAreStopped'
  BY <1>1, StoppedIs DEF FloodInv
<1> QED BY <1>1, <1>6, <1>7, <1>8, <1>9 DEF FloodInv

LEMMA TickKeeps ==
  ASSUME FloodInv, F!Tick
  PROVE  FloodInv'
<1>1. /\ now' = now + 1 /\ UNCHANGED <<entries, gqueue, said, from>>
  BY DEF F!Tick
<1>2. now \in Nat /\ said \in Seq(SaidMessages) /\ InTime(said, now)
  BY DEF FloodInv, FloodTyped
<1>3. now' \in Nat
  BY <1>1, <1>2
<1>4. InTime(said, now')
  <2>1. \A i \in 1..Len(said) : said[i].time <= now => said[i].time <= now + 1
    BY <1>2, SaidAre
  <2> QED BY <1>1, <1>2, <2>1 DEF InTime
<1>5. FloodTyped'
  BY <1>1, <1>3, <1>4 DEF FloodInv, FloodTyped
<1>6. ASSUME NEW h \in F!Hosts
      PROVE  Tracks(said, now', entries["global"][h], Network(said, from["global"][h], h), FS_GMSG_COUNT)
  <2>1. Network(said, from["global"][h], h) \subseteq 1..Len(said)
    BY DEF Network
  <2>2. Tracks(said, now, entries["global"][h], Network(said, from["global"][h], h), FS_GMSG_COUNT)
    BY DEF FloodInv
  <2> QED BY <1>1, <1>2, <2>1, <2>2, LaterTracks
<1>7. ASSUME NEW c \in Channels
      PROVE  Tracks(said, now', gqueue[c], Channel(said, from[c][Everyone], c), FS_GMSG_COUNT)
  <2>1. Channel(said, from[c][Everyone], c) \subseteq 1..Len(said)
    BY DEF Channel
  <2>2. Tracks(said, now, gqueue[c], Channel(said, from[c][Everyone], c), FS_GMSG_COUNT)
    BY DEF FloodInv
  <2> QED BY <1>1, <1>2, <2>1, <2>2, LaterTracks
<1>8. ASSUME NEW c \in Channels, NEW h \in F!Hosts
      PROVE  Tracks(said, now', entries[c][h], Own(said, from[c][Everyone], from[c][h], c, h), FS_MSG_COUNT)
  <2>1. Own(said, from[c][Everyone], from[c][h], c, h) \subseteq 1..Len(said)
    BY DEF Own, Channel
  <2>2. Tracks(said, now, entries[c][h], Own(said, from[c][Everyone], from[c][h], c, h), FS_MSG_COUNT)
    BY DEF FloodInv
  <2> QED BY <1>1, <1>2, <2>1, <2>2, LaterTracks
<1>9. F!FloodsAreStopped'
  BY <1>1, StoppedIs DEF FloodInv
<1> QED BY <1>1, <1>5, <1>6, <1>7, <1>8, <1>9 DEF FloodInv

\* A queue that begins after all that was said is about nothing.
LEMMA NothingLater ==
  ASSUME NEW s \in Seq(SaidMessages), NEW a, NEW c, NEW h
  PROVE  /\ Network(s, Len(s) + 1, h) = {} /\ Channel(s, Len(s) + 1, c) = {}
         /\ Own(s, Len(s) + 1, a, c, h) = {}
<1>1. \A i \in 1..Len(s) : ~ (i >= Len(s) + 1)
  BY SaidAre
<1> QED BY <1>1 DEF Network, Channel, Own

LEMMA SetupKeeps ==
  ASSUME FloodInv, NEW c \in Channels, F!SetupChannel(c)
  PROVE  FloodInv'
<1> DEFINE n == Len(said) + 1
           begin == [h \in F!Hosts \cup {Everyone} |-> n]
           empty == [h \in F!Hosts |-> <<>>]
<1>1. /\ said # <<>> /\ now' = now /\ said' = said
      /\ entries' = [entries EXCEPT ![c] = empty]
      /\ gqueue' = [gqueue EXCEPT ![c] = <<>>]
      /\ from' = [from EXCEPT ![c] = begin]
  BY DEF F!SetupChannel
<1>2. /\ now \in Nat /\ said \in Seq(SaidMessages) /\ InTime(said, now)
      /\ entries \in [F!Tables -> [F!Hosts -> Seq(Entries)]] /\ gqueue \in [Channels -> Seq(Entries)]
      /\ from \in [F!Tables -> [F!Hosts \cup {Everyone} -> 1..n]]
      /\ FS_MSG_COUNT \in Nat /\ FS_GMSG_COUNT \in Nat
  BY FloodsAssumption DEF FloodInv, FloodTyped
<1>3. c \in F!Tables /\ c # "global" /\ "global" \in F!Tables /\ \A d \in Channels : d \in F!Tables
  BY HostsAre
<1>4. n \in Nat /\ n \in 1..n /\ Len(said) \in Nat
  BY <1>2, SaidAre
<1>5. begin \in [F!Hosts \cup {Everyone} -> 1..n] /\ empty \in [F!Hosts -> Seq(Entries)]
      /\ \A h \in F!Hosts : empty[h] = <<>> /\ begin[h] = n /\ begin[Everyone] = n
  <2>1. <<>> \in Seq(Entries)
    OBVIOUS
  <2> HIDE DEF n
  <2> QED BY <1>4, <2>1
<1>6. begin[Everyone] = n
  OBVIOUS
<1> HIDE DEF begin, empty, n
<1>7. /\ entries' \in [F!Tables -> [F!Hosts -> Seq(Entries)]] /\ gqueue' \in [Channels -> Seq(Entries)]
      /\ from' \in [F!Tables -> [F!Hosts \cup {Everyone} -> 1..n]]
  <2>1. <<>> \in Seq(Entries)
    OBVIOUS
  <2>2. gqueue' \in [Channels -> Seq(Entries)]
    BY <1>1, <1>2, <2>1
  <2>3. entries' \in [F!Tables -> [F!Hosts -> Seq(Entries)]]
    BY <1>1, <1>2, <1>5
  <2>4. from' \in [F!Tables -> [F!Hosts \cup {Everyone} -> 1..n]]
    BY <1>1, <1>2, <1>5
  <2> QED BY <2>2, <2>3, <2>4
<1>8. /\ entries'[c] = empty /\ gqueue'[c] = <<>> /\ from'[c] = begin
      /\ \A t \in F!Tables : t # c => entries'[t] = entries[t] /\ from'[t] = from[t]
      /\ \A d \in Channels : d # c => gqueue'[d] = gqueue[d]
  BY <1>1, <1>2, <1>3
<1>9. FloodTyped'
  BY <1>1, <1>2, <1>7 DEF FloodTyped, n
<1>10. ASSUME NEW h \in F!Hosts
       PROVE  Tracks(said, now, entries'["global"][h], Network(said, from'["global"][h], h), FS_GMSG_COUNT)
  BY <1>3, <1>8 DEF FloodInv
<1>11. ASSUME NEW d \in Channels
       PROVE  Tracks(said, now, gqueue'[d], Channel(said, from'[d][Everyone], d), FS_GMSG_COUNT)
  <2>1. CASE d = c
    <3>1. Channel(said, from'[d][Everyone], d) = {}
      BY <1>2, <1>6, <1>8, <2>1, NothingLater DEF n
    <3> QED BY <1>2, <1>8, <2>1, <3>1, NothingTracks
  <2>2. CASE d # c
    BY <1>3, <1>8, <2>2 DEF FloodInv
  <2> QED BY <2>1, <2>2
<1>12. ASSUME NEW d \in Channels, NEW h \in F!Hosts
       PROVE  Tracks(said, now, entries'[d][h], Own(said, from'[d][Everyone], from'[d][h], d, h), FS_MSG_COUNT)
  <2>1. CASE d = c
    <3>1. Own(said, from'[d][Everyone], from'[d][h], d, h) = {}
      BY <1>2, <1>6, <1>8, <2>1, NothingLater DEF n
    <3>2. entries'[d][h] = <<>>
      BY <1>5, <1>8, <2>1
    <3> QED BY <1>2, <3>1, <3>2, NothingTracks
  <2>2. CASE d # c
    BY <1>3, <1>8, <2>2 DEF FloodInv
  <2> QED BY <2>1, <2>2
<1>13. F!FloodsAreStopped'
  <2> DEFINE x == said[Len(said)]
  <2>1. x \in SaidMessages
    <3>1. Len(said) \in 1..Len(said)
      BY <1>1, <1>2, <1>4, EmptySeq
    <3> QED BY <1>2, <3>1, SaidAre
  <2>2. x.chan \in F!Tables /\ x.chan \in Channels
    BY <1>3, <2>1 DEF SaidMessages
  <2>3. Stopped(said, from)
    BY StoppedIs DEF FloodInv
  <2> HIDE DEF x
  <2>4. CASE x.chan = c
    <3>1. from'[x.chan][Everyone] = n /\ ~ (n <= Len(said))
      BY <1>4, <1>6, <1>8, <2>4 DEF n
    <3>2. Stopped(said, from')
      BY <3>1 DEF Stopped, x
    <3> QED BY <1>1, <3>2, StoppedIs
  <2>5. CASE x.chan # c
    <3>1. from'[x.chan] = from[x.chan] /\ from'["global"] = from["global"]
      BY <1>3, <1>8, <2>2, <2>5
    <3>2. Stopped(said, from')
      BY <2>3, <3>1, Zenon DEF Stopped, x
    <3> QED BY <1>1, <3>2, StoppedIs
  <2> QED BY <2>4, <2>5
<1> QED BY <1>1, <1>9, <1>10, <1>11, <1>12, <1>13 DEF FloodInv

LEMMA FloodInit ==
  ASSUME F!Init
  PROVE  FloodInv
<1>1. /\ now = 0 /\ said = <<>>
      /\ entries = [t \in F!Tables |-> [h \in F!Hosts |-> <<>>]]
      /\ gqueue = [c \in Channels |-> <<>>]
      /\ from = [t \in F!Tables |-> [h \in F!Hosts \cup {Everyone} |-> 1]]
  BY DEF F!Init
<1>2. Len(said) = 0 /\ said \in Seq(SaidMessages) /\ <<>> \in Seq(Entries) /\ 1..0 = {}
  BY <1>1
<1>3. FloodTyped
  <2>1. InTime(said, now)
    BY <1>2 DEF InTime
  <2>2. entries \in [F!Tables -> [F!Hosts -> Seq(Entries)]] /\ gqueue \in [Channels -> Seq(Entries)]
    BY <1>1, <1>2
  <2>3. from \in [F!Tables -> [F!Hosts \cup {Everyone} -> 1..Len(said) + 1]]
    <3>1. 1 \in 1..Len(said) + 1
      BY <1>2
    <3> QED BY <1>1, <3>1
  <2> QED BY <1>1, <1>2, <2>1, <2>2, <2>3 DEF FloodTyped
<1>4. F!FloodsAreStopped
  <2>1. Stopped(said, from)
    <3>1. ~ (Len(said) > 0)
      BY <1>2
    <3> QED BY <3>1, Zenon DEF Stopped
  <2> QED BY <2>1, StoppedIs
<1>5. ASSUME NEW P, P \subseteq 1..Len(said), NEW max \in Nat
      PROVE  Tracks(said, now, <<>>, P, max)
  BY <1>2, <1>5, NothingTracks
<1>6. FS_MSG_COUNT \in Nat /\ FS_GMSG_COUNT \in Nat
  BY FloodsAssumption
<1>7. ASSUME NEW h \in F!Hosts
      PROVE  Tracks(said, now, entries["global"][h], Network(said, from["global"][h], h), FS_GMSG_COUNT)
  <2>1. entries["global"][h] = <<>>
    BY <1>1, HostsAre
  <2> QED BY <1>5, <1>6, <2>1 DEF Network
<1>8. ASSUME NEW c \in Channels
      PROVE  Tracks(said, now, gqueue[c], Channel(said, from[c][Everyone], c), FS_GMSG_COUNT)
  <2>1. gqueue[c] = <<>>
    BY <1>1
  <2> QED BY <1>5, <1>6, <2>1 DEF Channel
<1>9. ASSUME NEW c \in Channels, NEW h \in F!Hosts
      PROVE  Tracks(said, now, entries[c][h], Own(said, from[c][Everyone], from[c][h], c, h), FS_MSG_COUNT)
  <2>1. entries[c][h] = <<>>
    BY <1>1, HostsAre
  <2>2. Own(said, from[c][Everyone], from[c][h], c, h) \subseteq 1..Len(said)
    BY DEF Own, Channel
  <2> QED BY <1>5, <1>6, <2>1, <2>2
<1> QED BY <1>3, <1>4, <1>7, <1>8, <1>9 DEF FloodInv

LEMMA FloodNext ==
  ASSUME FloodInv, [F!Next]_(F!vars)
  PROVE  FloodInv'
<1>1. ASSUME NEW u \in Speakers, NEW c \in Channels, NEW text \in Messages, F!FsOnPrivmsg(u, c, text)
      PROVE  FloodInv'
  BY <1>1, PrivmsgKeeps
<1>2. CASE F!FloodservGc
  BY <1>2, GcKeeps
<1>3. CASE F!Tick
  BY <1>3, TickKeeps
<1>4. ASSUME NEW c \in Channels, F!SetupChannel(c)
      PROVE  FloodInv'
  BY <1>4, SetupKeeps
<1>5. CASE UNCHANGED F!vars
  <2>1. UNCHANGED <<now, entries, gqueue, said, from>>
    BY <1>5 DEF F!vars
  <2>2. F!FloodsAreStopped'
    BY <2>1, StoppedIs DEF FloodInv
  <2>3. FloodTyped'
    BY <2>1 DEF FloodInv, FloodTyped
  <2> QED BY <2>1, <2>2, <2>3 DEF FloodInv
<1> QED BY <1>1, <1>2, <1>3, <1>4, <1>5 DEF F!Next

LEMMA FloodMoves ==
  ASSUME [MCNext]_<<part, vars, cvars, tvars, fvars>>
  PROVE  [F!Next]_(F!vars)
BY DEF MCNext, fvars, F!vars

\* FloodsAreStopped, for any users, hosts, channels and messages, any counts and
\* times of the configuration, and any number of messages: the last message is
\* punished exactly if it makes a flood.
\* (fs_on_privmsg, mqueue_add_message, mqueue_enforce, hash_find_mqueue_host, floodserv_gc_routine)
THEOREM FloodsAreFound == MCSpec => []FloodsAreStopped
<1>1. MCInit => FloodInv
  BY FloodInit DEF MCInit
<1>2. FloodInv /\ [MCNext]_<<part, vars, cvars, tvars, fvars>> => FloodInv'
  BY FloodNext, FloodMoves
<1>3. FloodInv => FloodsAreStopped
  BY DEF FloodInv, FloodsAreStopped
<1> QED BY <1>1, <1>2, <1>3, PTL DEF MCSpec

-----------------------------------------------------------------------------
(* What a channel's modes are made of *)

\* What a letter is about, and what it leaves there.
Slot(l) == <<l.c, IF l.c \in {"o", "v"} THEN l.arg ELSE 0>>
Leaves(l) == IF l.dir = "-" THEN 0 ELSE IF l.c \in {"k", "l"} THEN l.arg ELSE 1
Bit(b) == IF b THEN 1 ELSE 0
\* What channel ch has there.
Has(ch, x) ==
  IF x[1] \in Simple THEN Bit(x[1] \in ch.mode)
  ELSE IF x[1] = "k" THEN ch.key
  ELSE IF x[1] = "l" THEN ch.limit
  ELSE IF x[1] = "o" THEN Bit(x[2] \in ch.ops)
  ELSE Bit(x[2] \in ch.voices)
Slots == ((Simple \cup {"k", "l"}) \X {0}) \cup ({"o", "v"} \X Members)

\* What holds of 0, and of n + 1 if of n, holds up to any number.
LEMMA Upwards ==
  ASSUME NEW n \in Nat, NEW good, 0 \in good, \A i \in 0..(n - 1) : i \in good => i + 1 \in good
  PROVE  \A i \in 0..n : i \in good
<1> DEFINE bad == {i \in 0..n : i \notin good}
<1>1. SUFFICES ASSUME bad # {} PROVE FALSE
  OBVIOUS
<1>2. bad \subseteq Nat
  OBVIOUS
<1> HIDE DEF bad
<1>3. PICK x \in bad : \A y \in bad : ~ (<<y, x>> \in OpToRel(<, Nat))
  BY <1>1, <1>2, NatLessThanWellFounded, WFMin
<1>4. \A y \in bad : ~ (y < x)
  BY <1>2, <1>3 DEF OpToRel
<1> USE DEF bad
<1>5. x \in 0..n /\ x \notin good /\ x # 0
  BY <1>3
<1>6. x - 1 \in 0..(n - 1) /\ x - 1 < x /\ (x - 1) + 1 = x
  BY <1>5
<1>7. x - 1 \in good
  BY <1>4, <1>6
<1> QED BY <1>5, <1>6, <1>7

\* Letters are about the slots, and leave numbers there.
LEMMA LetterIs ==
  ASSUME NEW l \in C!Letter
  PROVE  /\ Slot(l) \in Slots /\ Leaves(l) \in Nat
         /\ l.dir \in {"+", "-"} /\ l.c \in Simple \cup {"k", "l", "o", "v"}
         /\ l.c \in {"k", "l"} => l.arg \in Nat
         /\ l.c \in {"o", "v"} => l.arg \in Members
  BY ModesAssumption DEF C!Letter, Slot, Leaves, Slots

\* What there is in each slot.
LEMMA HasAt ==
  ASSUME NEW ch
  PROVE  /\ \A c \in Simple : Has(ch, <<c, 0>>) = Bit(c \in ch.mode)
         /\ Has(ch, <<"k", 0>>) = ch.key /\ Has(ch, <<"l", 0>>) = ch.limit
         /\ \A u \in Members : Has(ch, <<"o", u>>) = Bit(u \in ch.ops)
         /\ \A u \in Members : Has(ch, <<"v", u>>) = Bit(u \in ch.voices)
<1>1. \A c : <<c, 0>>[1] = c
  OBVIOUS
<1>2. \A c, u : <<c, u>>[1] = c /\ <<c, u>>[2] = u
  OBVIOUS
<1>3. "k" \notin Simple /\ "l" \notin Simple /\ "o" \notin Simple /\ "v" \notin Simple
  BY ModesAssumption
<1>4. \A c \in Simple : Has(ch, <<c, 0>>) = Bit(c \in ch.mode)
  BY <1>1 DEF Has
<1>5. Has(ch, <<"k", 0>>) = ch.key
  BY <1>1, <1>3 DEF Has
<1>6. Has(ch, <<"l", 0>>) = ch.limit
  BY <1>1, <1>3 DEF Has
<1>7. \A u \in Members : Has(ch, <<"o", u>>) = Bit(u \in ch.ops)
  BY <1>2, <1>3 DEF Has
<1>8. \A u \in Members : Has(ch, <<"v", u>>) = Bit(u \in ch.voices)
  BY <1>2, <1>3 DEF Has
<1> QED BY <1>4, <1>5, <1>6, <1>7, <1>8

\* The kinds of slots.
LEMMA SlotKinds ==
  ASSUME NEW x \in Slots
  PROVE  \/ \E c \in Simple : x = <<c, 0>>
         \/ x = <<"k", 0>> \/ x = <<"l", 0>>
         \/ \E u \in Members : x = <<"o", u>> \/ x = <<"v", u>>
  BY DEF Slots

LEMMA HasIs ==
  ASSUME NEW ch \in C!Modes, NEW x \in Slots
  PROVE  Has(ch, x) \in Nat
  BY ModesAssumption DEF C!Modes, Slots, Has, Bit

\* Channels that have the same everywhere are the same.
LEMMA SameEverywhere ==
  ASSUME NEW ch \in C!Modes, NEW other \in C!Modes, \A x \in Slots : Has(ch, x) = Has(other, x)
  PROVE  ch = other
<1>1. \A c \in Simple : (c \in ch.mode) <=> (c \in other.mode)
  <2>1. ASSUME NEW c \in Simple
        PROVE  Bit(c \in ch.mode) = Bit(c \in other.mode)
    <3>1. <<c, 0>> \in Slots
      BY DEF Slots
    <3> QED BY <3>1, HasAt
  <2> QED BY <2>1 DEF Bit
<1>2. ch.key = other.key /\ ch.limit = other.limit
  <2>1. <<"k", 0>> \in Slots /\ <<"l", 0>> \in Slots
    BY DEF Slots
  <2> QED BY <2>1, HasAt
<1>3. \A u \in Members : ((u \in ch.ops) <=> (u \in other.ops))
                         /\ ((u \in ch.voices) <=> (u \in other.voices))
  <2>1. ASSUME NEW u \in Members
        PROVE  Bit(u \in ch.ops) = Bit(u \in other.ops) /\ Bit(u \in ch.voices) = Bit(u \in other.voices)
    <3>1. <<"o", u>> \in Slots /\ <<"v", u>> \in Slots
      BY DEF Slots
    <3> QED BY <3>1, HasAt
  <2> QED BY <2>1 DEF Bit
<1>4. ch.mode \subseteq Simple /\ other.mode \subseteq Simple /\ ch.ops \subseteq Members
      /\ other.ops \subseteq Members /\ ch.voices \subseteq Members /\ other.voices \subseteq Members
  BY DEF C!Modes
<1>5. ch.mode = other.mode /\ ch.ops = other.ops /\ ch.voices = other.voices
  BY <1>1, <1>3, <1>4
<1> QED BY <1>2, <1>5 DEF C!Modes

\* A letter changes its slot, unless it is the second for a simple mode.
LEMMA ApplyIs ==
  ASSUME NEW ch \in C!Modes, NEW l \in C!Letter, NEW passed
  PROVE  /\ C!Apply(ch, l, passed) \in C!Modes
         /\ \A x \in Slots : Has(C!Apply(ch, l, passed), x) =
              IF Slot(l) = x /\ ~(l.c \in Simple /\ l.c \in passed) THEN Leaves(l) ELSE Has(ch, x)
<1> USE LetterIs, ModesAssumption
<1>1. CASE l.c \in Simple
  <2>1. C!Apply(ch, l, passed) = C!ApplySimple(ch, l, passed)
    BY <1>1 DEF C!Apply
  <2> QED BY <1>1, <2>1 DEF C!ApplySimple, C!Modes, Slots, Slot, Has, Leaves, Bit
<1>2. CASE l.c = "k"
  <2>1. C!Apply(ch, l, passed) = C!ApplyKey(ch, l)
    BY <1>2 DEF C!Apply
  <2> DEFINE new == C!ApplyKey(ch, l)
  <2>2. new \in C!Modes
    BY <1>2 DEF C!ApplyKey, C!Modes
  <2>3. ASSUME NEW x \in Slots
        PROVE  Has(new, x) = IF Slot(l) = x THEN Leaves(l) ELSE Has(ch, x)
    <3>1. new.mode = ch.mode /\ new.limit = ch.limit /\ new.ops = ch.ops /\ new.voices = ch.voices
      BY DEF C!ApplyKey, C!Modes
    <3>2. new.key = Leaves(l) /\ Slot(l) = <<"k", 0>>
      BY <1>2 DEF C!ApplyKey, C!Modes, Leaves, Slot
    <3> HIDE DEF new
    <3>3. CASE \E c \in Simple : x = <<c, 0>>
      BY <3>1, <3>2, <3>3, HasAt
    <3>4. CASE x = <<"k", 0>>
      BY <3>1, <3>2, <3>4, HasAt
    <3>5. CASE x = <<"l", 0>>
      BY <3>1, <3>2, <3>5, HasAt
    <3>6. ASSUME NEW u \in Members, x = <<"o", u>>
          PROVE  Has(new, x) = IF Slot(l) = x THEN Leaves(l) ELSE Has(ch, x)
      BY <3>1, <3>2, <3>6, HasAt
    <3>7. ASSUME NEW u \in Members, x = <<"v", u>>
          PROVE  Has(new, x) = IF Slot(l) = x THEN Leaves(l) ELSE Has(ch, x)
      BY <3>1, <3>2, <3>7, HasAt
    <3> QED BY <3>3, <3>4, <3>5, <3>6, <3>7, SlotKinds
  <2> QED BY <1>2, <2>1, <2>2, <2>3
<1>3. CASE l.c = "l"
  <2>1. C!Apply(ch, l, passed) = C!ApplyLimit(ch, l)
    BY <1>3 DEF C!Apply
  <2> DEFINE new == C!ApplyLimit(ch, l)
  <2>2. new \in C!Modes
    BY <1>3 DEF C!ApplyLimit, C!Modes
  <2>3. ASSUME NEW x \in Slots
        PROVE  Has(new, x) = IF Slot(l) = x THEN Leaves(l) ELSE Has(ch, x)
    <3>1. new.mode = ch.mode /\ new.key = ch.key /\ new.ops = ch.ops /\ new.voices = ch.voices
      BY DEF C!ApplyLimit, C!Modes
    <3>2. new.limit = Leaves(l) /\ Slot(l) = <<"l", 0>>
      BY <1>3 DEF C!ApplyLimit, C!Modes, Leaves, Slot
    <3> HIDE DEF new
    <3>3. CASE \E c \in Simple : x = <<c, 0>>
      BY <3>1, <3>2, <3>3, HasAt
    <3>4. CASE x = <<"k", 0>>
      BY <3>1, <3>2, <3>4, HasAt
    <3>5. CASE x = <<"l", 0>>
      BY <3>1, <3>2, <3>5, HasAt
    <3>6. ASSUME NEW u \in Members, x = <<"o", u>>
          PROVE  Has(new, x) = IF Slot(l) = x THEN Leaves(l) ELSE Has(ch, x)
      BY <3>1, <3>2, <3>6, HasAt
    <3>7. ASSUME NEW u \in Members, x = <<"v", u>>
          PROVE  Has(new, x) = IF Slot(l) = x THEN Leaves(l) ELSE Has(ch, x)
      BY <3>1, <3>2, <3>7, HasAt
    <3> QED BY <3>3, <3>4, <3>5, <3>6, <3>7, SlotKinds
  <2> QED BY <1>3, <2>1, <2>2, <2>3
<1>4. CASE l.c = "o"
  <2>1. C!Apply(ch, l, passed) = C!ApplyOp(ch, l)
    BY <1>4 DEF C!Apply
  <2> DEFINE new == C!ApplyOp(ch, l)
  <2>2. new \in C!Modes
    BY <1>4 DEF C!ApplyOp, C!Modes
  <2>3. ASSUME NEW x \in Slots
        PROVE  Has(new, x) = IF Slot(l) = x THEN Leaves(l) ELSE Has(ch, x)
    <3>1. new.mode = ch.mode /\ new.key = ch.key /\ new.limit = ch.limit /\ new.voices = ch.voices
      BY DEF C!ApplyOp, C!Modes
    <3>2. /\ Slot(l) = <<"o", l.arg>>
          /\ \A u \in Members : Bit(u \in new.ops) = IF u = l.arg THEN Leaves(l) ELSE Bit(u \in ch.ops)
      BY <1>4 DEF C!ApplyOp, C!Modes, Leaves, Slot, Bit
    <3> HIDE DEF new
    <3>3. CASE \E c \in Simple : x = <<c, 0>>
      BY <3>1, <3>2, <3>3, HasAt
    <3>4. CASE x = <<"k", 0>>
      BY <3>1, <3>2, <3>4, HasAt
    <3>5. CASE x = <<"l", 0>>
      BY <3>1, <3>2, <3>5, HasAt
    <3>6. ASSUME NEW u \in Members, x = <<"o", u>>
          PROVE  Has(new, x) = IF Slot(l) = x THEN Leaves(l) ELSE Has(ch, x)
      BY <3>1, <3>2, <3>6, HasAt
    <3>7. ASSUME NEW u \in Members, x = <<"v", u>>
          PROVE  Has(new, x) = IF Slot(l) = x THEN Leaves(l) ELSE Has(ch, x)
      BY <3>1, <3>2, <3>7, HasAt
    <3> QED BY <3>3, <3>4, <3>5, <3>6, <3>7, SlotKinds
  <2> QED BY <1>4, <2>1, <2>2, <2>3
<1>5. CASE l.c = "v"
  <2>1. C!Apply(ch, l, passed) = C!ApplyVoice(ch, l)
    BY <1>5 DEF C!Apply
  <2> DEFINE new == C!ApplyVoice(ch, l)
  <2>2. new \in C!Modes
    BY <1>5 DEF C!ApplyVoice, C!Modes
  <2>3. ASSUME NEW x \in Slots
        PROVE  Has(new, x) = IF Slot(l) = x THEN Leaves(l) ELSE Has(ch, x)
    <3>1. new.mode = ch.mode /\ new.key = ch.key /\ new.limit = ch.limit /\ new.ops = ch.ops
      BY DEF C!ApplyVoice, C!Modes
    <3>2. /\ Slot(l) = <<"v", l.arg>>
          /\ \A u \in Members : Bit(u \in new.voices) = IF u = l.arg THEN Leaves(l) ELSE Bit(u \in ch.voices)
      BY <1>5 DEF C!ApplyVoice, C!Modes, Leaves, Slot, Bit
    <3> HIDE DEF new
    <3>3. CASE \E c \in Simple : x = <<c, 0>>
      BY <3>1, <3>2, <3>3, HasAt
    <3>4. CASE x = <<"k", 0>>
      BY <3>1, <3>2, <3>4, HasAt
    <3>5. CASE x = <<"l", 0>>
      BY <3>1, <3>2, <3>5, HasAt
    <3>6. ASSUME NEW u \in Members, x = <<"o", u>>
          PROVE  Has(new, x) = IF Slot(l) = x THEN Leaves(l) ELSE Has(ch, x)
      BY <3>1, <3>2, <3>6, HasAt
    <3>7. ASSUME NEW u \in Members, x = <<"v", u>>
          PROVE  Has(new, x) = IF Slot(l) = x THEN Leaves(l) ELSE Has(ch, x)
      BY <3>1, <3>2, <3>7, HasAt
    <3> QED BY <3>3, <3>4, <3>5, <3>6, <3>7, SlotKinds
  <2> QED BY <1>5, <2>1, <2>2, <2>3
<1> QED BY <1>1, <1>2, <1>3, <1>4, <1>5

-----------------------------------------------------------------------------
(* What a message does *)

\* f takes steps G one after another from base.
Chained(f, S, base, n, G) == f \in [0..n -> S] /\ f[0] = base /\ \A i \in 1..n : f[i] = G[i][f[i - 1]]
LEMMA ChainIs ==
  ASSUME NEW S, NEW base \in S, NEW n \in Nat, NEW G \in [1..n -> [S -> S]]
  PROVE  \E f : Chained(f, S, base, n, G)
<1> DEFINE Good(f, m) == f \in [0..m -> S] /\ f[0] = base /\ \A i \in 1..m : f[i] = G[i][f[i - 1]]
           good == {m \in 0..n : \E f : Good(f, m)}
<1>1. 0 \in good
  <2> DEFINE f == [i \in 0..0 |-> base]
  <2>1. f \in [0..0 -> S] /\ f[0] = base /\ \A i \in 1..0 : FALSE
    OBVIOUS
  <2> HIDE DEF f
  <2> QED BY <2>1
<1>2. ASSUME NEW m \in 0..(n - 1), m \in good
      PROVE  m + 1 \in good
  <2>1. PICK f : Good(f, m)
    BY <1>2
  <2>2. m \in Nat /\ m + 1 \in 1..n /\ m + 1 \in 0..n /\ (m + 1) - 1 = m
    OBVIOUS
  <2> DEFINE g == [i \in 0..(m + 1) |-> IF i = m + 1 THEN G[m + 1][f[m]] ELSE f[i]]
  <2>3. f[m] \in S /\ G[m + 1][f[m]] \in S
    BY <2>1, <2>2
  <2>4. g \in [0..(m + 1) -> S]
    BY <2>1, <2>3
  <2>5. g[0] = base
    BY <2>1, <2>2
  <2>6. \A i \in 1..(m + 1) : g[i] = G[i][g[i - 1]]
    BY <2>1, <2>2
  <2> HIDE DEF g
  <2>7. Good(g, m + 1)
    BY <2>4, <2>5, <2>6
  <2> QED BY <2>2, <2>7
<1> HIDE DEF good
<1>3. \A m \in 0..n : m \in good
  BY <1>1, <1>2, Upwards
<1>4. n \in good
  BY <1>3
<1> QED BY <1>4 DEF good, Chained

\* states has what channel ch is after each letter of ls.
Runs(states, ch, ls) ==
  /\ states \in [0..Len(ls) -> C!Modes]
  /\ states[0] = ch
  /\ \A n \in 1..Len(ls) : states[n] = C!Apply(states[n - 1], ls[n], C!Seen(ls, n - 1))

LEMMA ApplyAllRuns ==
  ASSUME NEW ch \in C!Modes, NEW ls \in Seq(C!Letter)
  PROVE  \E states : Runs(states, ch, ls) /\ C!ApplyAll(ch, ls) = states[Len(ls)]
<1> DEFINE G == [n \in 1..Len(ls) |-> [m \in C!Modes |-> C!Apply(m, ls[n], C!Seen(ls, n - 1))]]
<1>1. Len(ls) \in Nat /\ \A n \in 1..Len(ls) : ls[n] \in C!Letter
  OBVIOUS
<1>2. \A n \in 1..Len(ls) : \A m \in C!Modes : C!Apply(m, ls[n], C!Seen(ls, n - 1)) \in C!Modes
  BY <1>1, ApplyIs
<1>3. G \in [1..Len(ls) -> [C!Modes -> C!Modes]]
  BY <1>2
<1>4. \A n \in 1..Len(ls) : \A m \in C!Modes : G[n][m] = C!Apply(m, ls[n], C!Seen(ls, n - 1))
  OBVIOUS
<1> HIDE DEF G
<1>5. PICK f \in [0..Len(ls) -> C!Modes] : f[0] = ch /\ \A i \in 1..Len(ls) : f[i] = G[i][f[i - 1]]
  <2>1. \E f : Chained(f, C!Modes, ch, Len(ls), G)
    BY <1>1, <1>3, ChainIs
  <2> QED BY <2>1 DEF Chained
<1>6. \A n \in 1..Len(ls) : f[n] = C!Apply(f[n - 1], ls[n], C!Seen(ls, n - 1))
  <2> TAKE n \in 1..Len(ls)
  <2>1. n - 1 \in 0..Len(ls)
    BY <1>1
  <2> QED BY <1>4, <1>5, <2>1
<1> DEFINE Rec(g) == g = [n \in 0..Len(ls) |->
              IF n = 0 THEN ch ELSE C!Apply(g[n - 1], ls[n], C!Seen(ls, n - 1))]
           after == CHOOSE g : Rec(g)
<1>7. Rec(f)
  BY <1>5, <1>6
<1>8. Rec(after)
  BY <1>7
<1>9. C!ApplyAll(ch, ls) = after[Len(ls)]
  BY DEF C!ApplyAll
<1> HIDE DEF after
<1>10. after[0] = ch /\ \A n \in 1..Len(ls) : after[n] = C!Apply(after[n - 1], ls[n], C!Seen(ls, n - 1))
  BY <1>1, <1>8
<1> DEFINE same == {n \in 0..Len(ls) : after[n] = f[n]}
<1>11. 0 \in same
  BY <1>5, <1>10
<1>12. ASSUME NEW n \in 0..(Len(ls) - 1), n \in same
       PROVE  n + 1 \in same
  BY <1>1, <1>6, <1>10, <1>12
<1> HIDE DEF same
<1>13. \A n \in 0..Len(ls) : n \in same
  BY <1>1, <1>11, <1>12, Upwards
<1> USE DEF same
<1>14. after[Len(ls)] = f[Len(ls)]
  BY <1>1, <1>13
<1> QED BY <1>5, <1>6, <1>9, <1>14 DEF Runs

\* A message is about x; the letter of it that decides, and what that leaves.
Mentions(ls, x) == \E i \in 1..Len(ls) : Slot(ls[i]) = x
Decides(ls, x, k, n) ==
  /\ k \in 1..n /\ Slot(ls[k]) = x
  /\ \A j \in 1..n : Slot(ls[j]) = x => IF x[1] \in Simple THEN k <= j ELSE j <= k
Verdict(ls, x) == Leaves(ls[CHOOSE k \in 1..Len(ls) : Decides(ls, x, k, Len(ls))])

LEMMA ApplyAllIs ==
  ASSUME NEW ch \in C!Modes, NEW ls \in Seq(C!Letter)
  PROVE  /\ C!ApplyAll(ch, ls) \in C!Modes
         /\ \A x \in Slots : Has(C!ApplyAll(ch, ls), x) =
              IF Mentions(ls, x) THEN Verdict(ls, x) ELSE Has(ch, x)
         /\ \A x \in Slots : Mentions(ls, x) =>
              \E k \in 1..Len(ls) : Decides(ls, x, k, Len(ls)) /\ Verdict(ls, x) = Leaves(ls[k])
<1>1. PICK f : Runs(f, ch, ls) /\ C!ApplyAll(ch, ls) = f[Len(ls)]
  BY ApplyAllRuns
<1>2. Len(ls) \in Nat /\ \A n \in 1..Len(ls) : ls[n] \in C!Letter
  OBVIOUS
<1>3. /\ f[0] = ch /\ \A n \in 0..Len(ls) : f[n] \in C!Modes
      /\ \A n \in 1..Len(ls) : f[n] = C!Apply(f[n - 1], ls[n], C!Seen(ls, n - 1))
  BY <1>1 DEF Runs
<1>4. C!ApplyAll(ch, ls) \in C!Modes
  BY <1>1, <1>2, <1>3
<1>5. ASSUME NEW x \in Slots
      PROVE  /\ Has(C!ApplyAll(ch, ls), x) = IF Mentions(ls, x) THEN Verdict(ls, x) ELSE Has(ch, x)
             /\ Mentions(ls, x) =>
                  \E k \in 1..Len(ls) : Decides(ls, x, k, Len(ls)) /\ Verdict(ls, x) = Leaves(ls[k])
  <2> DEFINE good == {n \in 0..Len(ls) :
                \/ Has(f[n], x) = Has(ch, x) /\ \A j \in 1..n : Slot(ls[j]) # x
                \/ \E k \in 1..n : Decides(ls, x, k, n) /\ Has(f[n], x) = Leaves(ls[k])}
  <2>1. 0 \in good
    BY <1>2, <1>3
  <2>2. ASSUME NEW n \in 0..(Len(ls) - 1), n \in good
        PROVE  n + 1 \in good
    <3>1. n \in Nat /\ n + 1 \in 1..Len(ls) /\ (n + 1) - 1 = n
      BY <1>2
    <3> DEFINE l == ls[n + 1]
               m == f[n]
    <3>2. l \in C!Letter /\ m \in C!Modes /\ f[n + 1] = C!Apply(m, l, C!Seen(ls, n))
      BY <1>2, <1>3, <3>1
    <3>3. Has(f[n + 1], x) = IF Slot(l) = x /\ ~(l.c \in Simple /\ l.c \in C!Seen(ls, n))
                             THEN Leaves(l) ELSE Has(m, x)
      BY <3>2, ApplyIs
    <3>4. \A j \in 1..(n + 1) : j \in 1..n \/ j = n + 1
      BY <3>1
    <3>5. CASE Slot(l) # x
      <4>1. Has(f[n + 1], x) = Has(f[n], x)
        BY <3>3, <3>5
      <4>2. CASE Has(f[n], x) = Has(ch, x) /\ \A j \in 1..n : Slot(ls[j]) # x
        BY <3>1, <3>4, <3>5, <4>1, <4>2
      <4>3. ASSUME NEW k \in 1..n, Decides(ls, x, k, n), Has(f[n], x) = Leaves(ls[k])
            PROVE  n + 1 \in good
        <5>1. k \in 1..(n + 1) /\ Decides(ls, x, k, n + 1)
          BY <3>1, <3>4, <3>5, <4>3 DEF Decides
        <5> QED BY <3>1, <4>1, <4>3, <5>1
      <4> QED BY <2>2, <4>2, <4>3
    <3>6. CASE Slot(l) = x /\ l.c \in Simple /\ l.c \in C!Seen(ls, n)
      <4>1. PICK j \in 1..n : ls[j].c = l.c
        BY <3>6 DEF C!Seen
      <4>2. Slot(ls[j]) = x
        BY <3>6, <4>1, ModesAssumption DEF Slot
      <4>3. PICK k \in 1..n : Decides(ls, x, k, n) /\ Has(f[n], x) = Leaves(ls[k])
        BY <2>2, <4>2
      <4>4. x[1] \in Simple
        BY <3>6 DEF Slot
      <4>5. k \in 1..(n + 1) /\ Decides(ls, x, k, n + 1)
        BY <3>1, <3>4, <4>3, <4>4 DEF Decides
      <4>6. Has(f[n + 1], x) = Has(f[n], x)
        BY <3>3, <3>6
      <4> QED BY <3>1, <4>3, <4>5, <4>6
    <3>7. CASE Slot(l) = x /\ ~(l.c \in Simple /\ l.c \in C!Seen(ls, n))
      <4>1. Has(f[n + 1], x) = Leaves(l)
        BY <3>3, <3>7
      <4>2. x[1] = l.c
        BY <3>7 DEF Slot
      <4>3. CASE l.c \in Simple
        <5>1. \A j \in 1..n : Slot(ls[j]) # x
          <6>1. \A j \in 1..n : ls[j].c # l.c
            BY <3>7, <4>3 DEF C!Seen
          <6>2. \A j \in 1..n : Slot(ls[j])[1] = ls[j].c
            BY DEF Slot
          <6> QED BY <4>2, <6>1, <6>2
        <5>2. Decides(ls, x, n + 1, n + 1)
          BY <3>1, <3>4, <3>7, <5>1 DEF Decides
        <5> QED BY <3>1, <4>1, <5>2
      <4>4. CASE l.c \notin Simple
        <5>1. Decides(ls, x, n + 1, n + 1)
          BY <3>1, <3>4, <3>7, <4>2, <4>4 DEF Decides
        <5> QED BY <3>1, <4>1, <5>1
      <4> QED BY <4>3, <4>4
    <3> QED BY <3>5, <3>6, <3>7
  <2> HIDE DEF good
  <2>3. \A n \in 0..Len(ls) : n \in good
    BY <1>2, <2>1, <2>2, Upwards
  <2>4. Len(ls) \in good
    BY <1>2, <2>3
  <2> USE DEF good
  <2>5. CASE Mentions(ls, x)
    <3>1. PICK k \in 1..Len(ls) : Decides(ls, x, k, Len(ls)) /\ Has(f[Len(ls)], x) = Leaves(ls[k])
      BY <2>4, <2>5 DEF Mentions
    <3>2. \A i, j \in 1..Len(ls) : Decides(ls, x, i, Len(ls)) /\ Decides(ls, x, j, Len(ls)) => i = j
      BY <1>2 DEF Decides
    <3>3. (CHOOSE i \in 1..Len(ls) : Decides(ls, x, i, Len(ls))) = k
      BY <3>1, <3>2
    <3> QED BY <1>1, <2>5, <3>1, <3>3 DEF Verdict
  <2>6. CASE ~Mentions(ls, x)
    BY <1>1, <2>4, <2>6 DEF Mentions, Decides
  <2> QED BY <2>5, <2>6
<1> QED BY <1>4, <1>5

\* Letters that leave the same are one verdict, whatever their order.
LEMMA OneVerdict ==
  ASSUME NEW ls \in Seq(C!Letter), NEW x \in Slots, NEW v, Mentions(ls, x),
         \A i \in 1..Len(ls) : Slot(ls[i]) = x => Leaves(ls[i]) = v
  PROVE  Verdict(ls, x) = v
<1>1. C!NoModes \in C!Modes
  BY DEF C!NoModes, C!Modes
<1>2. PICK k \in 1..Len(ls) : Decides(ls, x, k, Len(ls)) /\ Verdict(ls, x) = Leaves(ls[k])
  BY <1>1, ApplyAllIs
<1> QED BY <1>2 DEF Decides

-----------------------------------------------------------------------------
(* What messages under way do *)

\* A set of places has a last one.
LEMMA HighestIsThere ==
  ASSUME NEW n \in Nat, NEW set, set \subseteq 1..n, set # {}
  PROVE  \E i \in set : \A j \in set : j <= i
<1> DEFINE good == {m \in 0..n : \/ \A j \in set : ~(j <= m)
                                 \/ \E i \in set : i <= m /\ \A j \in set : j <= m => j <= i}
<1>1. 0 \in good
  OBVIOUS
<1>2. ASSUME NEW m \in 0..(n - 1), m \in good
      PROVE  m + 1 \in good
  <2>1. m + 1 \in 0..n /\ m \in Nat
    OBVIOUS
  <2>2. CASE m + 1 \in set
    <3>1. \A j \in set : j <= m + 1 => j <= m + 1
      OBVIOUS
    <3> QED BY <2>1, <2>2, <3>1
  <2>3. CASE m + 1 \notin set
    <3>1. \A j \in set : j <= m + 1 <=> j <= m
      BY <2>1, <2>3
    <3> QED BY <1>2, <2>1, <3>1
  <2> QED BY <2>2, <2>3
<1> HIDE DEF good
<1>3. \A m \in 0..n : m \in good
  BY <1>1, <1>2, Upwards
<1>4. n \in good
  BY <1>3
<1> USE DEF good
<1>5. \A j \in set : j <= n
  OBVIOUS
<1> QED BY <1>4, <1>5

\* Messages q are about x; the last of them that is, and what it leaves.
Said(q, x) == \E i \in 1..Len(q) : Mentions(q[i], x)
LastOn(q, x, i) == i \in 1..Len(q) /\ Mentions(q[i], x) /\ \A j \in 1..Len(q) : Mentions(q[j], x) => j <= i
LastWord(q, x) == Verdict(q[CHOOSE i \in 1..Len(q) : LastOn(q, x, i)], x)
\* What v at x is after messages q.
WillHave(v, q, x) == IF Said(q, x) THEN LastWord(q, x) ELSE v

LEMMA LastWordIs ==
  ASSUME NEW q \in Seq(Seq(C!Letter)), NEW x, Said(q, x)
  PROVE  \E i \in 1..Len(q) : LastOn(q, x, i) /\ LastWord(q, x) = Verdict(q[i], x)
<1> DEFINE set == {i \in 1..Len(q) : Mentions(q[i], x)}
<1>1. Len(q) \in Nat /\ set \subseteq 1..Len(q) /\ set # {}
  BY DEF Said
<1> HIDE DEF set
<1>2. PICK i \in set : \A j \in set : j <= i
  BY <1>1, HighestIsThere
<1> USE DEF set
<1>3. LastOn(q, x, i)
  BY <1>2 DEF LastOn
<1>4. \A j, k \in 1..Len(q) : LastOn(q, x, j) /\ LastOn(q, x, k) => j = k
  BY <1>1 DEF LastOn
<1>5. (CHOOSE j \in 1..Len(q) : LastOn(q, x, j)) = i
  BY <1>2, <1>3, <1>4
<1> QED BY <1>2, <1>3, <1>5 DEF LastWord

\* Whatever says the same of x, the last word is that.
LEMMA LastWordOf ==
  ASSUME NEW q \in Seq(Seq(C!Letter)), NEW x, NEW i, LastOn(q, x, i)
  PROVE  Said(q, x) /\ LastWord(q, x) = Verdict(q[i], x)
<1>1. Said(q, x)
  BY DEF LastOn, Said
<1>2. PICK k \in 1..Len(q) : LastOn(q, x, k) /\ LastWord(q, x) = Verdict(q[k], x)
  BY <1>1, LastWordIs
<1>3. k = i
  BY <1>2 DEF LastOn
<1> QED BY <1>1, <1>2, <1>3

LEMMA WillHaveBoth ==
  ASSUME NEW q \in Seq(Seq(C!Letter)), NEW r \in Seq(Seq(C!Letter)), NEW x, NEW v
  PROVE  WillHave(v, q \o r, x) = WillHave(WillHave(v, q, x), r, x)
<1> DEFINE w == q \o r
<1>1. /\ w \in Seq(Seq(C!Letter)) /\ Len(q) \in Nat /\ Len(r) \in Nat
      /\ Len(w) = Len(q) + Len(r)
      /\ \A i \in 1..Len(q) : w[i] = q[i]
      /\ \A i \in 1..Len(r) : w[Len(q) + i] = r[i] /\ Len(q) + i \in 1..Len(w)
      /\ \A i \in 1..Len(w) : i \in 1..Len(q) \/ (i - Len(q) \in 1..Len(r) /\ Len(q) + (i - Len(q)) = i)
  OBVIOUS
<1> SUFFICES WillHave(v, w, x) = WillHave(WillHave(v, q, x), r, x)
  OBVIOUS
<1> HIDE DEF w
<1>2. CASE Said(r, x)
  <2>1. PICK i \in 1..Len(r) : LastOn(r, x, i) /\ LastWord(r, x) = Verdict(r[i], x)
    BY <1>2, LastWordIs
  <2>2. Len(q) + i \in 1..Len(w) /\ Mentions(w[Len(q) + i], x)
    BY <1>1, <2>1 DEF LastOn
  <2>3. ASSUME NEW j \in 1..Len(w), Mentions(w[j], x)
        PROVE  j <= Len(q) + i
    <3>1. CASE j \in 1..Len(q)
      BY <1>1, <3>1
    <3>2. CASE j - Len(q) \in 1..Len(r) /\ Len(q) + (j - Len(q)) = j
      <4>1. w[j] = r[j - Len(q)]
        BY <1>1, <3>2
      <4>2. j - Len(q) <= i
        BY <2>1, <2>3, <3>2, <4>1 DEF LastOn
      <4> QED BY <1>1, <4>2
    <3> QED BY <1>1, <3>1, <3>2
  <2>4. LastOn(w, x, Len(q) + i)
    BY <2>2, <2>3 DEF LastOn
  <2>5. LastWord(w, x) = Verdict(r[i], x) /\ Said(w, x)
    <3>1. w \in Seq(Seq(C!Letter)) /\ w[Len(q) + i] = r[i]
      BY <1>1
    <3>2. Said(w, x) /\ LastWord(w, x) = Verdict(w[Len(q) + i], x)
      BY <2>4, <3>1, LastWordOf
    <3> QED BY <3>1, <3>2
  <2> QED BY <1>2, <2>1, <2>5 DEF WillHave
<1>3. CASE ~Said(r, x) /\ Said(q, x)
  <2>1. PICK i \in 1..Len(q) : LastOn(q, x, i) /\ LastWord(q, x) = Verdict(q[i], x)
    BY <1>3, LastWordIs
  <2>2. i \in 1..Len(w) /\ Mentions(w[i], x)
    BY <1>1, <2>1 DEF LastOn
  <2>3. ASSUME NEW j \in 1..Len(w), Mentions(w[j], x)
        PROVE  j <= i
    <3>1. CASE j \in 1..Len(q)
      BY <1>1, <2>1, <2>3, <3>1 DEF LastOn
    <3>2. CASE j - Len(q) \in 1..Len(r) /\ Len(q) + (j - Len(q)) = j
      <4>1. w[j] = r[j - Len(q)]
        BY <1>1, <3>2
      <4> QED BY <1>3, <2>3, <3>2, <4>1 DEF Said
    <3> QED BY <1>1, <3>1, <3>2
  <2>4. LastOn(w, x, i)
    BY <2>2, <2>3 DEF LastOn
  <2>5. LastWord(w, x) = Verdict(q[i], x) /\ Said(w, x)
    <3>1. w \in Seq(Seq(C!Letter)) /\ w[i] = q[i]
      BY <1>1
    <3>2. Said(w, x) /\ LastWord(w, x) = Verdict(w[i], x)
      BY <2>4, <3>1, LastWordOf
    <3> QED BY <3>1, <3>2
  <2> QED BY <1>3, <2>1, <2>5 DEF WillHave
<1>4. CASE ~Said(r, x) /\ ~Said(q, x)
  <2>1. ~Said(w, x)
    BY <1>1, <1>4 DEF Said
  <2> QED BY <1>4, <2>1 DEF WillHave
<1> QED BY <1>2, <1>3, <1>4

\* One message, or none.
LEMMA WillHaveOne ==
  ASSUME NEW m \in Seq(C!Letter), NEW x, NEW v
  PROVE  /\ WillHave(v, <<m>>, x) = IF Mentions(m, x) THEN Verdict(m, x) ELSE v
         /\ WillHave(v, <<>>, x) = v
         /\ Said(<<m>>, x) <=> Mentions(m, x)
         /\ ~Said(<<>>, x)
<1>1. <<m>> \in Seq(Seq(C!Letter)) /\ Len(<<m>>) = 1 /\ <<m>>[1] = m /\ Len(<<>>) = 0
  OBVIOUS
<1>2. \A i : i \in 1..1 <=> i = 1
  OBVIOUS
<1>3. (Said(<<m>>, x) <=> Mentions(m, x)) /\ ~Said(<<>>, x)
  BY <1>1, <1>2 DEF Said
<1>4. Mentions(m, x) => LastOn(<<m>>, x, 1)
  BY <1>1, <1>2 DEF LastOn
<1>5. Mentions(m, x) => LastWord(<<m>>, x) = Verdict(m, x)
  BY <1>1, <1>4, LastWordOf
<1> QED BY <1>3, <1>5 DEF WillHave

LEMMA JoinedIs ==
  ASSUME NEW S, NEW q \in Seq(S), NEW r \in Seq(S)
  PROVE  /\ q \o r = <<>> <=> q = <<>> /\ r = <<>>
         /\ r = <<>> => q \o r = q
         /\ q = <<>> => q \o r = r
  OBVIOUS

LEMMA NothingSaid ==
  ASSUME NEW x
  PROVE  ~Said(<<>>, x) /\ \A v : WillHave(v, <<>>, x) = v
  BY DEF Said, WillHave

\* The network carries out the first of what is under way.
LEMMA WillHaveRest ==
  ASSUME NEW q \in Seq(Seq(C!Letter)), q # <<>>, NEW ch \in C!Modes, NEW x \in Slots
  PROVE  /\ Head(q) \in Seq(C!Letter) /\ Tail(q) \in Seq(Seq(C!Letter))
         /\ WillHave(Has(ch, x), q, x) = WillHave(Has(C!ApplyAll(ch, Head(q)), x), Tail(q), x)
<1>1. Head(q) \in Seq(C!Letter) /\ Tail(q) \in Seq(Seq(C!Letter)) /\ q = <<Head(q)>> \o Tail(q)
      /\ <<Head(q)>> \in Seq(Seq(C!Letter))
  OBVIOUS
<1>2. Has(C!ApplyAll(ch, Head(q)), x) = WillHave(Has(ch, x), <<Head(q)>>, x)
  BY <1>1, ApplyAllIs, WillHaveOne
<1> DEFINE one == <<Head(q)>>
           rest == Tail(q)
           v == Has(ch, x)
<1> HIDE DEF one, rest, v
<1>3. one \in Seq(Seq(C!Letter)) /\ rest \in Seq(Seq(C!Letter))
  BY <1>1 DEF one, rest
<1>4. WillHave(v, one \o rest, x) = WillHave(WillHave(v, one, x), rest, x)
  BY <1>3, WillHaveBoth
<1>5. WillHave(v, q, x) = WillHave(WillHave(v, one, x), rest, x)
  BY <1>1, <1>4 DEF one, rest
<1> QED BY <1>1, <1>2, <1>5 DEF one, rest, v

\* w is q with message m after it, unless that is empty.
Posted(q, m, w) ==
  /\ w \in Seq(Seq(C!Letter))
  /\ m = <<>> => w = q
  /\ m # <<>> => w # <<>>
  /\ w = <<>> => q = <<>>
  /\ \A x, v : WillHave(v, w, x) = IF Mentions(m, x) THEN Verdict(m, x) ELSE WillHave(v, q, x)
  /\ \A x : Said(w, x) <=> Said(q, x) \/ Mentions(m, x)
LEMMA PostIs ==
  ASSUME NEW q \in Seq(Seq(C!Letter)), NEW m \in Seq(C!Letter)
  PROVE  Posted(q, m, C!Post(q, m))
<1>1. CASE m = <<>>
  <2>1. C!Post(q, m) = q
    BY <1>1 DEF C!Post, C!If
  <2>2. \A x : ~Mentions(m, x)
    BY <1>1 DEF Mentions
  <2> QED BY <1>1, <2>1, <2>2 DEF Posted
<1>2. CASE m # <<>>
  <2>1. C!Post(q, m) = q \o <<m>> /\ <<m>> \in Seq(Seq(C!Letter))
    BY <1>2 DEF C!Post, C!If
  <2>2. /\ q \o <<m>> \in Seq(Seq(C!Letter)) /\ Len(q \o <<m>>) = Len(q) + 1 /\ Len(q) \in Nat
        /\ \A i \in 1..Len(q) : (q \o <<m>>)[i] = q[i]
        /\ (q \o <<m>>)[Len(q) + 1] = m
        /\ \A i \in 1..(Len(q) + 1) : i \in 1..Len(q) \/ i = Len(q) + 1
    OBVIOUS
  <2>3. q \o <<m>> # <<>>
    BY <2>2
  <2>4. \A x, v : WillHave(v, q \o <<m>>, x) = IF Mentions(m, x) THEN Verdict(m, x) ELSE WillHave(v, q, x)
    <3> DEFINE one == <<m>>
    <3> HIDE DEF one
    <3>1. one \in Seq(Seq(C!Letter))
      BY <2>1 DEF one
    <3>2. TAKE x, v
    <3>3. WillHave(v, q \o one, x) = WillHave(WillHave(v, q, x), one, x)
      BY <3>1, WillHaveBoth
    <3> QED BY <3>3, WillHaveOne DEF one
  <2> DEFINE w == q \o <<m>>
  <2> HIDE DEF w
  <2>5. \A x : Said(w, x) <=> Said(q, x) \/ Mentions(m, x)
    <3>1. /\ Len(w) = Len(q) + 1 /\ Len(q) \in Nat /\ \A i \in 1..Len(q) : w[i] = q[i] /\ i \in 1..Len(w)
          /\ w[Len(q) + 1] = m /\ Len(q) + 1 \in 1..Len(w)
          /\ \A i \in 1..Len(w) : i \in 1..Len(q) \/ i = Len(q) + 1
      BY <2>2 DEF w
    <3> QED BY <3>1 DEF Said
  <2> QED BY <1>2, <2>1, <2>2, <2>3, <2>4, <2>5 DEF w, Posted
<1> QED BY <1>1, <1>2

-----------------------------------------------------------------------------
(* What the lock sends *)

Among(s, l) == \E i \in 1..Len(s) : s[i] = l

LEMMA AmongBoth ==
  ASSUME NEW s \in Seq(C!Letter), NEW t \in Seq(C!Letter)
  PROVE  s \o t \in Seq(C!Letter) /\ \A l : Among(s \o t, l) <=> Among(s, l) \/ Among(t, l)
<1> DEFINE w == s \o t
<1>1. /\ w \in Seq(C!Letter) /\ Len(s) \in Nat /\ Len(t) \in Nat
      /\ Len(w) = Len(s) + Len(t)
      /\ \A i \in 1..Len(s) : w[i] = s[i] /\ i \in 1..Len(w)
      /\ \A i \in 1..Len(t) : w[Len(s) + i] = t[i] /\ Len(s) + i \in 1..Len(w)
      /\ \A i \in 1..Len(w) : i \in 1..Len(s) \/ (i - Len(s) \in 1..Len(t) /\ Len(s) + (i - Len(s)) = i)
  OBVIOUS
<1> SUFFICES w \in Seq(C!Letter) /\ \A l : Among(w, l) <=> Among(s, l) \/ Among(t, l)
  OBVIOUS
<1> HIDE DEF w
<1>2. ASSUME NEW l, Among(w, l)
      PROVE  Among(s, l) \/ Among(t, l)
  <2>1. PICK i \in 1..Len(w) : w[i] = l
    BY <1>2 DEF Among
  <2>2. CASE i \in 1..Len(s)
    BY <1>1, <2>1, <2>2 DEF Among
  <2>3. CASE i - Len(s) \in 1..Len(t) /\ Len(s) + (i - Len(s)) = i
    <3>1. t[i - Len(s)] = l
      BY <1>1, <2>1, <2>3
    <3> QED BY <2>3, <3>1 DEF Among
  <2> QED BY <1>1, <2>2, <2>3
<1>3. ASSUME NEW l, Among(s, l) \/ Among(t, l)
      PROVE  Among(w, l)
  <2>1. CASE Among(s, l)
    BY <1>1, <2>1 DEF Among
  <2>2. CASE Among(t, l)
    <3>1. PICK i \in 1..Len(t) : t[i] = l
      BY <2>2 DEF Among
    <3>2. w[Len(s) + i] = l /\ Len(s) + i \in 1..Len(w)
      BY <1>1, <3>1
    <3> QED BY <3>2 DEF Among
  <2> QED BY <1>3, <2>1, <2>2
<1> QED BY <1>1, <1>2, <1>3

LEMMA AmongIf ==
  ASSUME NEW b \in BOOLEAN, NEW l \in C!Letter
  PROVE  C!If(b, <<l>>) \in Seq(C!Letter) /\ \A m : Among(C!If(b, <<l>>), m) <=> b /\ m = l
<1>1. Len(<<>>) = 0 /\ Len(<<l>>) = 1 /\ <<l>>[1] = l /\ <<>> \in Seq(C!Letter) /\ <<l>> \in Seq(C!Letter)
  OBVIOUS
<1>2. CASE b = TRUE
  BY <1>1, <1>2 DEF Among, C!If
<1>3. CASE b = FALSE
  BY <1>1, <1>3 DEF Among, C!If
<1> QED BY <1>2, <1>3

\* A set as a sequence.
LEMMA SequenceOf ==
  ASSUME NEW S, IsFiniteSet(S)
  PROVE  C!SetToSeq(S) \in Seq(S) /\ \A l : Among(C!SetToSeq(S), l) <=> l \in S
<1> DEFINE n == Cardinality(S)
           f == C!SetToSeq(S)
<1>1. n \in Nat /\ \E g : g \in [1..n -> S] /\ \A a, b \in 1..n : g[a] = g[b] => a = b
  <2>1. n \in Nat /\ ExistsBijection(1..n, S)
    BY FS_CardinalityType
  <2>2. PICK g \in Injection(1..n, S) : TRUE
    BY <2>1 DEF ExistsBijection, Bijection
  <2>3. g \in [1..n -> S] /\ \A a, b \in 1..n : g[a] = g[b] => a = b
    BY <2>2 DEF Injection, IsInjective
  <2> QED BY <2>1, <2>3
<1>2. f \in [1..n -> S] /\ \A a, b \in 1..n : f[a] = f[b] => a = b
  <2>1. f = CHOOSE g \in [1..n -> S] : C!IsInjective(g)
    BY DEF C!SetToSeq, C!Cardinality, Cardinality
  <2> HIDE DEF n, f
  <2>2. PICK g : g \in [1..n -> S] /\ C!IsInjective(g)
    BY <1>1 DEF C!IsInjective
  <2>3. f \in [1..n -> S] /\ C!IsInjective(f)
    BY <2>1, <2>2
  <2> QED BY <2>3 DEF C!IsInjective
<1> HIDE DEF f
<1>3. ASSUME NEW y \in S, \A a \in 1..n : f[a] # y
      PROVE  FALSE
  <2>1. IsFiniteSet(S \ {y}) /\ Cardinality(S \ {y}) = n - 1
    BY FS_RemoveElement
  <2>2. IsFiniteSet(1..n) /\ Cardinality(1..n) = n
    BY <1>1, FS_Interval
  <2>3. f \in [1..n -> S \ {y}]
    BY <1>2, <1>3
  <2>4. \E a, b \in 1..n : a # b /\ f[a] = f[b]
    BY <1>1, <2>1, <2>2, <2>3, FS_PigeonHole
  <2> QED BY <1>2, <2>4
<1>4. f \in Seq(S) /\ Len(f) = n
  BY <1>1, <1>2
<1>5. \A l : Among(f, l) <=> l \in S
  BY <1>2, <1>3, <1>4 DEF Among
<1> QED BY <1>4, <1>5 DEF f

LEMMA ChangesAre ==
  ASSUME NEW d \in {"+", "-"}, NEW S \in SUBSET Simple
  PROVE  /\ C!Changes(d, S) \in Seq(C!Letter)
         /\ \A l : Among(C!Changes(d, S), l) <=> \E c \in S : l = C!Change(d, c, 0)
<1> DEFINE L == {C!Change(d, c, 0) : c \in S}
<1>1. IsFiniteSet(S)
  BY ModesAssumption, FS_Subset
<1>2. IsFiniteSet(L)
  <2>1. [c \in S |-> C!Change(d, c, 0)] \in Surjection(S, L)
    BY DEF Surjection
  <2> QED BY <1>1, <2>1, FS_Surjection
<1>3. L \subseteq C!Letter
  BY DEF C!Change, C!Letter
<1>4. C!SetToSeq(L) \in Seq(L) /\ \A l : Among(C!SetToSeq(L), l) <=> l \in L
  BY <1>2, SequenceOf
<1>5. C!SetToSeq(L) \in Seq(C!Letter)
  BY <1>3, <1>4
<1> QED BY <1>4, <1>5 DEF C!Changes

\* The letters of what SetMlock and Enforced send.
IsSent(lk, on, off, noargs, l) ==
  \/ \E c \in off : l = C!Change("-", c, 0)
  \/ lk.key = C!Off /\ C!FitsK(off) /\ l = C!Change("-", "k", 0)
  \/ lk.limit = C!Off /\ C!FitsL(lk, off) /\ l = C!Change("-", "l", 0)
  \/ \E c \in on : l = C!Change("+", c, 0)
  \/ lk.limit \in Args /\ ~noargs /\ l = C!Change("+", "l", lk.limit)
  \/ lk.key \in Args /\ ~noargs /\ l = C!Change("+", "k", lk.key)

LEMMA SentAre ==
  ASSUME NEW lk \in C!Lock, NEW on \in SUBSET Simple, NEW off \in SUBSET Simple, NEW noargs \in BOOLEAN
  PROVE  /\ C!Sent(lk, on, off, noargs) \in Seq(C!Letter)
         /\ \A l : Among(C!Sent(lk, on, off, noargs), l) <=> IsSent(lk, on, off, noargs, l)
<1>1. /\ C!Change("-", "k", 0) \in C!Letter /\ C!Change("-", "l", 0) \in C!Letter
  BY DEF C!Change, C!Letter
<1>2. \A n \in Args : C!Change("+", "l", n) \in C!Letter /\ C!Change("+", "k", n) \in C!Letter
  BY ModesAssumption DEF C!Change, C!Letter
<1> DEFINE a == C!Changes("-", off)
           b == C!If(lk.key = C!Off /\ C!FitsK(off), <<C!Change("-", "k", 0)>>)
           c == C!If(lk.limit = C!Off /\ C!FitsL(lk, off), <<C!Change("-", "l", 0)>>)
           d == C!Changes("+", on)
           e == C!If(lk.limit \in Args /\ ~noargs, <<C!Change("+", "l", lk.limit)>>)
           f == C!If(lk.key \in Args /\ ~noargs, <<C!Change("+", "k", lk.key)>>)
<1>3. a \in Seq(C!Letter) /\ \A l : Among(a, l) <=> \E x \in off : l = C!Change("-", x, 0)
  BY ChangesAre
<1>4. b \in Seq(C!Letter) /\ \A l : Among(b, l) <=> lk.key = C!Off /\ C!FitsK(off) /\ l = C!Change("-", "k", 0)
  BY <1>1, AmongIf
<1>5. c \in Seq(C!Letter) /\ \A l : Among(c, l) <=> lk.limit = C!Off /\ C!FitsL(lk, off) /\ l = C!Change("-", "l", 0)
  BY <1>1, AmongIf
<1>6. d \in Seq(C!Letter) /\ \A l : Among(d, l) <=> \E x \in on : l = C!Change("+", x, 0)
  BY ChangesAre
<1>7. e \in Seq(C!Letter) /\ \A l : Among(e, l) <=> lk.limit \in Args /\ ~noargs /\ l = C!Change("+", "l", lk.limit)
  <2>1. CASE lk.limit \in Args
    BY <1>2, <2>1, AmongIf
  <2>2. CASE lk.limit \notin Args
    BY <2>2 DEF C!If, Among
  <2> QED BY <2>1, <2>2
<1>8. f \in Seq(C!Letter) /\ \A l : Among(f, l) <=> lk.key \in Args /\ ~noargs /\ l = C!Change("+", "k", lk.key)
  <2>1. CASE lk.key \in Args
    BY <1>2, <2>1, AmongIf
  <2>2. CASE lk.key \notin Args
    BY <2>2 DEF C!If, Among
  <2> QED BY <2>1, <2>2
<1>9. C!Sent(lk, on, off, noargs) = a \o b \o c \o d \o e \o f
  BY DEF C!Sent
<1> HIDE DEF a, b, c, d, e, f
<1>10. a \o b \in Seq(C!Letter) /\ \A l : Among(a \o b, l) <=> Among(a, l) \/ Among(b, l)
  BY <1>3, <1>4, AmongBoth
<1>11. a \o b \o c \in Seq(C!Letter) /\ \A l : Among(a \o b \o c, l) <=> Among(a \o b, l) \/ Among(c, l)
  BY <1>10, <1>5, AmongBoth
<1>12. a \o b \o c \o d \in Seq(C!Letter) /\ \A l : Among(a \o b \o c \o d, l) <=> Among(a \o b \o c, l) \/ Among(d, l)
  BY <1>11, <1>6, AmongBoth
<1>13. /\ a \o b \o c \o d \o e \in Seq(C!Letter)
       /\ \A l : Among(a \o b \o c \o d \o e, l) <=> Among(a \o b \o c \o d, l) \/ Among(e, l)
  BY <1>12, <1>7, AmongBoth
<1>14. /\ a \o b \o c \o d \o e \o f \in Seq(C!Letter)
       /\ \A l : Among(a \o b \o c \o d \o e \o f, l) <=> Among(a \o b \o c \o d \o e, l) \/ Among(f, l)
  BY <1>13, <1>8, AmongBoth
<1>15. ASSUME NEW l
       PROVE  Among(C!Sent(lk, on, off, noargs), l) <=> IsSent(lk, on, off, noargs, l)
  <2>1. Among(C!Sent(lk, on, off, noargs), l) <=>
          Among(a, l) \/ Among(b, l) \/ Among(c, l) \/ Among(d, l) \/ Among(e, l) \/ Among(f, l)
    BY <1>9, <1>10, <1>11, <1>12, <1>13, <1>14
  <2> QED BY <1>3, <1>4, <1>5, <1>6, <1>7, <1>8, <2>1 DEF IsSent
<1> QED BY <1>9, <1>14, <1>15

\* The lock is about x, and what it wants there.
LocksAt(lk, x) == \/ \E c \in lk.on \cup lk.off : x = <<c, 0>>
                  \/ x = <<"k", 0>> /\ lk.key # C!Unsaid
                  \/ x = <<"l", 0>> /\ lk.limit # C!Unsaid
Wanted(lk, x) == IF x = <<"k", 0>> THEN IF lk.key \in Args THEN lk.key ELSE 0
                 ELSE IF x = <<"l", 0>> THEN IF lk.limit \in Args THEN lk.limit ELSE 0
                 ELSE IF x[1] \in lk.on THEN 1 ELSE 0

LEMMA MentionsAre ==
  ASSUME NEW s \in Seq(C!Letter), NEW x
  PROVE  /\ Mentions(s, x) <=> \E l \in C!Letter : Among(s, l) /\ Slot(l) = x
         /\ s = <<>> => ~Mentions(s, x)
<1>1. \A i \in 1..Len(s) : s[i] \in C!Letter
  OBVIOUS
<1> QED BY <1>1 DEF Mentions, Among

LEMMA OneVerdictAmong ==
  ASSUME NEW s \in Seq(C!Letter), NEW x \in Slots, NEW v, Mentions(s, x),
         \A l \in C!Letter : Among(s, l) /\ Slot(l) = x => Leaves(l) = v
  PROVE  Verdict(s, x) = v
<1>1. \A i \in 1..Len(s) : s[i] \in C!Letter /\ Among(s, s[i])
  BY DEF Among
<1> QED BY <1>1, OneVerdict

LEMMA LockIs ==
  ASSUME NEW lk \in C!Lock
  PROVE  /\ lk.on \subseteq Simple /\ lk.off \subseteq Simple
         /\ lk.key \in Args \cup {C!Unsaid, C!Off} /\ lk.limit \in Args \cup {C!Unsaid, C!Off}
         /\ C!Off \notin Args /\ C!Unsaid \notin Args /\ C!Off # C!Unsaid
         /\ Args \subseteq Nat
<1>1. C!Off = -2 /\ C!Unsaid = -1
  BY DEF C!Off, C!Unsaid
<1> QED BY <1>1, ModesAssumption DEF C!Lock

\* Letters s are the lock's: they leave what it wants, and are about what differs.
Says(lk, on, off, noargs, s) ==
  /\ s \in Seq(C!Letter)
  /\ \A x \in Slots : Mentions(s, x) => LocksAt(lk, x) /\ Verdict(s, x) = Wanted(lk, x)
  /\ \A c \in Simple : Mentions(s, <<c, 0>>) <=> c \in on \cup off
  /\ Mentions(s, <<"k", 0>>) <=> (lk.key = C!Off /\ C!FitsK(off)) \/ (lk.key \in Args /\ ~noargs)
  /\ Mentions(s, <<"l", 0>>) <=> (lk.limit = C!Off /\ C!FitsL(lk, off)) \/ (lk.limit \in Args /\ ~noargs)
  /\ \A u : ~Mentions(s, <<"o", u>>) /\ ~Mentions(s, <<"v", u>>)

LEMMA SentSays ==
  ASSUME NEW lk \in C!Lock, lk.on \cap lk.off = {}, NEW on \in SUBSET lk.on, NEW off \in SUBSET lk.off,
         NEW noargs \in BOOLEAN, NEW s, s = C!Sent(lk, on, off, noargs)
  PROVE  Says(lk, on, off, noargs, s)
<1>1. on \subseteq Simple /\ off \subseteq Simple
  BY LockIs
<1>2. s \in Seq(C!Letter) /\ \A l : Among(s, l) <=> IsSent(lk, on, off, noargs, l)
  BY <1>1, SentAre
<1>3. /\ \A d, c, a : /\ C!Change(d, c, a).dir = d /\ C!Change(d, c, a).c = c /\ C!Change(d, c, a).arg = a
  BY DEF C!Change
<1>4. "k" \notin Simple /\ "l" \notin Simple /\ "o" \notin Simple /\ "v" \notin Simple
  BY ModesAssumption
<1>5. \A d, a : \A c \in Simple \cup {"k", "l"} : Slot(C!Change(d, c, a)) = <<c, 0>>
  BY <1>3, <1>4 DEF Slot
<1>6. /\ \A a : \A c \in Simple \cup {"k", "l"} : Leaves(C!Change("-", c, a)) = 0
      /\ \A a : \A c \in Simple : Leaves(C!Change("+", c, a)) = 1
      /\ \A a : Leaves(C!Change("+", "k", a)) = a /\ Leaves(C!Change("+", "l", a)) = a
  BY <1>3, <1>4 DEF Leaves
<1>7. /\ \A c : <<c, 0>>[1] = c
      /\ \A c, e : <<c, 0>> = <<e, 0>> => c = e
  OBVIOUS
<1>8. ASSUME NEW l, IsSent(lk, on, off, noargs, l)
      PROVE  LocksAt(lk, Slot(l)) /\ Leaves(l) = Wanted(lk, Slot(l))
  <2>1. CASE \E c \in off : l = C!Change("-", c, 0)
    <3>1. PICK c \in off : l = C!Change("-", c, 0)
      BY <2>1
    <3>2. Slot(l) = <<c, 0>> /\ Leaves(l) = 0 /\ c \in Simple /\ c \notin lk.on /\ c # "k" /\ c # "l"
      BY <1>1, <1>4, <1>5, <1>6, <3>1
    <3> QED BY <1>7, <3>2 DEF LocksAt, Wanted
  <2>2. CASE lk.key = C!Off /\ l = C!Change("-", "k", 0)
    <3>1. Slot(l) = <<"k", 0>> /\ Leaves(l) = 0 /\ lk.key \notin Args /\ lk.key # C!Unsaid
      BY <1>5, <1>6, <2>2, LockIs
    <3> QED BY <3>1 DEF LocksAt, Wanted
  <2>3. CASE lk.limit = C!Off /\ l = C!Change("-", "l", 0)
    <3>1. Slot(l) = <<"l", 0>> /\ Leaves(l) = 0 /\ lk.limit \notin Args /\ lk.limit # C!Unsaid
      BY <1>5, <1>6, <2>3, LockIs
    <3> QED BY <3>1 DEF LocksAt, Wanted
  <2>4. CASE \E c \in on : l = C!Change("+", c, 0)
    <3>1. PICK c \in on : l = C!Change("+", c, 0)
      BY <2>4
    <3>2. Slot(l) = <<c, 0>> /\ Leaves(l) = 1 /\ c \in Simple /\ c \in lk.on /\ c # "k" /\ c # "l"
      BY <1>1, <1>4, <1>5, <1>6, <3>1
    <3> QED BY <1>7, <3>2 DEF LocksAt, Wanted
  <2>5. CASE lk.limit \in Args /\ l = C!Change("+", "l", lk.limit)
    <3>1. Slot(l) = <<"l", 0>> /\ Leaves(l) = lk.limit /\ lk.limit # C!Unsaid
      BY <1>5, <1>6, <2>5, LockIs
    <3> QED BY <2>5, <3>1 DEF LocksAt, Wanted
  <2>6. CASE lk.key \in Args /\ l = C!Change("+", "k", lk.key)
    <3>1. Slot(l) = <<"k", 0>> /\ Leaves(l) = lk.key /\ lk.key # C!Unsaid
      BY <1>5, <1>6, <2>6, LockIs
    <3> QED BY <2>6, <3>1 DEF LocksAt, Wanted
  <2> QED BY <1>8, <2>1, <2>2, <2>3, <2>4, <2>5, <2>6 DEF IsSent
<1>9. ASSUME NEW x \in Slots, Mentions(s, x)
      PROVE  LocksAt(lk, x) /\ Verdict(s, x) = Wanted(lk, x)
  <2>1. \A l \in C!Letter : Among(s, l) /\ Slot(l) = x => Leaves(l) = Wanted(lk, x) /\ LocksAt(lk, x)
    BY <1>2, <1>8
  <2> QED BY <1>2, <1>9, <2>1, MentionsAre, OneVerdictAmong
<1>10. \A l : Among(s, l) => l \in C!Letter
  BY <1>2 DEF Among
<1>11. ASSUME NEW x
       PROVE  Mentions(s, x) <=> \E l : IsSent(lk, on, off, noargs, l) /\ Slot(l) = x
  BY <1>2, <1>10, MentionsAre
<1>12. ASSUME NEW c \in Simple
       PROVE  Mentions(s, <<c, 0>>) <=> c \in on \cup off
  <2>1. ASSUME c \in on \cup off
        PROVE  Mentions(s, <<c, 0>>)
    <3>1. \E d : IsSent(lk, on, off, noargs, C!Change(d, c, 0))
      BY <2>1 DEF IsSent
    <3> QED BY <1>5, <1>11, <3>1
  <2>2. ASSUME NEW l, IsSent(lk, on, off, noargs, l), Slot(l) = <<c, 0>>
        PROVE  c \in on \cup off
    <3>1. c # "k" /\ c # "l"
      BY <1>4
    <3> QED BY <1>1, <1>5, <1>7, <2>2, <3>1 DEF IsSent
  <2> QED BY <1>11, <2>1, <2>2
<1>13. Mentions(s, <<"k", 0>>) <=> (lk.key = C!Off /\ C!FitsK(off)) \/ (lk.key \in Args /\ ~noargs)
  <2>1. ASSUME (lk.key = C!Off /\ C!FitsK(off)) \/ (lk.key \in Args /\ ~noargs)
        PROVE  Mentions(s, <<"k", 0>>)
    <3>1. \E d, a : IsSent(lk, on, off, noargs, C!Change(d, "k", a))
      BY <2>1 DEF IsSent
    <3> QED BY <1>5, <1>11, <3>1
  <2>2. ASSUME NEW l, IsSent(lk, on, off, noargs, l), Slot(l) = <<"k", 0>>
        PROVE  (lk.key = C!Off /\ C!FitsK(off)) \/ (lk.key \in Args /\ ~noargs)
    BY <1>1, <1>4, <1>5, <1>7, <2>2 DEF IsSent
  <2> QED BY <1>11, <2>1, <2>2
<1>14. Mentions(s, <<"l", 0>>) <=> (lk.limit = C!Off /\ C!FitsL(lk, off)) \/ (lk.limit \in Args /\ ~noargs)
  <2>1. ASSUME (lk.limit = C!Off /\ C!FitsL(lk, off)) \/ (lk.limit \in Args /\ ~noargs)
        PROVE  Mentions(s, <<"l", 0>>)
    <3>1. \E d, a : IsSent(lk, on, off, noargs, C!Change(d, "l", a))
      BY <2>1 DEF IsSent
    <3> QED BY <1>5, <1>11, <3>1
  <2>2. ASSUME NEW l, IsSent(lk, on, off, noargs, l), Slot(l) = <<"l", 0>>
        PROVE  (lk.limit = C!Off /\ C!FitsL(lk, off)) \/ (lk.limit \in Args /\ ~noargs)
    BY <1>1, <1>4, <1>5, <1>7, <2>2 DEF IsSent
  <2> QED BY <1>11, <2>1, <2>2
<1>15. ASSUME NEW u
       PROVE  ~Mentions(s, <<"o", u>>) /\ ~Mentions(s, <<"v", u>>)
  <2>1. \A l : IsSent(lk, on, off, noargs, l) => \E c \in Simple \cup {"k", "l"} : Slot(l) = <<c, 0>>
    BY <1>1, <1>5 DEF IsSent
  <2>2. \A c \in Simple \cup {"k", "l"} : <<c, 0>> # <<"o", u>> /\ <<c, 0>> # <<"v", u>>
    BY <1>4
  <2> QED BY <1>11, <2>1, <2>2
<1> QED BY <1>2, <1>9, <1>12, <1>13, <1>14, <1>15 DEF Says

\* One enforcement: simple modes always end as the lock wants them, key and limit
\* unless a letter was dropped, and where nothing is sent nothing changes.
Enforces(e, ch, noargs) ==
  /\ e.ch \in C!Modes /\ e.msg \in Seq(C!Letter) /\ e.drop \in BOOLEAN
  /\ \A x \in Slots : Mentions(e.msg, x) => LocksAt(lock, x) /\ Verdict(e.msg, x) = Wanted(lock, x)
  /\ \A x \in Slots : x[1] \in Simple \/ ~e.drop =>
       Has(e.ch, x) = IF Mentions(e.msg, x) THEN Wanted(lock, x) ELSE Has(ch, x)
  /\ \A c \in lock.on \cup lock.off : Has(e.ch, <<c, 0>>) = Wanted(lock, <<c, 0>>)
  /\ lock.key = C!Off /\ ~e.drop => Mentions(e.msg, <<"k", 0>>)
  /\ lock.limit = C!Off /\ ~e.drop => Mentions(e.msg, <<"l", 0>>)
  /\ lock.key \in Args => (Mentions(e.msg, <<"k", 0>>) <=> ~noargs)
  /\ lock.limit \in Args => (Mentions(e.msg, <<"l", 0>>) <=> ~noargs)

LEMMA EnforcedIs ==
  ASSUME NEW ch \in C!Modes, NEW noargs \in BOOLEAN, lock \in C!Lock, lock.on \cap lock.off = {},
         NEW e, e = C!Enforced(ch, noargs)
  PROVE  Enforces(e, ch, noargs)
<1> DEFINE on == lock.on \ ch.mode
           off == lock.off \cap ch.mode
<1>1. /\ e.msg = C!Sent(lock, on, off, noargs) /\ e.drop = C!Drops(lock, off)
      /\ e.ch = [C!Locked(ch, lock, noargs) EXCEPT !.mode = (@ \ off) \cup on]
  BY DEF C!Enforced
<1>2. on \in SUBSET lock.on /\ off \in SUBSET lock.off
  OBVIOUS
<1>3. /\ lock.on \subseteq Simple /\ lock.off \subseteq Simple
      /\ lock.key \in Args \cup {C!Unsaid, C!Off} /\ lock.limit \in Args \cup {C!Unsaid, C!Off}
      /\ C!Off \notin Args /\ C!Unsaid \notin Args /\ C!Off # C!Unsaid /\ Args \subseteq Nat
  BY LockIs
<1>4. C!Locked(ch, lock, noargs) =
        [ch EXCEPT !.key = IF lock.key = C!Off THEN 0 ELSE IF lock.key \in Args /\ ~noargs THEN lock.key ELSE @,
                   !.limit = IF lock.limit = C!Off THEN 0 ELSE IF lock.limit \in Args /\ ~noargs THEN lock.limit ELSE @]
  BY DEF C!Locked
<1>5. ch = [mode |-> ch.mode, key |-> ch.key, limit |-> ch.limit, ops |-> ch.ops, voices |-> ch.voices]
      /\ ch.mode \subseteq Simple /\ ch.key \in Nat /\ ch.limit \in Nat /\ ch.ops \subseteq Members
      /\ ch.voices \subseteq Members
  BY DEF C!Modes
<1>6. /\ e.ch.mode = (ch.mode \ off) \cup on /\ e.ch.ops = ch.ops /\ e.ch.voices = ch.voices
      /\ e.ch.key = IF lock.key = C!Off THEN 0 ELSE IF lock.key \in Args /\ ~noargs THEN lock.key ELSE ch.key
      /\ e.ch.limit = IF lock.limit = C!Off THEN 0 ELSE IF lock.limit \in Args /\ ~noargs THEN lock.limit ELSE ch.limit
      /\ e.ch = [mode |-> e.ch.mode, key |-> e.ch.key, limit |-> e.ch.limit, ops |-> e.ch.ops, voices |-> e.ch.voices]
  BY <1>1, <1>4, <1>5
<1>7. e.ch \in C!Modes
  <2>1. e.ch.mode \subseteq Simple /\ e.ch.ops \subseteq Members /\ e.ch.voices \subseteq Members
    BY <1>3, <1>5, <1>6
  <2>2. e.ch.key \in Nat /\ e.ch.limit \in Nat
    BY <1>3, <1>5, <1>6
  <2> HIDE DEF on, off
  <2> QED BY <1>6, <2>1, <2>2 DEF C!Modes
<1>8. e.drop \in BOOLEAN
  BY <1>1 DEF C!Drops
<1> DEFINE s == C!Sent(lock, on, off, noargs)
<1>s. s = C!Sent(lock, on, off, noargs)
  OBVIOUS
<1> HIDE DEF on, off, s
<1>9. Says(lock, on, off, noargs, s)
  BY <1>2, <1>s, SentSays
<1>10. e.msg = s
  BY <1>1 DEF s
<1>11. ~e.drop => /\ lock.key = C!Off => C!FitsK(off)
                  /\ lock.limit = C!Off => C!FitsL(lock, off)
  BY <1>1 DEF C!Drops
<1>12. ASSUME NEW c \in Simple
       PROVE  /\ Has(e.ch, <<c, 0>>) = IF Mentions(s, <<c, 0>>) THEN Wanted(lock, <<c, 0>>) ELSE Has(ch, <<c, 0>>)
              /\ c \in lock.on \cup lock.off => Has(e.ch, <<c, 0>>) = Wanted(lock, <<c, 0>>)
  <2>1. Has(e.ch, <<c, 0>>) = Bit(c \in e.ch.mode) /\ Has(ch, <<c, 0>>) = Bit(c \in ch.mode)
    BY HasAt
  <2>2. Mentions(s, <<c, 0>>) <=> c \in on \cup off
    BY <1>9 DEF Says
  <2>3. Wanted(lock, <<c, 0>>) = IF c \in lock.on THEN 1 ELSE 0
    BY ModesAssumption DEF Wanted
  <2>4. c \in e.ch.mode <=> (c \in ch.mode /\ c \notin lock.off) \/ c \in lock.on
    BY <1>6 DEF on, off
  <2> QED BY <2>1, <2>2, <2>3, <2>4 DEF Bit, on, off
<1>13. ASSUME ~e.drop
       PROVE  /\ Has(e.ch, <<"k", 0>>) = IF Mentions(s, <<"k", 0>>) THEN Wanted(lock, <<"k", 0>>) ELSE Has(ch, <<"k", 0>>)
              /\ Has(e.ch, <<"l", 0>>) = IF Mentions(s, <<"l", 0>>) THEN Wanted(lock, <<"l", 0>>) ELSE Has(ch, <<"l", 0>>)
  <2>1. /\ Has(e.ch, <<"k", 0>>) = e.ch.key /\ Has(ch, <<"k", 0>>) = ch.key
        /\ Has(e.ch, <<"l", 0>>) = e.ch.limit /\ Has(ch, <<"l", 0>>) = ch.limit
    BY HasAt
  <2>2. Wanted(lock, <<"k", 0>>) = IF lock.key \in Args THEN lock.key ELSE 0
    BY DEF Wanted
  <2>3. Wanted(lock, <<"l", 0>>) = IF lock.limit \in Args THEN lock.limit ELSE 0
    BY DEF Wanted
  <2>4. Mentions(s, <<"k", 0>>) <=> lock.key = C!Off \/ (lock.key \in Args /\ ~noargs)
    BY <1>9, <1>11, <1>13 DEF Says
  <2>5. Mentions(s, <<"l", 0>>) <=> lock.limit = C!Off \/ (lock.limit \in Args /\ ~noargs)
    BY <1>9, <1>11, <1>13 DEF Says
  <2> QED BY <1>3, <1>6, <2>1, <2>2, <2>3, <2>4, <2>5
<1>14. ASSUME NEW u \in Members
       PROVE  /\ Has(e.ch, <<"o", u>>) = Has(ch, <<"o", u>>) /\ ~Mentions(s, <<"o", u>>)
              /\ Has(e.ch, <<"v", u>>) = Has(ch, <<"v", u>>) /\ ~Mentions(s, <<"v", u>>)
  BY <1>6, <1>9, HasAt DEF Says
<1>15. ASSUME NEW x \in Slots, x[1] \in Simple \/ ~e.drop
       PROVE  Has(e.ch, x) = IF Mentions(s, x) THEN Wanted(lock, x) ELSE Has(ch, x)
  <2>1. CASE \E c \in Simple : x = <<c, 0>>
    BY <1>12, <2>1
  <2>2. CASE x = <<"k", 0>> \/ x = <<"l", 0>>
    <3>1. ~e.drop
      BY <1>15, <2>2, ModesAssumption
    <3> QED BY <1>13, <2>2, <3>1
  <2>3. ASSUME NEW u \in Members, x = <<"o", u>> \/ x = <<"v", u>>
        PROVE  Has(e.ch, x) = IF Mentions(s, x) THEN Wanted(lock, x) ELSE Has(ch, x)
    BY <1>14, <2>3
  <2> QED BY <2>1, <2>2, <2>3, SlotKinds
<1>16. \A c \in lock.on \cup lock.off : Has(e.ch, <<c, 0>>) = Wanted(lock, <<c, 0>>)
  BY <1>3, <1>12
<1>17. /\ lock.key = C!Off /\ ~e.drop => Mentions(s, <<"k", 0>>)
       /\ lock.limit = C!Off /\ ~e.drop => Mentions(s, <<"l", 0>>)
       /\ lock.key \in Args => (Mentions(s, <<"k", 0>>) <=> ~noargs)
       /\ lock.limit \in Args => (Mentions(s, <<"l", 0>>) <=> ~noargs)
  BY <1>3, <1>9, <1>11 DEF Says
<1> QED BY <1>7, <1>8, <1>9, <1>10, <1>15, <1>16, <1>17 DEF Says, Enforces

-----------------------------------------------------------------------------
(* A MODE of the network's as services handle it, letter by letter *)

ModesTyped ==
  /\ netAlive \in BOOLEAN /\ alive \in BOOLEAN /\ cut \in BOOLEAN /\ autolimit \in BOOLEAN
  /\ raced \in BOOLEAN /\ carried \in BOOLEAN /\ dropped \in BOOLEAN /\ unlocked \in BOOLEAN
  /\ net \in C!Modes /\ view \in C!Modes
  /\ lock \in C!Lock \cup {NoLock} /\ (lock # NoLock => lock.on \cap lock.off = {})
  /\ ~alive => view = C!NoModes /\ ~autolimit /\ ~cut
  /\ changes \in 0..MaxChanges
  /\ toNet \in Seq(Seq(C!Letter))
  /\ toCs \in Seq(C!Message) /\ Len(toCs) <= MaxQueue

\* What set_channel_mode carries from letter to letter.
Carried == [ch : C!Modes, out : Seq(Seq(C!Letter)), cut : BOOLEAN, drop : BOOLEAN]

\* a is what comes of acc when a letter makes m of its modes.
Proceeds(acc, m, a) ==
  /\ a \in Carried
  /\ lock = NoLock => a.ch = m /\ a.out = acc.out /\ a.cut = acc.cut /\ a.drop = acc.drop
  /\ lock # NoLock => \E e : /\ Enforces(e, m, acc.cut)
                            /\ a.ch = e.ch /\ a.out = C!Post(acc.out, e.msg)
                            /\ a.cut = TRUE /\ a.drop = (acc.drop \/ e.drop)

LEMMA OneLetterIs ==
  ASSUME ModesTyped, NEW acc \in Carried, NEW l \in C!Letter, NEW passed,
         NEW a, a = C!OneLetter(acc, l, passed), NEW m, m = C!Apply(acc.ch, l, passed)
  PROVE  m \in C!Modes /\ Proceeds(acc, m, a)
<1>1. acc.ch \in C!Modes /\ acc.out \in Seq(Seq(C!Letter)) /\ acc.cut \in BOOLEAN /\ acc.drop \in BOOLEAN
  BY DEF Carried
<1>2. m \in C!Modes
  BY <1>1, ApplyIs
<1>3. CASE lock = NoLock
  <2>1. a = [ch |-> m, out |-> C!Post(acc.out, <<>>), cut |-> acc.cut \/ lock # NoLock, drop |-> acc.drop \/ FALSE]
    BY <1>3 DEF C!OneLetter
  <2>2. C!Post(acc.out, <<>>) = acc.out
    BY DEF C!Post, C!If
  <2>3. a.ch = m /\ a.out = acc.out /\ a.cut = acc.cut /\ a.drop = acc.drop
    BY <1>1, <1>3, <2>1, <2>2
  <2>4. a \in Carried
    BY <1>1, <1>2, <1>3, <2>1, <2>2 DEF Carried
  <2> QED BY <1>2, <1>3, <2>3, <2>4 DEF Proceeds
<1>4. CASE lock # NoLock
  <2> DEFINE e == C!Enforced(m, acc.cut)
  <2>1. lock \in C!Lock /\ lock.on \cap lock.off = {}
    BY <1>4 DEF ModesTyped
  <2>2. Enforces(e, m, acc.cut)
    BY <1>1, <1>2, <2>1, EnforcedIs
  <2>3. a = [ch |-> e.ch, out |-> C!Post(acc.out, e.msg), cut |-> acc.cut \/ lock # NoLock, drop |-> acc.drop \/ e.drop]
    BY <1>4 DEF C!OneLetter
  <2> HIDE DEF e
  <2>4. e.ch \in C!Modes /\ e.msg \in Seq(C!Letter) /\ e.drop \in BOOLEAN
    BY <2>2 DEF Enforces
  <2>5. C!Post(acc.out, e.msg) \in Seq(Seq(C!Letter))
    BY <1>1, <2>4, PostIs DEF Posted
  <2>c. (acc.cut \/ lock # NoLock) = TRUE
    BY <1>4
  <2>6. a.ch = e.ch /\ a.out = C!Post(acc.out, e.msg) /\ a.cut = TRUE /\ a.drop = (acc.drop \/ e.drop)
    <3>1. a = [ch |-> e.ch, out |-> C!Post(acc.out, e.msg), cut |-> TRUE, drop |-> acc.drop \/ e.drop]
      BY <2>3, <2>c, Zenon
    <3> QED BY <3>1
  <2>7. a \in Carried
    BY <1>1, <1>4, <2>3, <2>4, <2>5 DEF Carried
  <2> QED BY <1>2, <1>4, <2>2, <2>6, <2>7 DEF Proceeds
<1> QED BY <1>3, <1>4

\* accs has what set_channel_mode carries after each letter of ls.
Sets(accs, ls) ==
  /\ accs \in [0..Len(ls) -> Carried]
  /\ accs[0] = [ch |-> view, out |-> <<>>, cut |-> cut, drop |-> FALSE]
  /\ \A n \in 1..Len(ls) : accs[n] = C!OneLetter(accs[n - 1], ls[n], C!Seen(ls, n - 1))

LEMMA SetChannelModeRuns ==
  ASSUME ModesTyped, NEW ls \in Seq(C!Letter)
  PROVE  \E accs : Sets(accs, ls) /\ C!SetChannelMode(ls) = accs[Len(ls)]
<1> DEFINE G == [n \in 1..Len(ls) |-> [a \in Carried |-> C!OneLetter(a, ls[n], C!Seen(ls, n - 1))]]
           base == [ch |-> view, out |-> <<>>, cut |-> cut, drop |-> FALSE]
<1>1. Len(ls) \in Nat /\ \A n \in 1..Len(ls) : ls[n] \in C!Letter
  OBVIOUS
<1>2. \A n \in 1..Len(ls) : \A a \in Carried : C!OneLetter(a, ls[n], C!Seen(ls, n - 1)) \in Carried
  BY <1>1, OneLetterIs DEF Proceeds
<1>3. G \in [1..Len(ls) -> [Carried -> Carried]]
  BY <1>2
<1>4. \A n \in 1..Len(ls) : \A a \in Carried : G[n][a] = C!OneLetter(a, ls[n], C!Seen(ls, n - 1))
  OBVIOUS
<1>5. base \in Carried
  BY DEF Carried, ModesTyped
<1> HIDE DEF G, base
<1>6. PICK f \in [0..Len(ls) -> Carried] : f[0] = base /\ \A i \in 1..Len(ls) : f[i] = G[i][f[i - 1]]
  <2>1. \E f : Chained(f, Carried, base, Len(ls), G)
    BY <1>1, <1>3, <1>5, ChainIs
  <2> QED BY <2>1 DEF Chained
<1>7. \A n \in 1..Len(ls) : f[n] = C!OneLetter(f[n - 1], ls[n], C!Seen(ls, n - 1))
  <2> TAKE n \in 1..Len(ls)
  <2>1. n - 1 \in 0..Len(ls)
    BY <1>1
  <2> QED BY <1>4, <1>6, <2>1
<1> DEFINE Rec(g) == g = [n \in 0..Len(ls) |->
              IF n = 0 THEN base ELSE C!OneLetter(g[n - 1], ls[n], C!Seen(ls, n - 1))]
           after == CHOOSE g : Rec(g)
<1>8. Rec(f)
  BY <1>6, <1>7
<1>9. Rec(after)
  BY <1>8
<1>10. C!SetChannelMode(ls) = after[Len(ls)]
  BY DEF C!SetChannelMode, base
<1> HIDE DEF after
<1>11. after[0] = base /\ \A n \in 1..Len(ls) : after[n] = C!OneLetter(after[n - 1], ls[n], C!Seen(ls, n - 1))
  BY <1>1, <1>9
<1> DEFINE same == {n \in 0..Len(ls) : after[n] = f[n]}
<1>12. 0 \in same
  BY <1>6, <1>11
<1>13. ASSUME NEW n \in 0..(Len(ls) - 1), n \in same
       PROVE  n + 1 \in same
  BY <1>1, <1>7, <1>11, <1>13
<1> HIDE DEF same
<1>14. \A n \in 0..Len(ls) : n \in same
  BY <1>1, <1>12, <1>13, Upwards
<1> USE DEF same
<1>15. after[Len(ls)] = f[Len(ls)]
  BY <1>1, <1>14
<1> QED BY <1>6, <1>7, <1>10, <1>15 DEF Sets, base

\* What services have made of a MODE, out of which came message m on the network:
\* what they sent wants what the lock wants, and where they sent nothing they
\* have what came.
Follows(a, m, ls) ==
  /\ lock = NoLock => a.ch = m /\ a.out = <<>> /\ a.cut = cut /\ a.drop = FALSE
  /\ lock # NoLock =>
       /\ \A x \in Slots : /\ Said(a.out, x) => LocksAt(lock, x)
                           /\ \A v : WillHave(v, a.out, x) = IF Said(a.out, x) THEN Wanted(lock, x) ELSE v
       /\ \A x \in Slots : x[1] \in Simple \/ ~a.drop =>
            /\ ~Said(a.out, x) => Has(a.ch, x) = Has(m, x)
            /\ Said(a.out, x) /\ ~C!Halfway(ls) => Has(a.ch, x) = Wanted(lock, x)
       /\ cut /\ lock.key \in Args => ~Said(a.out, <<"k", 0>>)
       /\ cut /\ lock.limit \in Args => ~Said(a.out, <<"l", 0>>)
\* After the first letter the lock holds.
Settles(a) ==
  lock # NoLock =>
    /\ \A c \in lock.on \cup lock.off : Has(a.ch, <<c, 0>>) = Wanted(lock, <<c, 0>>)
    /\ lock.key = C!Off /\ ~a.drop => Said(a.out, <<"k", 0>>)

LEMMA LetterFollows ==
  ASSUME ModesTyped, NEW ls \in Seq(C!Letter), NEW n \in 1..Len(ls),
         NEW acc \in Carried, NEW m \in C!Modes, Follows(acc, m, ls),
         n = 1 => acc.out = <<>> /\ acc.cut = cut,
         n # 1 => acc.cut = TRUE \/ lock = NoLock,
         NEW a, a = C!OneLetter(acc, ls[n], C!Seen(ls, n - 1)),
         NEW w, w = C!Apply(m, ls[n], C!Seen(ls, n - 1))
  PROVE  a \in Carried /\ w \in C!Modes /\ Follows(a, w, ls) /\ Settles(a) /\ (a.cut = TRUE \/ lock = NoLock)
<1> DEFINE l == ls[n]
           passed == C!Seen(ls, n - 1)
           b == C!Apply(acc.ch, l, passed)
<1>1. l \in C!Letter /\ acc.ch \in C!Modes /\ acc.out \in Seq(Seq(C!Letter)) /\ acc.drop \in BOOLEAN
      /\ acc.cut \in BOOLEAN
  BY DEF Carried
<1>2. w \in C!Modes /\ \A x \in Slots : Has(w, x) =
        IF Slot(l) = x /\ ~(l.c \in Simple /\ l.c \in passed) THEN Leaves(l) ELSE Has(m, x)
  BY <1>1, ApplyIs
<1>3. b \in C!Modes /\ \A x \in Slots : Has(b, x) =
        IF Slot(l) = x /\ ~(l.c \in Simple /\ l.c \in passed) THEN Leaves(l) ELSE Has(acc.ch, x)
  BY <1>1, ApplyIs
<1>p. b = C!Apply(acc.ch, l, passed) /\ a = C!OneLetter(acc, l, passed)
  OBVIOUS
<1> HIDE DEF b, passed, l
<1>q. Proceeds(acc, b, a)
  BY <1>1, <1>p, OneLetterIs
<1>4. /\ a \in Carried
      /\ lock = NoLock => a.ch = b /\ a.out = acc.out /\ a.cut = acc.cut /\ a.drop = acc.drop
      /\ lock # NoLock => \E e : /\ Enforces(e, b, acc.cut)
                                /\ a.ch = e.ch /\ a.out = C!Post(acc.out, e.msg)
                                /\ a.cut = TRUE /\ a.drop = (acc.drop \/ e.drop)
  BY <1>q DEF Proceeds
<1>5. CASE lock = NoLock
  <2>1. acc.ch = m
    BY <1>5 DEF Follows
  <2>2. b = w
    BY <2>1, <1>p DEF l, passed
  <2> QED BY <1>2, <1>4, <1>5, <2>2 DEF Follows, Settles
<1>6. CASE lock # NoLock
  <2>1. PICK e : /\ Enforces(e, b, acc.cut)
                 /\ a.ch = e.ch /\ a.out = C!Post(acc.out, e.msg)
                 /\ a.cut = TRUE /\ a.drop = (acc.drop \/ e.drop)
    BY <1>4, <1>6
  <2>2. e.msg \in Seq(C!Letter) /\ e.drop \in BOOLEAN
    BY <2>1 DEF Enforces
  <2>3. /\ \A x, v : WillHave(v, a.out, x) = IF Mentions(e.msg, x) THEN Verdict(e.msg, x) ELSE WillHave(v, acc.out, x)
        /\ \A x : Said(a.out, x) <=> Said(acc.out, x) \/ Mentions(e.msg, x)
    <3>1. Posted(acc.out, e.msg, a.out)
      BY <1>1, <2>1, <2>2, PostIs
    <3> QED BY <3>1 DEF Posted
  <2>4. \A x \in Slots : /\ Mentions(e.msg, x) => LocksAt(lock, x) /\ Verdict(e.msg, x) = Wanted(lock, x)
                         /\ Said(acc.out, x) => LocksAt(lock, x)
                         /\ \A v : WillHave(v, acc.out, x) = IF Said(acc.out, x) THEN Wanted(lock, x) ELSE v
    BY <1>6, <2>1 DEF Enforces, Follows
  <2>5. \A x \in Slots : /\ Said(a.out, x) => LocksAt(lock, x)
                         /\ \A v : WillHave(v, a.out, x) = IF Said(a.out, x) THEN Wanted(lock, x) ELSE v
    BY <2>3, <2>4
  <2>6. /\ lock \in C!Lock /\ lock.key \in Args \cup {C!Unsaid, C!Off} /\ lock.limit \in Args \cup {C!Unsaid, C!Off}
    BY <1>6, LockIs DEF ModesTyped
  <2>7. <<"k", 0>> \in Slots /\ <<"l", 0>> \in Slots /\ Len(ls) \in Nat
    BY DEF Slots
  <2>8. /\ cut /\ lock.key \in Args => ~Said(a.out, <<"k", 0>>)
        /\ cut /\ lock.limit \in Args => ~Said(a.out, <<"l", 0>>)
    <3>1. cut => acc.cut = TRUE
      BY <1>6
    <3> QED BY <1>6, <2>1, <2>3, <3>1 DEF Enforces, Follows
  <2>9. ASSUME NEW x \in Slots, x[1] \in Simple \/ ~a.drop, ~Said(a.out, x)
        PROVE  Has(a.ch, x) = Has(w, x)
    <3>1. x[1] \in Simple \/ (~e.drop /\ ~acc.drop)
      BY <2>1, <2>9
    <3>2. ~Said(acc.out, x) /\ ~Mentions(e.msg, x)
      BY <2>3, <2>9
    <3>3. Has(a.ch, x) = Has(b, x)
      BY <2>1, <3>1, <3>2 DEF Enforces
    <3>4. Has(acc.ch, x) = Has(m, x)
      BY <1>6, <3>1, <3>2 DEF Follows
    <3> QED BY <1>2, <1>3, <3>3, <3>4
  <2>10. ASSUME NEW x \in Slots, x[1] \in Simple \/ ~a.drop, Said(a.out, x), ~C!Halfway(ls)
         PROVE  Has(a.ch, x) = Wanted(lock, x)
    <3>1. x[1] \in Simple \/ (~e.drop /\ ~acc.drop)
      BY <2>1, <2>10
    <3>2. CASE Mentions(e.msg, x)
      BY <2>1, <3>1, <3>2 DEF Enforces
    <3>3. CASE ~Mentions(e.msg, x)
      <4>1. Said(acc.out, x) /\ LocksAt(lock, x)
        BY <2>3, <2>4, <2>10, <3>3
      <4>2. Has(acc.ch, x) = Wanted(lock, x)
        BY <1>6, <2>10, <3>1, <4>1 DEF Follows
      <4>3. CASE \E c \in lock.on \cup lock.off : x = <<c, 0>>
        BY <2>1, <4>3 DEF Enforces
      <4>4. CASE x = <<"k", 0>> /\ lock.key # C!Unsaid
        <5>1. ~e.drop
          BY <3>1, <4>4, ModesAssumption
        <5>2. lock.key \in Args
          BY <2>1, <2>6, <3>3, <4>4, <5>1 DEF Enforces
        <5>3. n # 1 /\ ~cut
          <6>1. n # 1
            BY <4>1, WillHaveOne
          <6>2. ~cut
            BY <1>6, <4>1, <4>4, <5>2 DEF Follows
          <6> QED BY <6>1, <6>2
        <5>4. l.c # "k"
          BY <1>6, <2>7, <2>10, <5>2, <5>3 DEF C!Halfway, l
        <5>5. Slot(l) # x
          BY <4>4, <5>4 DEF Slot
        <5>6. Has(a.ch, x) = Has(b, x)
          BY <2>1, <3>3, <5>1 DEF Enforces
        <5> QED BY <1>3, <4>2, <5>5, <5>6
      <4>5. CASE x = <<"l", 0>> /\ lock.limit # C!Unsaid
        <5>1. ~e.drop
          BY <3>1, <4>5, ModesAssumption
        <5>2. lock.limit \in Args
          BY <2>1, <2>6, <3>3, <4>5, <5>1 DEF Enforces
        <5>3. n # 1 /\ ~cut
          <6>1. n # 1
            BY <4>1, WillHaveOne
          <6>2. ~cut
            BY <1>6, <4>1, <4>5, <5>2 DEF Follows
          <6> QED BY <6>1, <6>2
        <5>4. l.c # "l"
          BY <1>6, <2>7, <2>10, <5>2, <5>3 DEF C!Halfway, l
        <5>5. Slot(l) # x
          BY <4>5, <5>4 DEF Slot
        <5>6. Has(a.ch, x) = Has(b, x)
          BY <2>1, <3>3, <5>1 DEF Enforces
        <5> QED BY <1>3, <4>2, <5>5, <5>6
      <4> QED BY <4>1, <4>3, <4>4, <4>5 DEF LocksAt
    <3> QED BY <3>2, <3>3
  <2>11. Follows(a, w, ls)
    BY <1>6, <2>5, <2>8, <2>9, <2>10 DEF Follows
  <2>12. Settles(a)
    BY <2>1, <2>3 DEF Enforces, Settles
  <2> QED BY <1>2, <1>4, <2>1, <2>11, <2>12
<1> QED BY <1>5, <1>6

\* All the letters: r is what comes of them, m what the network has of them.
LEMMA SetChannelModeIs ==
  ASSUME ModesTyped, NEW ls \in Seq(C!Letter), NEW r, r = C!SetChannelMode(ls),
         NEW m, m = C!ApplyAll(view, ls)
  PROVE  r \in Carried /\ m \in C!Modes /\ Follows(r, m, ls) /\ (ls # <<>> => Settles(r))
<1>1. PICK accs : Sets(accs, ls) /\ r = accs[Len(ls)]
  BY SetChannelModeRuns
<1>2. view \in C!Modes
  BY DEF ModesTyped
<1>3. PICK states : Runs(states, view, ls) /\ m = states[Len(ls)]
  BY <1>2, ApplyAllRuns
<1>4. Len(ls) \in Nat
  OBVIOUS
<1>5. /\ accs[0] = [ch |-> view, out |-> <<>>, cut |-> cut, drop |-> FALSE]
      /\ \A n \in 0..Len(ls) : accs[n] \in Carried /\ states[n] \in C!Modes
      /\ states[0] = view
      /\ \A n \in 1..Len(ls) : /\ accs[n] = C!OneLetter(accs[n - 1], ls[n], C!Seen(ls, n - 1))
                               /\ states[n] = C!Apply(states[n - 1], ls[n], C!Seen(ls, n - 1))
  BY <1>1, <1>3 DEF Sets, Runs
<1> DEFINE good == {n \in 0..Len(ls) :
              /\ Follows(accs[n], states[n], ls)
              /\ n = 0 => accs[n].out = <<>> /\ accs[n].cut = cut
              /\ n # 0 => Settles(accs[n]) /\ (accs[n].cut = TRUE \/ lock = NoLock)}
<1>6. 0 \in good
  <2>1. accs[0].ch = view /\ accs[0].out = <<>> /\ accs[0].cut = cut /\ accs[0].drop = FALSE
    BY <1>5
  <2>2. Follows(accs[0], states[0], ls)
    BY <1>5, <2>1, WillHaveOne DEF Follows
  <2> QED BY <1>4, <2>1, <2>2
<1>7. ASSUME NEW n \in 0..(Len(ls) - 1), n \in good
      PROVE  n + 1 \in good
  <2>1. n \in 0..Len(ls) /\ n + 1 \in 1..Len(ls) /\ n + 1 \in 0..Len(ls) /\ (n + 1) - 1 = n /\ n + 1 # 0
    BY <1>4
  <2>2. /\ accs[n + 1] = C!OneLetter(accs[n], ls[n + 1], C!Seen(ls, (n + 1) - 1))
        /\ states[n + 1] = C!Apply(states[n], ls[n + 1], C!Seen(ls, (n + 1) - 1))
        /\ accs[n] \in Carried /\ states[n] \in C!Modes
    BY <1>5, <2>1
  <2>3. /\ Follows(accs[n], states[n], ls)
        /\ n + 1 = 1 => accs[n].out = <<>> /\ accs[n].cut = cut
        /\ n + 1 # 1 => accs[n].cut = TRUE \/ lock = NoLock
    BY <1>7, <2>1
  <2>4. Follows(accs[n + 1], states[n + 1], ls) /\ Settles(accs[n + 1]) /\ (accs[n + 1].cut = TRUE \/ lock = NoLock)
    BY <2>1, <2>2, <2>3, LetterFollows
  <2> QED BY <2>1, <2>4
<1> HIDE DEF good
<1>8. \A n \in 0..Len(ls) : n \in good
  BY <1>4, <1>6, <1>7, Upwards
<1>9. Len(ls) \in good /\ Len(ls) \in 0..Len(ls)
  BY <1>4, <1>8
<1>10. ls # <<>> => Len(ls) # 0
  OBVIOUS
<1> QED BY <1>1, <1>3, <1>5, <1>9, <1>10 DEF good

-----------------------------------------------------------------------------
(* What of the network's is under way *)

\* An SJOIN, a MODE or a PART is about x; what services will have there of it.
About(msg, x) == msg.type = "mode" => Mentions(msg.ls, x)
Gives(msg, x) == IF msg.type = "mode" THEN Verdict(msg.ls, x)
                 ELSE IF msg.type = "sjoin" THEN Has(msg.modes, x) ELSE Has(C!NoModes, x)
LastAbout(q, x, i) == i \in 1..Len(q) /\ About(q[i], x) /\ \A j \in 1..Len(q) : About(q[j], x) => j <= i
\* What v at x is after messages q.
WillView(v, q, x) ==
  IF \E i \in 1..Len(q) : About(q[i], x) THEN Gives(q[CHOOSE i \in 1..Len(q) : LastAbout(q, x, i)], x) ELSE v

LEMMA LastAboutIs ==
  ASSUME NEW q \in Seq(C!Message), NEW x, NEW v, NEW i, LastAbout(q, x, i)
  PROVE  WillView(v, q, x) = Gives(q[i], x)
<1>1. \A j, k \in 1..Len(q) : LastAbout(q, x, j) /\ LastAbout(q, x, k) => j = k
  BY DEF LastAbout
<1>2. i \in 1..Len(q) /\ About(q[i], x)
  BY DEF LastAbout
<1>3. (CHOOSE j \in 1..Len(q) : LastAbout(q, x, j)) = i
  BY <1>1, <1>2
<1> QED BY <1>2, <1>3 DEF WillView

LEMMA LastAboutIsThere ==
  ASSUME NEW q \in Seq(C!Message), NEW x, \E i \in 1..Len(q) : About(q[i], x)
  PROVE  \E i \in 1..Len(q) : LastAbout(q, x, i)
<1> DEFINE set == {i \in 1..Len(q) : About(q[i], x)}
<1>1. Len(q) \in Nat /\ set \subseteq 1..Len(q) /\ set # {}
  OBVIOUS
<1> HIDE DEF set
<1>2. PICK i \in set : \A j \in set : j <= i
  BY <1>1, HighestIsThere
<1> QED BY <1>1, <1>2 DEF LastAbout, set

\* One more message, and the first one less.
LEMMA WillViewMore ==
  ASSUME NEW q \in Seq(C!Message), NEW msg \in C!Message, NEW x, NEW v
  PROVE  WillView(v, Append(q, msg), x) = IF About(msg, x) THEN Gives(msg, x) ELSE WillView(v, q, x)
<1> DEFINE w == Append(q, msg)
<1>1. /\ w \in Seq(C!Message) /\ Len(w) = Len(q) + 1 /\ Len(q) \in Nat /\ w[Len(q) + 1] = msg
      /\ \A i \in 1..Len(q) : w[i] = q[i] /\ i \in 1..Len(w)
      /\ Len(q) + 1 \in 1..Len(w)
      /\ \A i \in 1..Len(w) : i \in 1..Len(q) \/ i = Len(q) + 1
  OBVIOUS
<1> HIDE DEF w
<1>2. CASE About(msg, x)
  <2>1. LastAbout(w, x, Len(q) + 1)
    BY <1>1, <1>2 DEF LastAbout
  <2> QED BY <1>1, <1>2, <2>1, LastAboutIs DEF w
<1>3. CASE ~About(msg, x) /\ \E i \in 1..Len(q) : About(q[i], x)
  <2>1. PICK i \in 1..Len(q) : LastAbout(q, x, i)
    BY <1>3, LastAboutIsThere
  <2>2. LastAbout(w, x, i)
    BY <1>1, <1>3, <2>1 DEF LastAbout
  <2>3. WillView(v, w, x) = Gives(w[i], x) /\ WillView(v, q, x) = Gives(q[i], x)
    BY <1>1, <2>1, <2>2, LastAboutIs
  <2> QED BY <1>1, <1>3, <2>3 DEF w
<1>4. CASE ~About(msg, x) /\ ~\E i \in 1..Len(q) : About(q[i], x)
  <2>1. ~\E i \in 1..Len(w) : About(w[i], x)
    BY <1>1, <1>4
  <2> QED BY <1>4, <2>1 DEF WillView, w
<1> QED BY <1>2, <1>3, <1>4

LEMMA WillViewRest ==
  ASSUME NEW q \in Seq(C!Message), q # <<>>, NEW x, NEW v
  PROVE  WillView(v, q, x) = WillView(IF About(Head(q), x) THEN Gives(Head(q), x) ELSE v, Tail(q), x)
<1> DEFINE r == Tail(q)
<1>1. /\ r \in Seq(C!Message) /\ Len(q) = Len(r) + 1 /\ Len(r) \in Nat /\ q[1] = Head(q)
      /\ \A i \in 1..Len(r) : q[i + 1] = r[i] /\ i + 1 \in 1..Len(q)
      /\ \A i \in 1..Len(q) : i = 1 \/ (i - 1 \in 1..Len(r) /\ (i - 1) + 1 = i /\ r[i - 1] = q[i])
      /\ 1 \in 1..Len(q)
  OBVIOUS
<1> HIDE DEF r
<1>2. CASE \E i \in 1..Len(r) : About(r[i], x)
  <2>1. PICK i \in 1..Len(r) : LastAbout(r, x, i)
    BY <1>1, <1>2, LastAboutIsThere
  <2>2. ASSUME NEW j \in 1..Len(q), About(q[j], x)
        PROVE  j <= i + 1
    <3>1. CASE j = 1
      BY <1>1, <3>1
    <3>2. CASE j - 1 \in 1..Len(r) /\ (j - 1) + 1 = j /\ r[j - 1] = q[j]
      <4>1. j - 1 <= i
        BY <2>1, <2>2, <3>2 DEF LastAbout
      <4> QED BY <1>1, <4>1
    <3> QED BY <1>1, <3>1, <3>2
  <2>3. LastAbout(q, x, i + 1)
    BY <1>1, <2>1, <2>2 DEF LastAbout
  <2>4. \A b : WillView(v, q, x) = Gives(q[i + 1], x) /\ WillView(b, r, x) = Gives(r[i], x)
    BY <1>1, <2>1, <2>3, LastAboutIs
  <2> QED BY <1>1, <2>4 DEF r
<1>3. CASE (~\E i \in 1..Len(r) : About(r[i], x)) /\ About(Head(q), x)
  <2>1. LastAbout(q, x, 1)
    BY <1>1, <1>3 DEF LastAbout
  <2>2. WillView(v, q, x) = Gives(q[1], x)
    BY <2>1, LastAboutIs
  <2>3. WillView(Gives(Head(q), x), r, x) = Gives(Head(q), x)
    BY <1>3 DEF WillView
  <2> QED BY <1>1, <1>3, <2>2, <2>3 DEF r
<1>4. CASE (~\E i \in 1..Len(r) : About(r[i], x)) /\ ~About(Head(q), x)
  <2>1. ~\E i \in 1..Len(q) : About(q[i], x)
    BY <1>1, <1>4
  <2> QED BY <1>4, <2>1 DEF WillView, r
<1> QED BY <1>2, <1>3, <1>4

LEMMA MessageIs ==
  ASSUME NEW msg \in C!Message
  PROVE  /\ msg.type \in {"mode", "sjoin", "part"}
         /\ msg.type = "mode" => msg.ls \in Seq(C!Letter)
         /\ msg.type = "sjoin" => msg.modes \in C!Modes /\ msg.who \in Members /\ msg.policy \in Policies
  BY DEF C!Message

\* The first message, and the ones after it.
LEMMA RestIs ==
  ASSUME ModesTyped, toCs # <<>>, NEW rest, rest = Tail(toCs)
  PROVE  /\ Head(toCs) \in C!Message /\ Head(toCs) = toCs[1] /\ rest \in Seq(C!Message)
         /\ Len(toCs) = Len(rest) + 1 /\ Len(rest) \in Nat /\ Len(rest) <= MaxQueue
         /\ \A i \in 1..Len(rest) : rest[i] = toCs[i + 1] /\ i + 1 \in 1..Len(toCs)
         /\ \A i \in 1..Len(toCs) : i = 1 \/ (i - 1 \in 1..Len(rest) /\ (i - 1) + 1 = i /\ rest[i - 1] = toCs[i])
         /\ rest = <<>> <=> Len(rest) = 0
<1>1. toCs \in Seq(C!Message) /\ Len(toCs) <= MaxQueue /\ MaxQueue \in Nat
  BY ModesAssumption DEF ModesTyped
<1>2. Head(toCs) \in C!Message /\ Head(toCs) = toCs[1] /\ rest \in Seq(C!Message)
  BY <1>1
<1>3. Len(toCs) = Len(rest) + 1 /\ Len(rest) \in Nat /\ Len(rest) <= MaxQueue
  BY <1>1
<1>4. \A i \in 1..Len(rest) : rest[i] = toCs[i + 1] /\ i + 1 \in 1..Len(toCs)
  BY <1>1
<1>5. \A i \in 1..Len(toCs) : i = 1 \/ (i - 1 \in 1..Len(rest) /\ (i - 1) + 1 = i)
  BY <1>3
<1>6. rest = <<>> <=> Len(rest) = 0
  BY <1>2, EmptySeq
<1> QED BY <1>2, <1>3, <1>4, <1>5, <1>6

-----------------------------------------------------------------------------
(* What stands between the network and services *)

\* The channel is there for services before message i reaches them; it is made
\* anew by an SJOIN still under way.
Before(i) == IF i = 1 THEN alive ELSE toCs[i - 1].type # "part"
Joining == \E i \in 1..Len(toCs) : toCs[i].type = "sjoin"
\* An SJOIN comes exactly when there is no channel.
Lawful ==
  /\ \A i \in 1..Len(toCs) : (toCs[i].type = "sjoin") <=> ~Before(i)
  /\ netAlive <=> IF toCs = <<>> THEN alive ELSE toCs[Len(toCs)].type # "part"
\* What the lock holds; what the network will have once it has all of services'.
Held(x) == /\ lock # NoLock
           /\ \/ \E c \in lock.on \cup lock.off : x = <<c, 0>>
              \/ x = <<"k", 0>> /\ lock.key = C!Off /\ ~dropped
Coming(x) == WillHave(Has(net, x), toNet, x)
\* A message that leaves that makes services enforce the lock when it comes.
Pending(x) ==
  \E i \in 1..Len(toCs) :
    /\ \A j \in 1..Len(toCs) : i < j => toCs[j].type = "mode"
    /\ toCs[i].type # "part" /\ About(toCs[i], x) /\ Gives(toCs[i], x) = Coming(x)

\* Where the network will not have what the lock wants, services will hear of it.
LockStands ==
  ~unlocked =>
    /\ Lawful
    /\ Joining => toNet = <<>>
    /\ netAlive => \A x \in Slots :
         Joining \/ (Held(x) /\ Coming(x) # Wanted(lock, x)) => Pending(x)
\* Once all that is under way has come, services and the network have the same.
Clean == ~raced /\ ~carried /\ ~dropped /\ ~unlocked
ViewStands ==
  ~raced =>
    /\ toNet = <<>> \/ toCs = <<>>
    /\ ~alive => toNet = <<>>
    /\ Clean => \A x \in Slots : WillView(Has(view, x), toCs, x) = Coming(x)

\* Without a channel of their own, services wait for its SJOIN.
LEMMA GoneIsJoining ==
  ASSUME ModesTyped, Lawful, ~alive, netAlive
  PROVE  Joining
<1>1. toCs \in Seq(C!Message) /\ toCs # <<>>
  BY DEF Lawful, ModesTyped
<1>2. 1 \in 1..Len(toCs)
  BY <1>1
<1>3. ~Before(1)
  BY DEF Before
<1> QED BY <1>2, <1>3 DEF Lawful, Joining

\* Services send more: it is seen to by the lock, and they note what they send.
LEMMA SendingStands ==
  ASSUME ModesTyped, LockStands, ViewStands, NEW more \in Seq(Seq(C!Letter)),
         UNCHANGED <<netAlive, alive, net, toCs>>, toNet' = toNet \o more,
         more # <<>> => alive,
         raced \/ (more # <<>> /\ toCs # <<>>) => raced',
         carried => carried', dropped => dropped', unlocked => unlocked',
         Joining /\ toNet' # <<>> => unlocked',
         \A x \in Slots : ~unlocked' /\ netAlive /\ Held(x)' =>
            \/ Said(more, x) /\ LastWord(more, x) = Wanted(lock', x)
            \/ ~Said(more, x) /\ (Joining \/ (Held(x) /\ Wanted(lock', x) = Wanted(lock, x))),
         Clean' => \A x \in Slots : Has(view', x) = WillHave(Has(view, x), more, x)
  PROVE  LockStands' /\ ViewStands'
<1>1. toNet \in Seq(Seq(C!Letter)) /\ toCs \in Seq(C!Message)
  BY DEF ModesTyped
<1>2. /\ toNet' = <<>> <=> toNet = <<>> /\ more = <<>>
      /\ more = <<>> => toNet' = toNet
      /\ toNet = <<>> => toNet' = more
  BY <1>1, JoinedIs
<1>3. ASSUME NEW x
      PROVE  Coming(x)' = WillHave(Coming(x), more, x)
  BY <1>1, WillHaveBoth DEF Coming
<1>4. (Joining' <=> Joining) /\ (Lawful' <=> Lawful)
  BY DEF Joining, Lawful, Before
<1>5. ASSUME NEW x, Coming(x)' = Coming(x)
      PROVE  Pending(x)' <=> Pending(x)
  BY <1>5 DEF Pending
<1>6. LockStands'
  <2>1. SUFFICES ASSUME ~unlocked'
                 PROVE  /\ Lawful' /\ (Joining' => toNet' = <<>>)
                        /\ netAlive' => \A x \in Slots :
                             Joining' \/ (Held(x)' /\ Coming(x)' # Wanted(lock', x)) => Pending(x)'
    BY DEF LockStands
  <2>2. ~unlocked
    BY <2>1
  <2>3. Lawful' /\ (Joining' => toNet' = <<>>)
    BY <1>4, <2>1, <2>2 DEF LockStands
  <2>4. ASSUME netAlive', NEW x \in Slots, Joining' \/ (Held(x)' /\ Coming(x)' # Wanted(lock', x))
        PROVE  Pending(x)'
    <3>1. CASE Joining
      <4>1. more = <<>>
        BY <1>2, <1>4, <2>3, <3>1
      <4>2. Coming(x)' = Coming(x)
        BY <1>3, <4>1, NothingSaid
      <4>3. Pending(x)
        BY <2>2, <2>4, <3>1 DEF LockStands
      <4> QED BY <1>5, <4>2, <4>3
    <3>2. CASE ~Joining
      <4>1. Held(x)' /\ Coming(x)' # Wanted(lock', x)
        BY <1>4, <2>4, <3>2
      <4>2. ~Said(more, x)
        BY <1>3, <2>1, <2>4, <4>1 DEF WillHave
      <4>3. Held(x) /\ Wanted(lock', x) = Wanted(lock, x)
        BY <2>1, <2>4, <3>2, <4>1, <4>2
      <4>4. Coming(x)' = Coming(x)
        BY <1>3, <4>2 DEF WillHave
      <4>5. Pending(x)
        BY <2>2, <2>4, <4>1, <4>3, <4>4 DEF LockStands
      <4> QED BY <1>5, <4>4, <4>5
    <3> QED BY <3>1, <3>2
  <2> QED BY <2>3, <2>4
<1>7. ViewStands'
  <2>1. SUFFICES ASSUME ~raced'
                 PROVE  /\ toNet' = <<>> \/ toCs' = <<>>
                        /\ ~alive' => toNet' = <<>>
                        /\ Clean' => \A x \in Slots : WillView(Has(view', x), toCs', x) = Coming(x)'
    BY DEF ViewStands
  <2>2. ~raced /\ (toNet = <<>> \/ toCs = <<>>) /\ (~alive => toNet = <<>>) /\ (more = <<>> \/ toCs = <<>>)
    BY <2>1 DEF ViewStands
  <2>3. (toNet' = <<>> \/ toCs' = <<>>) /\ (~alive' => toNet' = <<>>)
    BY <1>2, <2>2
  <2>4. ASSUME Clean', NEW x \in Slots
        PROVE  WillView(Has(view', x), toCs', x) = Coming(x)'
    <3>1. Clean
      BY <2>2, <2>4 DEF Clean
    <3>2. WillView(Has(view, x), toCs, x) = Coming(x)
      BY <2>2, <3>1 DEF ViewStands
    <3>3. Has(view', x) = WillHave(Has(view, x), more, x)
      BY <2>4
    <3>4. CASE more = <<>>
      <4>1. Has(view', x) = Has(view, x) /\ Coming(x)' = Coming(x)
        BY <1>3, <3>3, <3>4, NothingSaid
      <4> QED BY <3>2, <4>1
    <3>5. CASE toCs = <<>>
      <4>1. \A v : WillView(v, toCs, x) = v
        BY <3>5 DEF WillView
      <4> QED BY <1>3, <3>2, <3>3, <4>1
    <3> QED BY <2>2, <3>4, <3>5
  <2> QED BY <2>3, <2>4
<1> QED BY <1>6, <1>7

\* Services take the first message: they send more, and have what it gives but
\* where they sent anything.
LEMMA TakingStands ==
  ASSUME ModesTyped, LockStands, ViewStands, NEW more \in Seq(Seq(C!Letter)),
         toCs # <<>>, NEW msg, msg = Head(toCs), toCs' = Tail(toCs),
         UNCHANGED <<netAlive, net, lock>>, toNet' = toNet \o more,
         more # <<>> => alive',
         ~unlocked => alive' = (msg.type # "part"),
         raced \/ (toNet' # <<>> /\ toCs' # <<>>) => raced',
         carried => carried', dropped => dropped', unlocked => unlocked',
         Joining' /\ toNet' # <<>> => unlocked',
         \A x \in Slots : ~unlocked' /\ Held(x)' =>
            \/ Said(more, x) /\ LastWord(more, x) = Wanted(lock, x)
            \/ ~Said(more, x) /\ (msg.type = "part" \/ (About(msg, x) => Gives(msg, x) = Wanted(lock, x))),
         Clean' => \A x \in Slots : Has(view', x) =
            WillHave(IF About(msg, x) THEN Gives(msg, x) ELSE Has(view, x), more, x)
  PROVE  LockStands' /\ ViewStands'
<1> DEFINE rest == Tail(toCs)
<1>n. toNet \in Seq(Seq(C!Letter)) /\ toCs \in Seq(C!Message)
  BY DEF ModesTyped
<1>r. rest = Tail(toCs) /\ toCs' = rest
  OBVIOUS
<1> HIDE DEF rest
<1>1. /\ msg \in C!Message /\ msg = toCs[1] /\ rest \in Seq(C!Message)
      /\ Len(toCs) = Len(rest) + 1 /\ Len(rest) \in Nat
      /\ \A i \in 1..Len(rest) : rest[i] = toCs[i + 1] /\ i + 1 \in 1..Len(toCs)
      /\ \A i \in 1..Len(toCs) : i = 1 \/ (i - 1 \in 1..Len(rest) /\ (i - 1) + 1 = i /\ rest[i - 1] = toCs[i])
      /\ rest = <<>> <=> Len(rest) = 0
      /\ 1 \in 1..Len(toCs)
  <2>1. /\ msg \in C!Message /\ msg = toCs[1] /\ rest \in Seq(C!Message)
        /\ Len(toCs) = Len(rest) + 1 /\ Len(rest) \in Nat
        /\ rest = <<>> <=> Len(rest) = 0
    BY <1>r, RestIs
  <2>2. /\ \A i \in 1..Len(rest) : rest[i] = toCs[i + 1] /\ i + 1 \in 1..Len(toCs)
        /\ \A i \in 1..Len(toCs) : i = 1 \/ (i - 1 \in 1..Len(rest) /\ (i - 1) + 1 = i /\ rest[i - 1] = toCs[i])
    BY <1>r, RestIs
  <2>3. 1 \in 1..Len(toCs)
    BY <2>1
  <2> QED BY <2>1, <2>2, <2>3
<1>2. /\ toNet' = <<>> <=> toNet = <<>> /\ more = <<>>
      /\ more = <<>> => toNet' = toNet
      /\ toNet = <<>> => toNet' = more
  BY <1>n, JoinedIs
<1>3. ASSUME NEW x
      PROVE  Coming(x)' = WillHave(Coming(x), more, x)
  BY <1>n, WillHaveBoth DEF Coming
<1>4. Joining' => Joining
  BY <1>1, <1>r DEF Joining
<1>5. ASSUME ~unlocked
      PROVE  Lawful'
  <2>1. Lawful /\ alive' = (msg.type # "part")
    BY <1>5 DEF LockStands
  <2>2. \A i \in 1..Len(rest) : Before(i)' = Before(i + 1)
    <3> TAKE i \in 1..Len(rest)
    <3>1. CASE i = 1
      BY <1>1, <2>1, <3>1 DEF Before
    <3>2. CASE i # 1
      <4>1. i - 1 \in 1..Len(rest) /\ rest[i - 1] = toCs[i] /\ (i + 1) - 1 = i /\ i + 1 # 1
        <5>1. i - 1 \in 1..Len(rest) /\ (i - 1) + 1 = i /\ (i + 1) - 1 = i /\ i + 1 # 1
          BY <1>1, <3>2
        <5> QED BY <1>1, <5>1
      <4> QED BY <1>r, <3>2, <4>1 DEF Before
    <3> QED BY <3>1, <3>2
  <2>3. \A i \in 1..Len(rest) : (rest[i].type = "sjoin") <=> ~Before(i)'
    <3> TAKE i \in 1..Len(rest)
    <3>1. rest[i] = toCs[i + 1] /\ i + 1 \in 1..Len(toCs)
      BY <1>1
    <3>2. (toCs[i + 1].type = "sjoin") <=> ~Before(i + 1)
      BY <2>1, <3>1 DEF Lawful
    <3> QED BY <2>2, <3>1, <3>2
  <2>4. netAlive <=> IF rest = <<>> THEN alive' ELSE rest[Len(rest)].type # "part"
    <3>1. netAlive <=> toCs[Len(toCs)].type # "part"
      BY <2>1 DEF Lawful
    <3>2. CASE rest = <<>>
      <4>1. Len(toCs) = 1
        BY <1>1, <3>2
      <4> QED BY <1>1, <2>1, <3>1, <3>2, <4>1
    <3>3. CASE rest # <<>>
      <4>1. Len(rest) \in 1..Len(rest)
        BY <1>1, <3>3
      <4> QED BY <1>1, <3>1, <3>3, <4>1
    <3> QED BY <3>2, <3>3
  <2> QED BY <1>r, <2>3, <2>4 DEF Lawful
<1>6. LockStands'
  <2>1. SUFFICES ASSUME ~unlocked'
                 PROVE  /\ Lawful' /\ (Joining' => toNet' = <<>>)
                        /\ netAlive' => \A x \in Slots :
                             Joining' \/ (Held(x)' /\ Coming(x)' # Wanted(lock', x)) => Pending(x)'
    BY DEF LockStands
  <2>2. ~unlocked /\ Lawful
    BY <2>1 DEF LockStands
  <2>3. Lawful' /\ (Joining' => toNet' = <<>>)
    BY <1>5, <2>1, <2>2
  <2>4. ASSUME netAlive', NEW x \in Slots, Joining' \/ (Held(x)' /\ Coming(x)' # Wanted(lock', x))
        PROVE  Pending(x)'
    <3>1. Coming(x)' = Coming(x)
      <4>1. CASE Said(more, x)
        <5>1. ~Joining'
          BY <1>2, <2>3, <4>1, NothingSaid
        <5>2. Held(x)' /\ Coming(x)' # Wanted(lock', x)
          BY <2>4, <5>1
        <5>3. LastWord(more, x) = Wanted(lock, x)
          BY <2>1, <4>1, <5>2
        <5> QED BY <1>3, <4>1, <5>2, <5>3 DEF WillHave
      <4>2. CASE ~Said(more, x)
        BY <1>3, <4>2 DEF WillHave
      <4> QED BY <4>1, <4>2
    <3>2. Joining \/ (Held(x) /\ Coming(x) # Wanted(lock, x))
      <4>1. CASE Joining'
        BY <1>4, <4>1
      <4>2. CASE ~Joining'
        <5>1. Held(x)' /\ Coming(x) # Wanted(lock, x)
          BY <2>4, <3>1, <4>2
        <5>2. Held(x)
          BY <5>1 DEF Held
        <5> QED BY <5>1, <5>2
      <4> QED BY <4>1, <4>2
    <3>3. Pending(x)
      BY <2>2, <2>4, <3>2 DEF LockStands
    <3>4. PICK i \in 1..Len(toCs) :
            /\ \A j \in 1..Len(toCs) : i < j => toCs[j].type = "mode"
            /\ toCs[i].type # "part" /\ About(toCs[i], x) /\ Gives(toCs[i], x) = Coming(x)
      BY <3>3 DEF Pending
    <3>5. i # 1
      <4>1. CASE Joining'
        <5>1. PICK j \in 1..Len(rest) : rest[j].type = "sjoin"
          BY <1>r, <4>1 DEF Joining
        <5>2. j + 1 \in 1..Len(toCs) /\ toCs[j + 1].type # "mode"
          BY <1>1, <5>1
        <5>3. ~(i < j + 1)
          BY <3>4, <5>2
        <5> QED BY <5>1, <5>3
      <4>2. CASE ~Joining'
        <5>1. Held(x)' /\ Coming(x)' # Wanted(lock, x)
          BY <2>4, <4>2
        <5>2. ~Said(more, x)
          BY <1>3, <2>1, <5>1 DEF WillHave
        <5>3. msg.type = "part" \/ (About(msg, x) => Gives(msg, x) = Wanted(lock, x))
          BY <2>1, <5>1, <5>2
        <5> QED BY <1>1, <3>1, <3>4, <5>1, <5>3
      <4> QED BY <4>1, <4>2
    <3>6. i - 1 \in 1..Len(rest) /\ rest[i - 1] = toCs[i]
      BY <1>1, <3>5
    <3>7. ASSUME NEW j \in 1..Len(rest), i - 1 < j
          PROVE  rest[j].type = "mode"
      <4>1. j + 1 \in 1..Len(toCs) /\ i < j + 1 /\ rest[j] = toCs[j + 1]
        BY <1>1, <3>7
      <4> QED BY <3>4, <4>1
    <3> QED BY <1>r, <3>1, <3>4, <3>6, <3>7 DEF Pending
  <2> QED BY <2>3, <2>4
<1>7. ViewStands'
  <2>1. SUFFICES ASSUME ~raced'
                 PROVE  /\ toNet' = <<>> \/ toCs' = <<>>
                        /\ ~alive' => toNet' = <<>>
                        /\ Clean' => \A x \in Slots : WillView(Has(view', x), toCs', x) = Coming(x)'
    BY DEF ViewStands
  <2>2. ~raced /\ toNet = <<>> /\ (toNet' = <<>> \/ toCs' = <<>>)
    BY <2>1 DEF ViewStands
  <2>3. ~alive' => toNet' = <<>>
    BY <1>2, <2>2
  <2>4. ASSUME Clean', NEW x \in Slots
        PROVE  WillView(Has(view', x), toCs', x) = Coming(x)'
    <3> DEFINE b == IF About(msg, x) THEN Gives(msg, x) ELSE Has(view, x)
    <3>1. Clean
      BY <2>2, <2>4 DEF Clean
    <3>2. WillView(Has(view, x), toCs, x) = Coming(x)
      BY <2>2, <3>1 DEF ViewStands
    <3>3. WillView(Has(view, x), toCs, x) = WillView(b, rest, x)
      BY <1>n, <1>r, WillViewRest
    <3>4. Has(view', x) = WillHave(b, more, x)
      BY <2>4
    <3> HIDE DEF b
    <3>5. CASE more = <<>>
      <4>1. Has(view', x) = b /\ Coming(x)' = Coming(x)
        BY <1>3, <3>4, <3>5, NothingSaid
      <4> QED BY <1>r, <3>2, <3>3, <4>1
    <3>6. CASE rest = <<>>
      <4>1. \A v : WillView(v, rest, x) = v
        BY <3>6 DEF WillView
      <4> QED BY <1>3, <1>r, <3>2, <3>3, <3>4, <4>1
    <3> QED BY <1>2, <1>r, <2>2, <3>5, <3>6
  <2> QED BY <2>2, <2>3, <2>4
<1> QED BY <1>6, <1>7

\* A user acts: services are told of it.
LEMMA ActingStands ==
  ASSUME ModesTyped, LockStands, ViewStands, NEW msg \in C!Message,
         toCs' = Append(toCs, msg), toNet' = toNet, UNCHANGED <<alive, view, lock, dropped, carried>>,
         raced' = (raced \/ toNet # <<>>), unlocked => unlocked',
         ~unlocked' => /\ msg.type = "sjoin" <=> ~netAlive
                       /\ netAlive' <=> msg.type # "part"
                       /\ msg.type = "sjoin" => toNet = <<>>,
         ~unlocked' => \A x \in Slots : Has(net', x) = IF About(msg, x) THEN Gives(msg, x) ELSE Has(net, x)
  PROVE  LockStands' /\ ViewStands'
<1> DEFINE q == Append(toCs, msg)
           last == Len(toCs) + 1
<1>n. toNet \in Seq(Seq(C!Letter)) /\ toCs \in Seq(C!Message)
  BY DEF ModesTyped
<1>1. /\ q \in Seq(C!Message) /\ Len(q) = last /\ Len(toCs) \in Nat /\ q[last] = msg /\ last \in 1..last
      /\ \A i \in 1..Len(toCs) : q[i] = toCs[i] /\ i \in 1..last /\ i # last
      /\ \A i \in 1..last : i \in 1..Len(toCs) \/ i = last
      /\ q # <<>>
  <2>1. q \in Seq(C!Message) /\ Len(q) = last /\ Len(toCs) \in Nat /\ q[last] = msg
    BY <1>n
  <2>2. \A i \in 1..Len(toCs) : q[i] = toCs[i] /\ i \in 1..last /\ i # last
    BY <1>n
  <2>3. last \in 1..last /\ \A i \in 1..last : i \in 1..Len(toCs) \/ i = last
    BY <1>n
  <2>4. q # <<>>
    BY <2>1, EmptySeq
  <2> QED BY <2>1, <2>2, <2>3, <2>4
<1>r. q = Append(toCs, msg) /\ toCs' = q
  OBVIOUS
<1>l. last - 1 = Len(toCs) /\ (last = 1 <=> toCs = <<>>)
  BY <1>n, EmptySeq
<1> HIDE DEF q, last
<1>3. ASSUME NEW x
      PROVE  Coming(x)' = WillHave(Has(net', x), toNet, x)
  BY DEF Coming
<1>4. ASSUME msg.type # "sjoin"
      PROVE  Joining' => Joining
  BY <1>1, <1>4, <1>r DEF Joining
<1>5. ASSUME ~unlocked'
      PROVE  Lawful'
  <2> DEFINE B(i) == IF i = 1 THEN alive ELSE q[i - 1].type # "part"
  <2>1. Lawful
    BY <1>5 DEF LockStands
  <2>2. \A i \in 1..Len(toCs) : B(i) <=> Before(i)
    <3> TAKE i \in 1..Len(toCs)
    <3>1. CASE i = 1
      BY <3>1 DEF Before
    <3>2. CASE i # 1
      <4>1. i - 1 \in 1..Len(toCs)
        BY <1>1, <3>2
      <4>2. q[i - 1] = toCs[i - 1]
        BY <1>1, <4>1
      <4> QED BY <3>2, <4>2 DEF Before
    <3> QED BY <3>1, <3>2
  <2>3. B(last) <=> netAlive
    <3>1. CASE toCs = <<>>
      <4>1. netAlive <=> alive
        BY <2>1, <3>1 DEF Lawful
      <4> QED BY <1>l, <3>1, <4>1
    <3>2. CASE toCs # <<>>
      <4>1. Len(toCs) \in 1..Len(toCs)
        BY <1>n, <3>2, EmptySeq
      <4>2. q[last - 1] = toCs[Len(toCs)]
        BY <1>1, <1>l, <4>1
      <4>3. netAlive <=> toCs[Len(toCs)].type # "part"
        BY <2>1, <3>2 DEF Lawful
      <4> QED BY <1>l, <3>2, <4>2, <4>3
    <3> QED BY <3>1, <3>2
  <2> HIDE DEF B
  <2>4. \A i \in 1..last : (q[i].type = "sjoin") <=> ~B(i)
    <3> TAKE i \in 1..last
    <3>1. CASE i \in 1..Len(toCs)
      <4>1. q[i] = toCs[i] /\ ((toCs[i].type = "sjoin") <=> ~Before(i))
        BY <1>1, <2>1, <3>1 DEF Lawful
      <4> QED BY <2>2, <3>1, <4>1
    <3>2. CASE i = last
      <4>1. q[i] = msg /\ (B(i) <=> netAlive)
        BY <1>1, <2>3, <3>2
      <4>2. (msg.type = "sjoin") <=> ~netAlive
        BY <1>5
      <4> QED BY <4>1, <4>2
    <3> QED BY <1>1, <3>1, <3>2
  <2>5. netAlive' <=> q[Len(q)].type # "part"
    BY <1>1, <1>5
  <2> QED BY <1>1, <1>r, <2>4, <2>5 DEF Lawful, Before, B
<1>6. LockStands'
  <2>1. SUFFICES ASSUME ~unlocked'
                 PROVE  /\ Lawful' /\ (Joining' => toNet' = <<>>)
                        /\ netAlive' => \A x \in Slots :
                             Joining' \/ (Held(x)' /\ Coming(x)' # Wanted(lock', x)) => Pending(x)'
    BY DEF LockStands
  <2>2. ~unlocked /\ Lawful /\ Lawful' /\ (Joining => toNet = <<>>)
    BY <1>5, <2>1 DEF LockStands
  <2>3. Joining' => toNet' = <<>>
    BY <1>4, <2>1, <2>2
  <2>4. ASSUME netAlive', NEW x \in Slots, Joining' \/ (Held(x)' /\ Coming(x)' # Wanted(lock', x))
        PROVE  Pending(x)'
    <3>1. msg.type # "part" /\ Has(net', x) = IF About(msg, x) THEN Gives(msg, x) ELSE Has(net, x)
      BY <2>1, <2>4
    <3>2. CASE About(msg, x) /\ ~Said(toNet, x)
      <4>1. Coming(x)' = Gives(msg, x)
        BY <1>3, <3>1, <3>2 DEF WillHave
      <4>2. \A j \in 1..last : ~(last < j)
        BY <1>1
      <4> QED BY <1>1, <1>r, <3>1, <3>2, <4>1, <4>2 DEF Pending
    <3>3. CASE ~About(msg, x) \/ Said(toNet, x)
      <4>1. Coming(x)' = Coming(x)
        BY <1>3, <3>1, <3>3 DEF WillHave, Coming
      <4>2. msg.type = "mode" /\ netAlive
        <5>1. msg.type # "sjoin"
          BY <2>1, <3>3, NothingSaid DEF About
        <5> QED BY <2>1, <3>1, <5>1, MessageIs
      <4>3. Joining \/ (Held(x) /\ Coming(x) # Wanted(lock, x))
        <5>1. CASE Joining'
          BY <1>4, <4>2, <5>1
        <5>2. CASE Held(x)' /\ Coming(x)' # Wanted(lock', x)
          BY <4>1, <5>2 DEF Held
        <5> QED BY <2>4, <5>1, <5>2
      <4>4. Pending(x)
        BY <2>2, <4>2, <4>3 DEF LockStands
      <4>5. PICK i \in 1..Len(toCs) :
              /\ \A j \in 1..Len(toCs) : i < j => toCs[j].type = "mode"
              /\ toCs[i].type # "part" /\ About(toCs[i], x) /\ Gives(toCs[i], x) = Coming(x)
        BY <4>4 DEF Pending
      <4>6. \A j \in 1..last : i < j => q[j].type = "mode"
        BY <1>1, <4>2, <4>5
      <4> QED BY <1>1, <1>r, <4>1, <4>5, <4>6 DEF Pending
    <3> QED BY <3>2, <3>3
  <2> QED BY <2>2, <2>3, <2>4
<1>7. ViewStands'
  <2>1. SUFFICES ASSUME ~raced'
                 PROVE  /\ toNet' = <<>> \/ toCs' = <<>>
                        /\ ~alive' => toNet' = <<>>
                        /\ Clean' => \A x \in Slots : WillView(Has(view', x), toCs', x) = Coming(x)'
    BY DEF ViewStands
  <2>2. ~raced /\ toNet = <<>>
    BY <2>1
  <2>3. ASSUME Clean', NEW x \in Slots
        PROVE  WillView(Has(view', x), toCs', x) = Coming(x)'
    <3>1. Clean /\ ~unlocked'
      BY <2>2, <2>3 DEF Clean
    <3>2. WillView(Has(view, x), toCs, x) = Has(net, x)
      BY <2>2, <3>1, NothingSaid DEF ViewStands, Coming
    <3>3. Coming(x)' = IF About(msg, x) THEN Gives(msg, x) ELSE Has(net, x)
      BY <1>3, <2>2, <3>1, NothingSaid
    <3>4. WillView(Has(view, x), q, x) = IF About(msg, x) THEN Gives(msg, x) ELSE WillView(Has(view, x), toCs, x)
      BY <1>n, <1>r, WillViewMore
    <3> QED BY <1>r, <3>2, <3>3, <3>4
  <2> QED BY <2>2, <2>3
<1> QED BY <1>6, <1>7

-----------------------------------------------------------------------------
(* What services send of their own accord *)

\* A message after another one, as what is more under way.
Two(a, b) == C!Post(C!Post(<<>>, a), b)
LEMMA TwoAre ==
  ASSUME NEW q \in Seq(Seq(C!Letter)), NEW a \in Seq(C!Letter), NEW b \in Seq(C!Letter)
  PROVE  /\ Two(a, b) \in Seq(Seq(C!Letter)) /\ C!Post(C!Post(q, a), b) = q \o Two(a, b)
         /\ Two(a, b) = <<>> <=> a = <<>> /\ b = <<>>
         /\ \A x : Said(Two(a, b), x) <=> Mentions(a, x) \/ Mentions(b, x)
         /\ \A x, v : WillHave(v, Two(a, b), x) =
              IF Mentions(b, x) THEN Verdict(b, x) ELSE IF Mentions(a, x) THEN Verdict(a, x) ELSE v
<1>1. <<>> \in Seq(Seq(C!Letter))
  OBVIOUS
<1>2. Posted(<<>>, a, C!Post(<<>>, a))
  BY <1>1, PostIs
<1>3. C!Post(<<>>, a) \in Seq(Seq(C!Letter))
  BY <1>2 DEF Posted
<1>4. Posted(C!Post(<<>>, a), b, Two(a, b))
  BY <1>3, PostIs DEF Two
<1>5. \A r \in Seq(Seq(C!Letter)), m \in Seq(C!Letter) : C!Post(r, m) = IF m = <<>> THEN r ELSE r \o <<m>>
  BY DEF C!Post, C!If
<1>6. C!Post(C!Post(q, a), b) = q \o Two(a, b)
  <2>a. <<a>> \in Seq(Seq(C!Letter)) /\ <<b>> \in Seq(Seq(C!Letter))
    OBVIOUS
  <2>1. q \o <<>> = q /\ <<>> \o <<a>> = <<a>> /\ <<>> \o <<b>> = <<b>>
    BY <1>1, <2>a, JoinedIs
  <2>6. q \o <<a>> \in Seq(Seq(C!Letter))
    BY <2>a
  <2>7. C!Post(<<>>, a) = IF a = <<>> THEN <<>> ELSE <<a>>
    BY <1>1, <1>5, <2>1
  <2>8. C!Post(q, a) = IF a = <<>> THEN q ELSE q \o <<a>>
    BY <1>5
  <2>2. CASE a = <<>> /\ b = <<>>
    BY <1>1, <1>5, <2>1, <2>2 DEF Two
  <2>3. CASE a # <<>> /\ b = <<>>
    BY <2>a, <1>5, <2>1, <2>3, <2>6, <2>7, <2>8 DEF Two
  <2>4. CASE a = <<>> /\ b # <<>>
    <3>1. C!Post(<<>>, a) = <<>> /\ C!Post(q, a) = q
      BY <2>4, <2>7, <2>8
    <3>2. C!Post(<<>>, b) = <<b>> /\ C!Post(q, b) = q \o <<b>>
      BY <1>1, <1>5, <2>1, <2>4
    <3> QED BY <3>1, <3>2 DEF Two
  <2>5. CASE a # <<>> /\ b # <<>>
    <3>1. Two(a, b) = <<a>> \o <<b>> /\ C!Post(C!Post(q, a), b) = (q \o <<a>>) \o <<b>>
      BY <2>a, <1>5, <2>5, <2>6, <2>7, <2>8 DEF Two
    <3>2. (q \o <<a>>) \o <<b>> = q \o (<<a>> \o <<b>>)
      OBVIOUS
    <3> QED BY <3>1, <3>2
  <2> QED BY <2>2, <2>3, <2>4, <2>5
<1>7. \A x, v : WillHave(v, C!Post(<<>>, a), x) = IF Mentions(a, x) THEN Verdict(a, x) ELSE v
  BY <1>2, NothingSaid DEF Posted
<1>8. \A x : Said(C!Post(<<>>, a), x) <=> Mentions(a, x)
  BY <1>2, NothingSaid DEF Posted
<1>9. Two(a, b) = <<>> <=> a = <<>> /\ b = <<>>
  BY <1>2, <1>4 DEF Posted
<1> QED BY <1>4, <1>6, <1>7, <1>8, <1>9 DEF Posted

\* What there is under way from the network that can be crossed.
LEMMA CrossesIs ==
  ASSUME ModesTyped
  PROVE  /\ \A q : C!Crosses(q, toCs) <=> q # <<>> /\ Joining
         /\ \A q : toCs # <<>> /\ toCs' = Tail(toCs) => (C!Crosses(q, Tail(toCs)) <=> q # <<>> /\ Joining')
<1>1. toCs \in Seq(C!Message) /\ DOMAIN toCs = 1..Len(toCs)
  BY DEF ModesTyped
<1>2. toCs # <<>> => Tail(toCs) \in Seq(C!Message) /\ DOMAIN Tail(toCs) = 1..Len(Tail(toCs))
  BY <1>1
<1> QED BY <1>1, <1>2 DEF C!Crosses, Joining

ModesStand == ModesTyped /\ LockStands /\ ViewStands

\* Set, the lock changes what it says, unless bits are carried or letters dropped.
Changed(ch, lk, s, e) ==
  /\ e \in C!Modes /\ Says(lk, lk.on, lk.off, FALSE, s)
  /\ e.mode = (ch.mode \ lk.off) \cup lk.on /\ ~C!Drops(lk, lk.off) =>
       \A x \in Slots : Has(e, x) = IF Mentions(s, x) THEN Verdict(s, x) ELSE Has(ch, x)
LEMMA SetEnforces ==
  ASSUME NEW lk \in C!Lock, lk.on \cap lk.off = {}, NEW ch \in C!Modes,
         NEW s, s = C!Sent(lk, lk.on, lk.off, FALSE), NEW e, e = C!EnforcedOnSet(ch, lk)
  PROVE  Changed(ch, lk, s, e)
<1>1. Says(lk, lk.on, lk.off, FALSE, s)
  BY SentSays
<1>3. /\ lk.on \subseteq Simple /\ lk.off \subseteq Simple
      /\ lk.key \in Args \cup {C!Unsaid, C!Off} /\ lk.limit \in Args \cup {C!Unsaid, C!Off}
      /\ C!Off \notin Args /\ C!Unsaid \notin Args /\ C!Off # C!Unsaid /\ Args \subseteq Nat
  BY LockIs
<1>4. C!Locked(ch, lk, FALSE) =
        [ch EXCEPT !.key = IF lk.key = C!Off THEN 0 ELSE IF lk.key \in Args /\ ~FALSE THEN lk.key ELSE @,
                   !.limit = IF lk.limit = C!Off THEN 0 ELSE IF lk.limit \in Args /\ ~FALSE THEN lk.limit ELSE @]
  BY DEF C!Locked
<1>5. ch = [mode |-> ch.mode, key |-> ch.key, limit |-> ch.limit, ops |-> ch.ops, voices |-> ch.voices]
      /\ ch.mode \subseteq Simple /\ ch.key \in Nat /\ ch.limit \in Nat /\ ch.ops \subseteq Members
      /\ ch.voices \subseteq Members
  BY DEF C!Modes
<1> DEFINE some == C!Letters(C!Numbered(ch, lk))
<1>s. some \subseteq Simple
  BY DEF C!Letters
<1>e. e = [C!Locked(ch, lk, FALSE) EXCEPT !.mode = some]
  BY DEF C!EnforcedOnSet
<1> HIDE DEF some
<1>6. /\ e.mode = some /\ e.ops = ch.ops /\ e.voices = ch.voices
      /\ e.key = IF lk.key = C!Off THEN 0 ELSE IF lk.key \in Args THEN lk.key ELSE ch.key
      /\ e.limit = IF lk.limit = C!Off THEN 0 ELSE IF lk.limit \in Args THEN lk.limit ELSE ch.limit
      /\ e = [mode |-> e.mode, key |-> e.key, limit |-> e.limit, ops |-> e.ops, voices |-> e.voices]
  BY <1>4, <1>5, <1>e
<1>7. e \in C!Modes
  <2>1. e.key \in Nat /\ e.limit \in Nat
    BY <1>3, <1>5, <1>6
  <2> QED BY <1>5, <1>6, <1>s, <2>1 DEF C!Modes
<1>8. ASSUME e.mode = (ch.mode \ lk.off) \cup lk.on, ~C!Drops(lk, lk.off), NEW x \in Slots
      PROVE  Has(e, x) = IF Mentions(s, x) THEN Verdict(s, x) ELSE Has(ch, x)
  <2>0. Mentions(s, x) => Verdict(s, x) = Wanted(lk, x)
    BY <1>1 DEF Says
  <2>1. ASSUME NEW c \in Simple, x = <<c, 0>>
        PROVE  Has(e, x) = IF Mentions(s, x) THEN Wanted(lk, x) ELSE Has(ch, x)
    <3>1. Has(e, x) = Bit(c \in e.mode) /\ Has(ch, x) = Bit(c \in ch.mode)
      BY <2>1, HasAt
    <3>2. Mentions(s, x) <=> c \in lk.on \cup lk.off
      BY <1>1, <2>1 DEF Says
    <3>3. Wanted(lk, x) = IF c \in lk.on THEN 1 ELSE 0
      BY <2>1, ModesAssumption DEF Wanted
    <3> QED BY <1>8, <3>1, <3>2, <3>3 DEF Bit
  <2>2. /\ lk.key = C!Off => C!FitsK(lk.off)
        /\ lk.limit = C!Off => C!FitsL(lk, lk.off)
    BY <1>8 DEF C!Drops
  <2>3. CASE x = <<"k", 0>>
    <3>1. Has(e, x) = e.key /\ Has(ch, x) = ch.key /\ Wanted(lk, x) = IF lk.key \in Args THEN lk.key ELSE 0
      BY <2>3, HasAt DEF Wanted
    <3>2. Mentions(s, x) <=> lk.key = C!Off \/ lk.key \in Args
      BY <1>1, <2>2, <2>3 DEF Says
    <3> QED BY <1>3, <1>6, <2>0, <3>1, <3>2
  <2>4. CASE x = <<"l", 0>>
    <3>1. Has(e, x) = e.limit /\ Has(ch, x) = ch.limit /\ Wanted(lk, x) = IF lk.limit \in Args THEN lk.limit ELSE 0
      BY <2>4, HasAt DEF Wanted
    <3>2. Mentions(s, x) <=> lk.limit = C!Off \/ lk.limit \in Args
      BY <1>1, <2>2, <2>4 DEF Says
    <3> QED BY <1>3, <1>6, <2>0, <3>1, <3>2
  <2>5. ASSUME NEW u \in Members, x = <<"o", u>> \/ x = <<"v", u>>
        PROVE  Has(e, x) = Has(ch, x) /\ ~Mentions(s, x)
    <3>1. ~Mentions(s, <<"o", u>>) /\ ~Mentions(s, <<"v", u>>)
      BY <1>1 DEF Says
    <3>2. e.ops = ch.ops /\ e.voices = ch.voices
      BY <1>6
    <3>3. Has(e, <<"o", u>>) = Has(ch, <<"o", u>>) /\ Has(e, <<"v", u>>) = Has(ch, <<"v", u>>)
      BY <3>2, HasAt
    <3> QED BY <2>5, <3>1, <3>3
  <2> QED BY <2>0, <2>1, <2>3, <2>4, <2>5, SlotKinds
<1> QED BY <1>1, <1>7, <1>8 DEF Changed

LEMMA StoredIs ==
  ASSUME NEW lk \in C!Lock
  PROVE  /\ C!Stored(lk) \in C!Lock /\ C!Stored(lk).on = lk.on /\ C!Stored(lk).off = lk.off
         /\ C!Stored(lk).key = C!Off => lk.key = C!Off /\ C!FitsK(lk.off)
<1> DEFINE k == IF lk.key = C!Off /\ ~C!FitsK(lk.off) THEN C!Unsaid ELSE lk.key
           m == IF lk.limit = C!Off /\ ~C!FitsL(lk, lk.off) THEN C!Unsaid ELSE lk.limit
<1>1. lk = [on |-> lk.on, off |-> lk.off, key |-> lk.key, limit |-> lk.limit]
      /\ lk.on \subseteq Simple /\ lk.off \subseteq Simple
  BY DEF C!Lock
<1>2. C!Stored(lk) = [lk EXCEPT !.key = k, !.limit = m]
  BY <1>1 DEF C!Stored
<1>3. k \in Args \cup {C!Unsaid, C!Off} /\ m \in Args \cup {C!Unsaid, C!Off}
  BY LockIs
<1>4. k = C!Off => lk.key = C!Off /\ C!FitsK(lk.off)
  BY LockIs
<1> HIDE DEF k, m
<1>5. C!Stored(lk) = [on |-> lk.on, off |-> lk.off, key |-> k, limit |-> m]
  BY <1>1, <1>2
<1> QED BY <1>1, <1>3, <1>4, <1>5 DEF C!Lock

LEMMA WantedAt ==
  ASSUME NEW lk, NEW other, lk.on = other.on, NEW c \in Simple
  PROVE  Wanted(lk, <<c, 0>>) = Wanted(other, <<c, 0>>)
<1>1. c # "k" /\ c # "l"
  BY ModesAssumption
<1> QED BY <1>1 DEF Wanted

\* SET MLOCK, while services have no channel to set it on.
LEMMA SetMlockAway ==
  ASSUME ModesStand, NEW lk \in Locks, NEW saved \in BOOLEAN, C!SetMlock(lk, saved), ~alive
  PROVE  ModesStand'
<1>1. lk \in C!Lock /\ C!Stored(lk) \in C!Lock /\ C!Stored(lk).on = lk.on /\ C!Stored(lk).off = lk.off
      /\ C!Stored(lk) # NoLock
  BY StoredIs, ModesAssumption
<1>2. /\ changes < MaxChanges /\ changes' = changes + 1 /\ lk.on \cap lk.off = {}
      /\ lock' = IF saved THEN C!Stored(lk) ELSE lock
      /\ cut' = IF saved THEN FALSE ELSE cut
      /\ UNCHANGED <<netAlive, alive, net, view, autolimit, toNet, toCs, raced, carried, dropped, unlocked>>
  BY DEF C!SetMlock, C!Commanded, C!history
<1>3. ModesTyped /\ LockStands /\ ViewStands
  BY DEF ModesStand
<1>4. ModesTyped'
  <2>1. lock' \in C!Lock \cup {NoLock} /\ (lock' # NoLock => lock'.on \cap lock'.off = {})
    BY <1>1, <1>2, <1>3 DEF ModesTyped
  <2>2. changes' \in 0..MaxChanges
    BY <1>2, <1>3, ModesAssumption DEF ModesTyped
  <2>3. cut' \in BOOLEAN /\ (~alive => ~cut')
    BY <1>2, <1>3 DEF ModesTyped
  <2> QED BY <1>2, <1>3, <2>1, <2>2, <2>3 DEF ModesTyped
<1>5. <<>> \in Seq(Seq(C!Letter)) /\ toNet \in Seq(Seq(C!Letter)) /\ toNet' = toNet \o <<>>
  BY <1>2, <1>3 DEF ModesTyped
<1>6. ~unlocked' /\ netAlive => Joining
  BY <1>2, <1>3, GoneIsJoining DEF LockStands
<1>7. Joining /\ toNet' # <<>> => unlocked'
  BY <1>2, <1>3 DEF LockStands
<1> DEFINE more == <<>>
<1>8. more = <<>> /\ more \in Seq(Seq(C!Letter))
  BY <1>5
<1> HIDE DEF more
<1>9. \A x \in Slots : Has(view', x) = WillHave(Has(view, x), more, x) /\ ~Said(more, x)
  BY <1>2, <1>8, NothingSaid
<1>10. LockStands' /\ ViewStands'
  BY <1>2, <1>3, <1>5, <1>6, <1>7, <1>8, <1>9, SendingStands
<1> QED BY <1>4, <1>10 DEF ModesStand

LEMMA SetMlockStands ==
  ASSUME ModesStand, NEW lk \in Locks, NEW saved \in BOOLEAN, C!SetMlock(lk, saved), alive
  PROVE  ModesStand'
<1>1. lk \in C!Lock /\ C!Stored(lk) \in C!Lock /\ C!Stored(lk).on = lk.on /\ C!Stored(lk).off = lk.off
      /\ C!Stored(lk) # NoLock /\ (C!Stored(lk).key = C!Off => lk.key = C!Off /\ C!FitsK(lk.off))
      /\ C!Off \notin Args
  BY StoredIs, LockIs, ModesAssumption
<1> DEFINE s == C!Sent(lk, lk.on, lk.off, FALSE)
<1>2. /\ changes < MaxChanges /\ changes' = changes + 1 /\ lk.on \cap lk.off = {}
      /\ lock' = IF saved THEN C!Stored(lk) ELSE lock
      /\ cut' = IF saved THEN FALSE ELSE cut
      /\ view' = C!EnforcedOnSet(view, lk)
      /\ toNet' = C!Post(toNet, s)
      /\ carried' = (carried \/ view'.mode # (view.mode \ lk.off) \cup lk.on)
      /\ raced' = (raced \/ C!Races(s, toCs))
      /\ dropped' = (dropped \/ C!Drops(lk, lk.off))
      /\ unlocked' = (unlocked \/ C!Crosses(toNet', toCs) \/ (~saved /\ lock # NoLock))
      /\ UNCHANGED <<netAlive, alive, net, autolimit, toCs>>
  BY DEF C!SetMlock, C!Commanded
<1>3. ModesTyped /\ LockStands /\ ViewStands
  BY DEF ModesStand
<1>s. s = C!Sent(lk, lk.on, lk.off, FALSE)
  OBVIOUS
<1> HIDE DEF s
<1>v. view \in C!Modes /\ toNet \in Seq(Seq(C!Letter))
  BY <1>3 DEF ModesTyped
<1>4. /\ view' \in C!Modes /\ Says(lk, lk.on, lk.off, FALSE, s)
      /\ view'.mode = (view.mode \ lk.off) \cup lk.on /\ ~C!Drops(lk, lk.off) =>
           \A x \in Slots : Has(view', x) = IF Mentions(s, x) THEN Verdict(s, x) ELSE Has(view, x)
  <2>1. lk.on \cap lk.off = {} /\ view' = C!EnforcedOnSet(view, lk)
    BY <1>2
  <2>2. Changed(view, lk, s, view')
    BY <1>1, <1>s, <1>v, <2>1, SetEnforces
  <2> QED BY <2>2 DEF Changed
<1> DEFINE none == <<>>
           more == Two(s, none)
<1>5. s \in Seq(C!Letter) /\ none \in Seq(C!Letter)
  BY <1>4 DEF Says
<1>n. none = <<>> /\ \A x : ~Mentions(none, x)
  BY DEF Mentions
<1> HIDE DEF none
<1>6. /\ more \in Seq(Seq(C!Letter)) /\ C!Post(C!Post(toNet, s), none) = toNet \o more
      /\ more = <<>> <=> s = <<>> /\ none = <<>>
      /\ \A x : Said(more, x) <=> Mentions(s, x) \/ Mentions(none, x)
      /\ \A x, v : WillHave(v, more, x) =
           IF Mentions(none, x) THEN Verdict(none, x) ELSE IF Mentions(s, x) THEN Verdict(s, x) ELSE v
  BY <1>5, <1>v, TwoAre
<1>7. C!Post(C!Post(toNet, s), none) = toNet'
  <2>1. \A q : C!Post(q, <<>>) = q \o <<>>
    BY DEF C!Post, C!If
  <2>2. Posted(toNet, s, toNet')
    BY <1>2, <1>5, <1>v, PostIs
  <2>3. toNet' \o <<>> = toNet'
    BY <2>2 DEF Posted
  <2> QED BY <1>2, <1>n, <2>1, <2>3
<1> HIDE DEF more
<1>8. /\ \A x : Said(more, x) <=> Mentions(s, x)
      /\ \A x, v : WillHave(v, more, x) = IF Mentions(s, x) THEN Verdict(s, x) ELSE v
  BY <1>6, <1>n
<1>9. \A x : Said(more, x) => LastWord(more, x) = Verdict(s, x)
  BY <1>8 DEF WillHave
<1>10. ModesTyped'
  <2>1. lock' \in C!Lock \cup {NoLock} /\ (lock' # NoLock => lock'.on \cap lock'.off = {})
    BY <1>1, <1>2, <1>3 DEF ModesTyped
  <2>2. changes' \in 0..MaxChanges
    BY <1>2, <1>3, ModesAssumption DEF ModesTyped
  <2>3. cut' \in BOOLEAN
    BY <1>2, <1>3 DEF ModesTyped
  <2>4. toNet' \in Seq(Seq(C!Letter))
    <3>1. toNet' = toNet \o more /\ more \in Seq(Seq(C!Letter))
      BY <1>6, <1>7
    <3> QED BY <1>v, <3>1
  <2>5. /\ carried' \in BOOLEAN /\ raced' \in BOOLEAN /\ dropped' \in BOOLEAN /\ unlocked' \in BOOLEAN
    BY <1>2
  <2>6. /\ netAlive' \in BOOLEAN /\ alive' = TRUE /\ autolimit' \in BOOLEAN /\ net' \in C!Modes
        /\ toCs' \in Seq(C!Message) /\ Len(toCs') <= MaxQueue
    BY <1>2, <1>3 DEF ModesTyped
  <2> QED BY <1>4, <2>1, <2>2, <2>3, <2>4, <2>5, <2>6 DEF ModesTyped
<1>11. ASSUME NEW x \in Slots, ~unlocked', Held(x)'
       PROVE  Said(more, x) /\ LastWord(more, x) = Wanted(lock', x)
  <2>1. saved /\ lock' = C!Stored(lk)
    <3>1. lock' # NoLock
      BY <1>11 DEF Held
    <3> QED BY <1>2, <1>11, <3>1
  <2>2. Mentions(s, x) => Verdict(s, x) = Wanted(lk, x)
    BY <1>4 DEF Says
  <2>3. CASE \E c \in lk.on \cup lk.off : x = <<c, 0>>
    <3>1. PICK c \in lk.on \cup lk.off : x = <<c, 0>>
      BY <2>3
    <3>2. c \in Simple
      BY <1>1, LockIs
    <3>3. Mentions(s, x)
      BY <1>4, <3>1, <3>2 DEF Says
    <3>4. Wanted(lock', x) = Wanted(lk, x)
      BY <1>1, <2>1, <3>1, <3>2, WantedAt
    <3> QED BY <1>8, <1>9, <2>2, <3>3, <3>4
  <2>4. CASE x = <<"k", 0>> /\ C!Stored(lk).key = C!Off
    <3>1. Mentions(s, x)
      BY <1>1, <1>4, <2>4 DEF Says
    <3>2. Wanted(lock', x) = Wanted(lk, x)
      BY <1>1, <2>1, <2>4 DEF Wanted
    <3> QED BY <1>8, <1>9, <2>2, <3>1, <3>2
  <2> QED BY <1>1, <1>11, <2>1, <2>3, <2>4 DEF Held
<1>12. ASSUME Clean', NEW x \in Slots
       PROVE  Has(view', x) = WillHave(Has(view, x), more, x)
  <2>1. view'.mode = (view.mode \ lk.off) \cup lk.on /\ ~C!Drops(lk, lk.off)
    BY <1>2, <1>12 DEF Clean
  <2> QED BY <1>4, <1>8, <2>1
<1>13. /\ Joining /\ toNet' # <<>> => unlocked'
       /\ raced \/ (more # <<>> /\ toCs # <<>>) => raced'
       /\ (carried => carried') /\ (dropped => dropped') /\ (unlocked => unlocked')
  BY <1>2, <1>3, <1>6, <1>n, CrossesIs DEF C!Races
<1>14. toNet' = toNet \o more /\ more \in Seq(Seq(C!Letter))
  BY <1>6, <1>7
<1>15. LockStands' /\ ViewStands'
  BY <1>2, <1>3, <1>11, <1>12, <1>13, <1>14, SendingStands
<1> QED BY <1>10, <1>15 DEF ModesStand

\* What the lock holds is no limit, nor an operator's or a voice's flag.
LEMMA HeldIs ==
  ASSUME ModesTyped, NEW x, Held(x)
  PROVE  x[1] \notin {"l", "o", "v"}
<1>1. lock \in C!Lock
  BY DEF ModesTyped, Held
<1>2. \A c \in lock.on \cup lock.off : c \in Simple
  BY <1>1, LockIs
<1> QED BY <1>2, ModesAssumption DEF Held

\* SET MLOCK - and SET AUTOLIMIT send nothing.
LEMMA UnsetMlockStands ==
  ASSUME ModesStand, C!UnsetMlock \/ C!SetAutolimit
  PROVE  ModesStand'
<1>1. ModesTyped /\ LockStands /\ ViewStands
  BY DEF ModesStand
<1>2. /\ changes < MaxChanges /\ changes' = changes + 1
      /\ UNCHANGED <<netAlive, alive, net, view, toNet, toCs, raced, carried, dropped, unlocked>>
      /\ (lock' = NoLock /\ cut' = FALSE /\ autolimit' = autolimit)
         \/ (lock' = lock /\ cut' = cut /\ autolimit' = ~autolimit /\ alive)
  BY DEF C!UnsetMlock, C!SetAutolimit, C!Commanded, C!history
<1>3. ModesTyped'
  <2>1. changes' \in 0..MaxChanges
    BY <1>1, <1>2, ModesAssumption DEF ModesTyped
  <2>2. CASE lock' = NoLock /\ cut' = FALSE /\ autolimit' = autolimit
    BY <1>1, <1>2, <2>1, <2>2 DEF ModesTyped
  <2>3. CASE lock' = lock /\ cut' = cut /\ autolimit' = ~autolimit /\ alive
    BY <1>1, <1>2, <2>1, <2>3 DEF ModesTyped
  <2> QED BY <1>2, <2>2, <2>3
<1> DEFINE more == <<>>
<1>4. more = <<>> /\ more \in Seq(Seq(C!Letter)) /\ toNet' = toNet \o more
  BY <1>1, <1>2 DEF ModesTyped
<1> HIDE DEF more
<1>5. \A x \in Slots : Has(view', x) = WillHave(Has(view, x), more, x) /\ ~Said(more, x)
  BY <1>2, <1>4, NothingSaid
<1>6. \A x \in Slots : Held(x)' => Held(x) /\ Wanted(lock', x) = Wanted(lock, x)
  BY <1>2 DEF Held
<1>7. Joining /\ toNet' # <<>> => unlocked'
  BY <1>1, <1>2 DEF LockStands
<1> QED BY <1>1, <1>2, <1>3, <1>4, <1>5, <1>6, <1>7, SendingStands DEF ModesStand

\* Services send a message about what no lock holds, and note it.
LEMMA OneMoreStands ==
  ASSUME ModesStand, alive, NEW ls \in Seq(C!Letter), toNet' = Append(toNet, ls),
         view' \in C!Modes,
         \A x \in Slots : /\ Has(view', x) = IF Mentions(ls, x) THEN Verdict(ls, x) ELSE Has(view, x)
                          /\ Mentions(ls, x) => x[1] \in {"l", "o", "v"},
         raced' = (raced \/ toCs # <<>>), unlocked' = (unlocked \/ C!Crosses(toNet', toCs)),
         changes' \in 0..MaxChanges,
         UNCHANGED <<netAlive, alive, net, lock, cut, autolimit, toCs, carried, dropped>>
  PROVE  ModesStand'
<1>1. ModesTyped /\ LockStands /\ ViewStands
  BY DEF ModesStand
<1>t. toNet \in Seq(Seq(C!Letter))
  BY <1>1 DEF ModesTyped
<1> DEFINE more == <<ls>>
<1>2. more \in Seq(Seq(C!Letter)) /\ toNet' = toNet \o more /\ more # <<>>
  <2>1. <<ls>> \in Seq(Seq(C!Letter)) /\ <<ls>> # <<>>
    OBVIOUS
  <2>2. Append(toNet, ls) = toNet \o <<ls>>
    BY <1>t, AppendIsConcat
  <2> QED BY <2>1, <2>2
<1>3. toNet' \in Seq(Seq(C!Letter)) /\ toNet' # <<>>
  BY <1>t
<1>4. ModesTyped'
  <2>1. unlocked' \in BOOLEAN /\ raced' \in BOOLEAN
    OBVIOUS
  <2> QED BY <1>1, <1>3, <2>1 DEF ModesTyped
<1>5. \A x, v : WillHave(v, more, x) = IF Mentions(ls, x) THEN Verdict(ls, x) ELSE v
  BY WillHaveOne
<1>6. \A x : Said(more, x) <=> Mentions(ls, x)
  BY WillHaveOne
<1> HIDE DEF more
<1>7. \A x \in Slots : Has(view', x) = WillHave(Has(view, x), more, x)
  BY <1>5
<1>8. \A x \in Slots : Held(x)' => Held(x) /\ Wanted(lock', x) = Wanted(lock, x) /\ ~Said(more, x)
  <2> TAKE x \in Slots
  <2>1. Held(x)' => Held(x)
    BY DEF Held
  <2> QED BY <1>1, <1>6, <2>1, HeldIs
<1>9. Joining /\ toNet' # <<>> => unlocked'
  BY <1>1, CrossesIs
<1>10. LockStands' /\ ViewStands'
  BY <1>1, <1>2, <1>7, <1>8, <1>9, SendingStands
<1> QED BY <1>4, <1>10 DEF ModesStand

LEMMA SendFlagsStands ==
  ASSUME ModesStand, NEW d \in {"+", "-"}, NEW c \in {"o", "v"}, NEW us \in SUBSET Members,
         C!SendFlags(d, c, us)
  PROVE  ModesStand'
<1> DEFINE S == {C!Change(d, c, u) : u \in us}
           ls == C!SetToSeq(S)
<1>1. /\ alive /\ changes < MaxChanges /\ changes' = changes + 1
      /\ view' = C!ApplyAll(view, ls) /\ toNet' = Append(toNet, ls)
      /\ raced' = (raced \/ toCs # <<>>) /\ unlocked' = (unlocked \/ C!Crosses(toNet', toCs))
      /\ UNCHANGED <<netAlive, alive, net, lock, cut, autolimit, toCs, carried, dropped>>
  BY DEF C!SendFlags, C!Commanded
<1>2. S \subseteq C!Letter
  BY DEF C!Change, C!Letter
<1>3. IsFiniteSet(S)
  <2>1. IsFiniteSet(us)
    BY ModesAssumption, FS_Subset
  <2>2. [u \in us |-> C!Change(d, c, u)] \in Surjection(us, S)
    BY DEF Surjection
  <2> QED BY <2>1, <2>2, FS_Surjection
<1>4. C!SetToSeq(S) \in Seq(S) /\ \A l : Among(C!SetToSeq(S), l) <=> l \in S
  BY <1>3, SequenceOf
<1>5. ls \in Seq(C!Letter)
  BY <1>2, <1>4
<1>6. \A l \in S : l.c = c
  BY DEF C!Change
<1> HIDE DEF ls, S
<1>7. \A l : Among(ls, l) => l \in S
  BY <1>4 DEF ls
<1>8. ASSUME NEW x, Mentions(ls, x)
      PROVE  x[1] \in {"l", "o", "v"}
  <2>1. PICK l \in C!Letter : Among(ls, l) /\ Slot(l) = x
    BY <1>5, <1>8, MentionsAre
  <2>2. x[1] = c
    BY <1>6, <1>7, <2>1 DEF Slot
  <2> QED BY <2>2
<1>9. ModesTyped /\ view \in C!Modes
  BY DEF ModesStand, ModesTyped
<1>10. view' \in C!Modes /\ \A x \in Slots : Has(view', x) = IF Mentions(ls, x) THEN Verdict(ls, x) ELSE Has(view, x)
  BY <1>1, <1>5, <1>9, ApplyAllIs
<1>11. changes' \in 0..MaxChanges
  BY <1>1, <1>9, ModesAssumption DEF ModesTyped
<1> QED BY <1>1, <1>5, <1>8, <1>10, <1>11, OneMoreStands

LEMMA ProcessLimitListStands ==
  ASSUME ModesStand, NEW n \in Nat, C!ProcessLimitList(n)
  PROVE  ModesStand'
<1> DEFINE l == C!Change("+", "l", n + Room)
           ls == <<l>>
<1>1. /\ alive
      /\ view' = [view EXCEPT !.limit = n + Room] /\ toNet' = Append(toNet, ls)
      /\ raced' = (raced \/ toCs # <<>>) /\ unlocked' = (unlocked \/ C!Crosses(toNet', toCs))
      /\ UNCHANGED <<netAlive, alive, net, lock, cut, autolimit, toCs, changes, carried, dropped>>
  BY DEF C!ProcessLimitList
<1>2. n + Room \in Nat
  BY ModesAssumption
<1>3. l \in C!Letter /\ Slot(l) = <<"l", 0>> /\ Leaves(l) = n + Room
  <2>1. l.dir = "+" /\ l.c = "l" /\ l.arg = n + Room
    BY DEF C!Change
  <2>2. l \in C!Letter
    BY <1>2 DEF C!Change, C!Letter
  <2> QED BY <2>1, <2>2 DEF Slot, Leaves
<1> HIDE DEF l
<1>4. ls \in Seq(C!Letter) /\ Len(ls) = 1 /\ ls[1] = l
  BY <1>3
<1> HIDE DEF ls
<1>5. \A x : Mentions(ls, x) <=> x = <<"l", 0>>
  BY <1>3, <1>4 DEF Mentions
<1>6. ASSUME NEW x \in Slots, Mentions(ls, x)
      PROVE  Verdict(ls, x) = n + Room
  <2>1. \A i \in 1..Len(ls) : Leaves(ls[i]) = n + Room
    BY <1>3, <1>4
  <2> QED BY <1>4, <1>6, <2>1, OneVerdict
<1>7. ModesTyped /\ view \in C!Modes
  BY DEF ModesStand, ModesTyped
<1>8. view' \in C!Modes /\ view'.mode = view.mode /\ view'.key = view.key /\ view'.limit = n + Room
      /\ view'.ops = view.ops /\ view'.voices = view.voices
  BY <1>1, <1>2, <1>7 DEF C!Modes
<1>9. ASSUME NEW x \in Slots
      PROVE  Has(view', x) = IF Mentions(ls, x) THEN Verdict(ls, x) ELSE Has(view, x)
  <2> DEFINE new == view'
  <2>1. new.mode = view.mode /\ new.key = view.key /\ new.limit = n + Room
        /\ new.ops = view.ops /\ new.voices = view.voices
    BY <1>8
  <2> HIDE DEF new
  <2>2. Has(new, x) = IF x = <<"l", 0>> THEN n + Room ELSE Has(view, x)
    <3>3. CASE \E c \in Simple : x = <<c, 0>>
      BY <2>1, <3>3, HasAt, ModesAssumption
    <3>4. CASE x = <<"k", 0>>
      BY <2>1, <3>4, HasAt
    <3>5. CASE x = <<"l", 0>>
      BY <2>1, <3>5, HasAt
    <3>6. ASSUME NEW u \in Members, x = <<"o", u>>
          PROVE  Has(new, x) = IF x = <<"l", 0>> THEN n + Room ELSE Has(view, x)
      BY <2>1, <3>6, HasAt
    <3>7. ASSUME NEW u \in Members, x = <<"v", u>>
          PROVE  Has(new, x) = IF x = <<"l", 0>> THEN n + Room ELSE Has(view, x)
      BY <2>1, <3>7, HasAt
    <3> QED BY <3>3, <3>4, <3>5, <3>6, <3>7, SlotKinds
  <2> QED BY <1>5, <1>6, <2>2 DEF new
<1>10. changes' \in 0..MaxChanges
  BY <1>1, <1>7 DEF ModesTyped
<1>11. \A x \in Slots : Mentions(ls, x) => x[1] \in {"l", "o", "v"}
  BY <1>5
<1> QED BY <1>1, <1>4, <1>8, <1>9, <1>10, <1>11, OneMoreStands

\* m_clear_modes: the letters that take everything off.
Minus(ch) == C!Changes("-", ch.mode) \o C!If(ch.key # 0, <<C!Change("-", "k", 0)>>)
             \o C!If(ch.limit # 0, <<C!Change("-", "l", 0)>>)
Bare(ch) == [ch EXCEPT !.mode = {}, !.key = 0, !.limit = 0]
LEMMA MinusIs ==
  ASSUME NEW ch \in C!Modes, NEW s, s = Minus(ch), NEW bare, bare = Bare(ch)
  PROVE  /\ s \in Seq(C!Letter) /\ bare \in C!Modes
         /\ \A x \in Slots : Has(bare, x) = IF Mentions(s, x) THEN Verdict(s, x) ELSE Has(ch, x)
         /\ \A x \in Slots : Mentions(s, x) => Verdict(s, x) = 0
<1> DEFINE a == C!Changes("-", ch.mode)
           b == C!If(ch.key # 0, <<C!Change("-", "k", 0)>>)
           c == C!If(ch.limit # 0, <<C!Change("-", "l", 0)>>)
<1>1. ch.mode \subseteq Simple
  BY DEF C!Modes
<1>2. C!Change("-", "k", 0) \in C!Letter /\ C!Change("-", "l", 0) \in C!Letter
  BY DEF C!Change, C!Letter
<1>3. a \in Seq(C!Letter) /\ \A l : Among(a, l) <=> \E y \in ch.mode : l = C!Change("-", y, 0)
  BY <1>1, ChangesAre
<1>4. b \in Seq(C!Letter) /\ \A l : Among(b, l) <=> ch.key # 0 /\ l = C!Change("-", "k", 0)
  BY <1>2, AmongIf
<1>5. c \in Seq(C!Letter) /\ \A l : Among(c, l) <=> ch.limit # 0 /\ l = C!Change("-", "l", 0)
  BY <1>2, AmongIf
<1>6. s = a \o b \o c
  BY DEF Minus
<1> HIDE DEF a, b, c
<1>7. a \o b \in Seq(C!Letter) /\ \A l : Among(a \o b, l) <=> Among(a, l) \/ Among(b, l)
  BY <1>3, <1>4, AmongBoth
<1>8. s \in Seq(C!Letter) /\ \A l : Among(s, l) <=> Among(a \o b, l) \/ Among(c, l)
  <2>1. a \o b \o c \in Seq(C!Letter) /\ \A l : Among(a \o b \o c, l) <=> Among(a \o b, l) \/ Among(c, l)
    BY <1>5, <1>7, AmongBoth
  <2> QED BY <1>6, <2>1
<1>9. \A l : Among(s, l) <=> \/ \E y \in ch.mode : l = C!Change("-", y, 0)
                             \/ ch.key # 0 /\ l = C!Change("-", "k", 0)
                             \/ ch.limit # 0 /\ l = C!Change("-", "l", 0)
  BY <1>3, <1>4, <1>5, <1>7, <1>8
<1>10. /\ \A y : C!Change("-", y, 0).dir = "-" /\ C!Change("-", y, 0).c = y
       /\ "k" \notin Simple /\ "l" \notin Simple /\ "o" \notin Simple /\ "v" \notin Simple
  BY ModesAssumption DEF C!Change
<1>11. /\ \A y : Leaves(C!Change("-", y, 0)) = 0
       /\ \A y \in Simple \cup {"k", "l"} : Slot(C!Change("-", y, 0)) = <<y, 0>>
  BY <1>10 DEF Leaves, Slot
<1>12. ASSUME NEW x \in Slots
       PROVE  Mentions(s, x) <=> \E l : Among(s, l) /\ Slot(l) = x
  <2>1. \A l : Among(s, l) => l \in C!Letter
    BY <1>8 DEF Among
  <2> QED BY <1>8, <2>1, MentionsAre
<1>13. /\ \A y, z : <<y, 0>> = <<z, 0>> => y = z
       /\ \A y \in Simple : y # "k" /\ y # "l"
  BY <1>10
<1>14. ASSUME NEW y \in Simple
       PROVE  Mentions(s, <<y, 0>>) <=> y \in ch.mode
  <2>1. <<y, 0>> \in Slots
    BY DEF Slots
  <2>2. ASSUME NEW l, Among(s, l), Slot(l) = <<y, 0>>
        PROVE  y \in ch.mode
    BY <1>1, <1>9, <1>11, <1>13, <2>2
  <2>3. ASSUME y \in ch.mode
        PROVE  Among(s, C!Change("-", y, 0)) /\ Slot(C!Change("-", y, 0)) = <<y, 0>>
    BY <1>9, <1>11, <2>3
  <2> QED BY <1>12, <2>1, <2>2, <2>3
<1>15. Mentions(s, <<"k", 0>>) <=> ch.key # 0
  <2>1. <<"k", 0>> \in Slots
    BY DEF Slots
  <2>2. ASSUME NEW l, Among(s, l), Slot(l) = <<"k", 0>>
        PROVE  ch.key # 0
    BY <1>1, <1>9, <1>11, <1>13, <2>2
  <2>3. ASSUME ch.key # 0
        PROVE  Among(s, C!Change("-", "k", 0)) /\ Slot(C!Change("-", "k", 0)) = <<"k", 0>>
    BY <1>9, <1>11, <2>3
  <2> QED BY <1>12, <2>1, <2>2, <2>3
<1>16. Mentions(s, <<"l", 0>>) <=> ch.limit # 0
  <2>1. <<"l", 0>> \in Slots
    BY DEF Slots
  <2>2. ASSUME NEW l, Among(s, l), Slot(l) = <<"l", 0>>
        PROVE  ch.limit # 0
    BY <1>1, <1>9, <1>11, <1>13, <2>2
  <2>3. ASSUME ch.limit # 0
        PROVE  Among(s, C!Change("-", "l", 0)) /\ Slot(C!Change("-", "l", 0)) = <<"l", 0>>
    BY <1>9, <1>11, <2>3
  <2> QED BY <1>12, <2>1, <2>2, <2>3
<1>17. ASSUME NEW u \in Members, NEW x \in Slots, x = <<"o", u>> \/ x = <<"v", u>>
       PROVE  ~Mentions(s, x)
  <2>1. ASSUME NEW l, Among(s, l)
        PROVE  Slot(l) # x
    <3>1. \E y \in Simple \cup {"k", "l"} : Slot(l) = <<y, 0>>
      BY <1>1, <1>9, <1>11, <2>1
    <3> QED BY <1>10, <1>17, <3>1
  <2> QED BY <1>12, <2>1
<1>18. ASSUME NEW x \in Slots, Mentions(s, x)
       PROVE  Verdict(s, x) = 0
  <2>1. \A l \in C!Letter : Among(s, l) => Leaves(l) = 0
    BY <1>9, <1>11
  <2> QED BY <1>8, <1>18, <2>1, OneVerdictAmong
<1>19. /\ bare \in C!Modes /\ bare.mode = {} /\ bare.key = 0 /\ bare.limit = 0
       /\ bare.ops = ch.ops /\ bare.voices = ch.voices
  BY DEF Bare, C!Modes
<1>20. ASSUME NEW x \in Slots
       PROVE  Has(bare, x) = IF Mentions(s, x) THEN 0 ELSE Has(ch, x)
  <2>1. CASE \E y \in Simple : x = <<y, 0>>
    <3>1. PICK y \in Simple : x = <<y, 0>>
      BY <2>1
    <3>2. Has(bare, x) = Bit(y \in bare.mode) /\ Has(ch, x) = Bit(y \in ch.mode)
      BY <3>1, HasAt
    <3> QED BY <1>14, <1>19, <3>1, <3>2 DEF Bit
  <2>2. CASE x = <<"k", 0>>
    BY <1>15, <1>19, <2>2, HasAt
  <2>3. CASE x = <<"l", 0>>
    BY <1>16, <1>19, <2>3, HasAt
  <2>4. ASSUME NEW u \in Members, x = <<"o", u>>
        PROVE  Has(bare, x) = IF Mentions(s, x) THEN 0 ELSE Has(ch, x)
    BY <1>17, <1>19, <2>4, HasAt
  <2>5. ASSUME NEW u \in Members, x = <<"v", u>>
        PROVE  Has(bare, x) = IF Mentions(s, x) THEN 0 ELSE Has(ch, x)
    BY <1>17, <1>19, <2>5, HasAt
  <2> QED BY <2>1, <2>2, <2>3, <2>4, <2>5, SlotKinds
<1> QED BY <1>8, <1>18, <1>19, <1>20

LEMMA ClearModesStands ==
  ASSUME ModesStand, C!ClearModes
  PROVE  ModesStand'
<1>1. ModesTyped /\ LockStands /\ ViewStands
  BY DEF ModesStand
<1>v. view \in C!Modes /\ toNet \in Seq(Seq(C!Letter)) /\ cut \in BOOLEAN
  BY <1>1 DEF ModesTyped
<1> DEFINE bare == Bare(view)
           minus == Minus(view)
           again == IF lock = NoLock THEN [ch |-> bare, msg |-> <<>>, drop |-> FALSE]
                                     ELSE C!Enforced(bare, cut)
<1>2. /\ alive /\ changes < MaxChanges /\ changes' = changes + 1
      /\ view' = again.ch
      /\ toNet' = C!Post(C!Post(toNet, minus), again.msg)
      /\ raced' = (raced \/ C!Races(toNet' , toCs))
      /\ dropped' = (dropped \/ again.drop)
      /\ unlocked' = (unlocked \/ C!Crosses(toNet', toCs))
      /\ cut' = (cut \/ lock # NoLock)
      /\ UNCHANGED <<netAlive, alive, net, lock, autolimit, toCs, carried>>
  BY DEF C!ClearModes, C!Commanded, Bare, Minus
<1>3. bare = Bare(view) /\ minus = Minus(view)
  OBVIOUS
<1> HIDE DEF bare, minus
<1>4. /\ minus \in Seq(C!Letter) /\ bare \in C!Modes
      /\ \A x \in Slots : Has(bare, x) = IF Mentions(minus, x) THEN Verdict(minus, x) ELSE Has(view, x)
      /\ \A x \in Slots : Mentions(minus, x) => Verdict(minus, x) = 0
  BY <1>3, <1>v, MinusIs
<1>5. lock # NoLock => Enforces(again, bare, cut)
  <2>1. lock # NoLock => lock \in C!Lock /\ lock.on \cap lock.off = {}
    BY <1>1 DEF ModesTyped
  <2> QED BY <1>4, <1>v, <2>1, EnforcedIs
<1>6. lock = NoLock => again.ch = bare /\ again.msg = <<>> /\ again.drop = FALSE
  OBVIOUS
<1> HIDE DEF again
<1>7. again.ch \in C!Modes /\ again.msg \in Seq(C!Letter) /\ again.drop \in BOOLEAN
  <2>1. CASE lock = NoLock
    <3>1. again.ch = bare /\ again.msg = <<>> /\ again.drop = FALSE
      BY <1>6, <2>1
    <3>2. <<>> \in Seq(C!Letter) /\ FALSE \in BOOLEAN
      OBVIOUS
    <3> QED BY <1>4, <3>1, <3>2, Zenon
  <2>2. CASE lock # NoLock
    BY <1>5, <2>2 DEF Enforces
  <2> QED BY <2>1, <2>2
<1>8. ASSUME NEW x \in Slots, ~again.drop
      PROVE  Has(again.ch, x) = IF Mentions(again.msg, x) THEN Verdict(again.msg, x) ELSE Has(bare, x)
  <2>1. CASE lock = NoLock
    BY <1>6, <2>1 DEF Mentions
  <2>2. CASE lock # NoLock
    BY <1>5, <1>8, <2>2 DEF Enforces
  <2> QED BY <2>1, <2>2
<1> DEFINE more == Two(minus, again.msg)
<1>9. /\ more \in Seq(Seq(C!Letter)) /\ C!Post(C!Post(toNet, minus), again.msg) = toNet \o more
      /\ \A x : Said(more, x) <=> Mentions(minus, x) \/ Mentions(again.msg, x)
      /\ \A x, v : WillHave(v, more, x) = IF Mentions(again.msg, x) THEN Verdict(again.msg, x)
                                          ELSE IF Mentions(minus, x) THEN Verdict(minus, x) ELSE v
  BY <1>4, <1>7, <1>v, TwoAre
<1> HIDE DEF more
<1>10. toNet' = toNet \o more /\ (more # <<>> => toNet' # <<>>)
  <2>1. toNet' = toNet \o more
    BY <1>2, <1>9
  <2> QED BY <1>9, <1>v, <2>1, JoinedIs
<1>11. ModesTyped'
  <2>1. toNet' \in Seq(Seq(C!Letter))
    BY <1>9, <1>10, <1>v
  <2>2. changes' \in 0..MaxChanges
    BY <1>1, <1>2, ModesAssumption DEF ModesTyped
  <2>3. raced' \in BOOLEAN /\ dropped' \in BOOLEAN /\ unlocked' \in BOOLEAN /\ cut' \in BOOLEAN /\ alive' = TRUE
    BY <1>1, <1>2 DEF ModesTyped
  <2>4. view' \in C!Modes
    BY <1>2, <1>7
  <2> QED BY <1>1, <1>2, <2>1, <2>2, <2>3, <2>4 DEF ModesTyped
<1>12. ASSUME NEW x \in Slots, ~unlocked', netAlive, Held(x)'
       PROVE  \/ Said(more, x) /\ LastWord(more, x) = Wanted(lock', x)
              \/ ~Said(more, x) /\ Held(x) /\ Wanted(lock', x) = Wanted(lock, x)
  <2>1. lock # NoLock /\ lock' = lock /\ Held(x)
    BY <1>2, <1>12 DEF Held
  <2>2. Enforces(again, bare, cut)
    BY <1>5, <2>1
  <2>3. Said(more, x) => LastWord(more, x) = IF Mentions(again.msg, x) THEN Verdict(again.msg, x) ELSE Verdict(minus, x)
    BY <1>9 DEF WillHave
  <2>4. CASE Mentions(again.msg, x)
    BY <1>9, <2>1, <2>2, <2>3, <2>4 DEF Enforces
  <2>5. CASE ~Mentions(again.msg, x) /\ Mentions(minus, x)
    <3>1. LastWord(more, x) = 0 /\ Said(more, x) /\ Has(bare, x) = 0
      BY <1>4, <1>9, <2>3, <2>5
    <3>2. CASE \E c \in lock.on \cup lock.off : x = <<c, 0>>
      <4>1. PICK c \in lock.on \cup lock.off : x = <<c, 0>>
        BY <3>2
      <4>2. c \in Simple /\ x[1] \in Simple
        BY <1>1, <2>1, <4>1, LockIs DEF ModesTyped
      <4>3. Has(again.ch, x) = Wanted(lock, x) /\ Has(again.ch, x) = Has(bare, x)
        BY <2>2, <2>5, <4>1, <4>2 DEF Enforces
      <4> QED BY <2>1, <3>1, <4>3
    <3>3. CASE x = <<"k", 0>> /\ lock.key = C!Off /\ ~dropped'
      BY <1>2, <2>2, <2>5, <3>3 DEF Enforces
    <3> QED BY <1>12, <2>1, <3>2, <3>3 DEF Held
  <2>6. CASE ~Mentions(again.msg, x) /\ ~Mentions(minus, x)
    BY <1>9, <2>1, <2>6
  <2> QED BY <2>4, <2>5, <2>6
<1>13. ASSUME Clean', NEW x \in Slots
       PROVE  Has(view', x) = WillHave(Has(view, x), more, x)
  <2>1. ~again.drop
    BY <1>2, <1>13 DEF Clean
  <2> QED BY <1>2, <1>4, <1>8, <1>9, <2>1
<1>14. /\ Joining /\ toNet' # <<>> => unlocked'
       /\ raced \/ (more # <<>> /\ toCs # <<>>) => raced'
       /\ (carried => carried') /\ (dropped => dropped') /\ (unlocked => unlocked')
  BY <1>1, <1>2, <1>10, CrossesIs DEF C!Races
<1>15. LockStands' /\ ViewStands'
  BY <1>1, <1>2, <1>9, <1>10, <1>12, <1>13, <1>14, SendingStands
<1> QED BY <1>11, <1>15 DEF ModesStand

-----------------------------------------------------------------------------
(* What services make of what they receive *)

\* The flags of a member who joins are sent, and noted.
LEMMA OnJoinIs ==
  ASSUME NEW ch \in C!Modes, NEW u \in Members, NEW p, NEW j, j = C!OnJoin(ch, u, p)
  PROVE  /\ j.ch \in C!Modes /\ j.out \in Seq(C!Letter)
         /\ \A x \in Slots : Has(j.ch, x) = IF Mentions(j.out, x) THEN Verdict(j.out, x) ELSE Has(ch, x)
         /\ \A x : Mentions(j.out, x) => x[1] \in {"o", "v"}
<1> DEFINE deop == ~p.leaveops /\ u \in ch.ops /\ p.level # "chanop"
           op   == u \notin ch.ops /\ p.level = "chanop" /\ p.autoop
           voice == ~op /\ u \notin ch.voices /\ p.level # "none" /\ p.autovoice
           a == C!If(deop, <<C!Change("-", "o", u)>>)
           b == C!If(op, <<C!Change("+", "o", u)>>)
           c == C!If(voice, <<C!Change("+", "v", u)>>)
           s == a \o b \o c
<1>1. j.out = s /\ j.ch = C!ApplyAll(ch, s)
  BY DEF C!OnJoin
<1>2. deop \in BOOLEAN /\ op \in BOOLEAN /\ voice \in BOOLEAN
  OBVIOUS
<1>3. /\ C!Change("-", "o", u) \in C!Letter /\ C!Change("+", "o", u) \in C!Letter
      /\ C!Change("+", "v", u) \in C!Letter
  BY DEF C!Change, C!Letter
<1> HIDE DEF deop, op, voice
<1>4. a \in Seq(C!Letter) /\ \A l : Among(a, l) <=> deop /\ l = C!Change("-", "o", u)
  BY <1>2, <1>3, AmongIf
<1>5. b \in Seq(C!Letter) /\ \A l : Among(b, l) <=> op /\ l = C!Change("+", "o", u)
  BY <1>2, <1>3, AmongIf
<1>6. c \in Seq(C!Letter) /\ \A l : Among(c, l) <=> voice /\ l = C!Change("+", "v", u)
  BY <1>2, <1>3, AmongIf
<1> HIDE DEF a, b, c
<1>7. a \o b \in Seq(C!Letter) /\ \A l : Among(a \o b, l) <=> Among(a, l) \/ Among(b, l)
  BY <1>4, <1>5, AmongBoth
<1>8. a \o b \o c \in Seq(C!Letter) /\ \A l : Among(a \o b \o c, l) <=> Among(a \o b, l) \/ Among(c, l)
  BY <1>6, <1>7, AmongBoth
<1>9. s \in Seq(C!Letter) /\ \A l : Among(s, l) => l.c \in {"o", "v"}
  BY <1>4, <1>5, <1>6, <1>7, <1>8 DEF C!Change
<1> HIDE DEF s
<1>10. ASSUME NEW x, Mentions(s, x)
       PROVE  x[1] \in {"o", "v"}
  <2>1. PICK l \in C!Letter : Among(s, l) /\ Slot(l) = x
    BY <1>9, <1>10, MentionsAre
  <2> QED BY <1>9, <2>1 DEF Slot
<1>11. /\ C!ApplyAll(ch, s) \in C!Modes
       /\ \A x \in Slots : Has(C!ApplyAll(ch, s), x) = IF Mentions(s, x) THEN Verdict(s, x) ELSE Has(ch, x)
  BY <1>9, ApplyAllIs
<1> QED BY <1>1, <1>9, <1>10, <1>11

\* The first of what is under way, and what is there before it.
LEMMA FirstIs ==
  ASSUME ModesStand, toCs # <<>>
  PROVE  /\ Head(toCs) \in C!Message /\ Tail(toCs) \in Seq(C!Message) /\ Len(Tail(toCs)) <= MaxQueue
         /\ ~unlocked => ((Head(toCs).type = "sjoin") <=> ~alive)
<1>1. ModesTyped /\ LockStands /\ toCs \in Seq(C!Message)
  BY DEF ModesStand, ModesTyped
<1>2. Head(toCs) \in C!Message /\ Head(toCs) = toCs[1]
      /\ Tail(toCs) \in Seq(C!Message) /\ Len(Tail(toCs)) <= MaxQueue
  BY <1>1, RestIs
<1>3. 1 \in 1..Len(toCs)
  BY <1>1, EmptySeq
<1>4. Before(1) = alive
  BY DEF Before
<1>5. ~unlocked => Lawful
  BY <1>1 DEF LockStands
<1>6. Lawful => ((toCs[1].type = "sjoin") <=> ~Before(1))
  BY <1>3 DEF Lawful
<1> QED BY <1>2, <1>4, <1>5, <1>6

LEMMA RecvPartStands ==
  ASSUME ModesStand, C!RecvPart
  PROVE  ModesStand'
<1>1. ModesTyped /\ LockStands /\ ViewStands
  BY DEF ModesStand
<1> DEFINE msg == Head(toCs)
<1>2. /\ toCs # <<>> /\ msg.type = "part" /\ alive' = FALSE /\ view' = C!NoModes
      /\ cut' = FALSE /\ autolimit' = FALSE /\ toCs' = Tail(toCs)
      /\ UNCHANGED <<netAlive, net, lock, toNet, changes, raced, carried, dropped, unlocked>>
  BY DEF C!RecvPart, C!history
<1>m. msg = Head(toCs)
  OBVIOUS
<1> HIDE DEF msg
<1>3. msg \in C!Message /\ toCs' \in Seq(C!Message) /\ Len(toCs') <= MaxQueue
  BY <1>2, <1>m, FirstIs
<1>4. C!NoModes \in C!Modes
  BY DEF C!NoModes, C!Modes
<1>5. ModesTyped'
  BY <1>1, <1>2, <1>3, <1>4 DEF ModesTyped
<1> DEFINE more == <<>>
<1>6. more \in Seq(Seq(C!Letter)) /\ more = <<>> /\ toNet' = toNet \o more
  BY <1>1, <1>2 DEF ModesTyped
<1> HIDE DEF more
<1>7. \A x \in Slots : Has(view', x) =
        WillHave(IF About(msg, x) THEN Gives(msg, x) ELSE Has(view, x), more, x)
  BY <1>2, <1>6, NothingSaid DEF About, Gives
<1>8. \A x \in Slots : ~Said(more, x)
  BY <1>6, NothingSaid
<1>9. Joining' => Joining
  <2> DEFINE rest == Tail(toCs)
  <2>1. rest = Tail(toCs) /\ toCs' = rest
    BY <1>2
  <2> HIDE DEF rest
  <2>2. \A i \in 1..Len(rest) : rest[i] = toCs[i + 1] /\ i + 1 \in 1..Len(toCs)
    BY <1>1, <1>2, <2>1, RestIs
  <2> QED BY <2>1, <2>2 DEF Joining
<1>10. /\ raced \/ (toNet' # <<>> /\ toCs' # <<>>) => raced'
       /\ Joining' /\ toNet' # <<>> => unlocked'
  BY <1>1, <1>2, <1>9 DEF ViewStands, LockStands
<1>11. LockStands' /\ ViewStands'
  BY <1>1, <1>2, <1>m, <1>6, <1>7, <1>8, <1>10, TakingStands
<1> QED BY <1>5, <1>11 DEF ModesStand

LEMMA RecvModeStands ==
  ASSUME ModesStand, C!RecvMode, alive
  PROVE  ModesStand'
<1>1. ModesTyped /\ LockStands /\ ViewStands
  BY DEF ModesStand
<1> DEFINE msg == Head(toCs)
           ls == msg.ls
           r == C!SetChannelMode(ls)
           m == C!ApplyAll(view, ls)
           more == r.out
<1>2. /\ toCs # <<>> /\ msg.type = "mode"
      /\ view' = r.ch /\ toNet' = toNet \o more /\ cut' = r.cut
      /\ raced' = (raced \/ C!Races(toNet', Tail(toCs)) \/ C!Halfway(ls))
      /\ dropped' = (dropped \/ r.drop)
      /\ toCs' = Tail(toCs)
      /\ unlocked' = (unlocked \/ C!Crosses(toNet', Tail(toCs)))
      /\ UNCHANGED <<netAlive, alive, net, lock, autolimit, changes, carried>>
  BY DEF C!RecvMode
<1>m. msg = Head(toCs) /\ ls = msg.ls /\ r = C!SetChannelMode(ls) /\ m = C!ApplyAll(view, ls) /\ more = r.out
  OBVIOUS
<1> HIDE DEF msg, ls, r, m, more
<1>3. msg \in C!Message /\ toCs' \in Seq(C!Message) /\ Len(toCs') <= MaxQueue
  BY <1>2, <1>m, FirstIs
<1>4. ls \in Seq(C!Letter)
  BY <1>2, <1>3, <1>m, MessageIs
<1>5. r \in Carried /\ m \in C!Modes /\ Follows(r, m, ls) /\ (ls # <<>> => Settles(r))
  BY <1>1, <1>4, <1>m, SetChannelModeIs
<1>6. r.ch \in C!Modes /\ more \in Seq(Seq(C!Letter)) /\ r.cut \in BOOLEAN /\ r.drop \in BOOLEAN
  BY <1>5, <1>m DEF Carried
<1>v. view \in C!Modes /\ toNet \in Seq(Seq(C!Letter))
  BY <1>1 DEF ModesTyped
<1>7. \A x \in Slots : Has(m, x) = IF Mentions(ls, x) THEN Verdict(ls, x) ELSE Has(view, x)
  BY <1>4, <1>m, <1>v, ApplyAllIs
<1>8. \A x : /\ About(msg, x) <=> Mentions(ls, x)
             /\ Gives(msg, x) = Verdict(ls, x)
  BY <1>2, <1>m DEF About, Gives
<1>9. ModesTyped'
  <2>1. toNet' \in Seq(Seq(C!Letter))
    BY <1>2, <1>6, <1>v
  <2>2. raced' \in BOOLEAN /\ dropped' \in BOOLEAN /\ unlocked' \in BOOLEAN
    BY <1>2
  <2>3. view' \in C!Modes /\ cut' \in BOOLEAN
    BY <1>2, <1>6
  <2>4. alive' = TRUE
    BY <1>1, <1>2 DEF ModesTyped
  <2> QED BY <1>1, <1>2, <1>3, <2>1, <2>2, <2>3, <2>4 DEF ModesTyped
<1>10. ASSUME NEW x \in Slots, Held(x)', ~Said(more, x), About(msg, x)
       PROVE  Gives(msg, x) = Wanted(lock, x)
  <2>1. lock # NoLock /\ lock' = lock
    BY <1>2, <1>10 DEF Held
  <2>2. Mentions(ls, x) /\ Has(m, x) = Gives(msg, x) /\ ls # <<>>
    BY <1>7, <1>8, <1>10 DEF Mentions
  <2>3. Settles(r)
    BY <1>5, <2>2
  <2>4. CASE \E c \in lock.on \cup lock.off : x = <<c, 0>>
    <3>1. PICK c \in lock.on \cup lock.off : x = <<c, 0>>
      BY <2>4
    <3>2. x[1] \in Simple
      BY <1>1, <2>1, <3>1, LockIs DEF ModesTyped
    <3>3. Has(r.ch, x) = Has(m, x)
      BY <1>5, <1>10, <1>m, <2>1, <3>2 DEF Follows
    <3>4. Has(r.ch, x) = Wanted(lock, x)
      BY <2>1, <2>3, <3>1 DEF Settles
    <3> QED BY <2>2, <3>3, <3>4
  <2>5. CASE x = <<"k", 0>> /\ lock.key = C!Off /\ ~dropped'
    BY <1>2, <1>10, <1>m, <2>1, <2>3, <2>5 DEF Settles
  <2> QED BY <1>10, <2>1, <2>4, <2>5 DEF Held
<1>11. ASSUME NEW x \in Slots, Held(x)', Said(more, x)
       PROVE  LastWord(more, x) = Wanted(lock, x)
  <2>1. lock # NoLock
    BY <1>2, <1>11 DEF Held
  <2>2. \A v : WillHave(v, more, x) = Wanted(lock, x)
    BY <1>5, <1>11, <1>m, <2>1 DEF Follows
  <2> QED BY <1>11, <2>2 DEF WillHave
<1>12. ASSUME Clean', NEW x \in Slots
       PROVE  Has(view', x) = WillHave(IF About(msg, x) THEN Gives(msg, x) ELSE Has(view, x), more, x)
  <2>1. ~r.drop /\ ~C!Halfway(ls)
    BY <1>2, <1>12 DEF Clean
  <2>2. Has(view', x) = WillHave(Has(m, x), more, x)
    <3>1. CASE lock = NoLock
      <4>1. r.ch = m /\ more = <<>>
        BY <1>5, <1>m, <3>1 DEF Follows
      <4> QED BY <1>2, <4>1, NothingSaid
    <3>2. CASE lock # NoLock
      <4>1. \A v : WillHave(v, more, x) = IF Said(more, x) THEN Wanted(lock, x) ELSE v
        BY <1>5, <1>m, <3>2 DEF Follows
      <4>2. Has(r.ch, x) = IF Said(more, x) THEN Wanted(lock, x) ELSE Has(m, x)
        BY <1>5, <1>m, <2>1, <3>2 DEF Follows
      <4> QED BY <1>2, <4>1, <4>2
    <3> QED BY <3>1, <3>2
  <2> QED BY <1>7, <1>8, <2>2
<1>13. /\ raced \/ (toNet' # <<>> /\ toCs' # <<>>) => raced'
       /\ Joining' /\ toNet' # <<>> => unlocked'
       /\ (carried => carried') /\ (dropped => dropped') /\ (unlocked => unlocked')
  BY <1>1, <1>2, CrossesIs DEF C!Races
<1>14. \A x \in Slots : ~unlocked' /\ Held(x)' =>
         \/ Said(more, x) /\ LastWord(more, x) = Wanted(lock, x)
         \/ ~Said(more, x) /\ (msg.type = "part" \/ (About(msg, x) => Gives(msg, x) = Wanted(lock, x)))
  BY <1>10, <1>11
<1>15. (more # <<>> => alive') /\ (~unlocked => alive' = (msg.type # "part")) /\ UNCHANGED <<netAlive, net, lock>>
  BY <1>1, <1>2 DEF ModesTyped
<1>16. LockStands' /\ ViewStands'
  BY <1>1, <1>2, <1>m, <1>6, <1>12, <1>13, <1>14, <1>15, TakingStands
<1> QED BY <1>9, <1>16 DEF ModesStand

\* A MODE for a channel that services do not have; none comes while they know.
LEMMA RecvModeAway ==
  ASSUME ModesStand, C!RecvMode, ~alive
  PROVE  ModesStand'
<1>1. ModesTyped /\ LockStands /\ ViewStands
  BY DEF ModesStand
<1> DEFINE msg == Head(toCs)
<1>2. /\ toCs # <<>> /\ msg.type = "mode" /\ toCs' = Tail(toCs)
      /\ unlocked' = (unlocked \/ C!Crosses(toNet', Tail(toCs)))
      /\ UNCHANGED <<netAlive, alive, net, view, lock, cut, autolimit, toNet, changes, raced, carried, dropped>>
  BY DEF C!RecvMode
<1>m. msg = Head(toCs)
  OBVIOUS
<1> HIDE DEF msg
<1>3. toCs' \in Seq(C!Message) /\ Len(toCs') <= MaxQueue /\ unlocked /\ unlocked'
  BY <1>1, <1>2, <1>m, FirstIs
<1>4. ModesTyped'
  <2>1. unlocked' \in BOOLEAN
    BY <1>2
  <2> QED BY <1>1, <1>2, <1>3, <2>1 DEF ModesTyped
<1>5. LockStands'
  BY <1>3 DEF LockStands
<1>6. ViewStands'
  BY <1>1, <1>2, <1>3 DEF ViewStands, Clean
<1> QED BY <1>4, <1>5, <1>6 DEF ModesStand

\* An SJOIN for a channel services have already; none comes while they know.
LEMMA RecvSjoinAgain ==
  ASSUME ModesStand, C!RecvSjoin, alive
  PROVE  ModesStand'
<1>1. ModesTyped /\ LockStands /\ ViewStands
  BY DEF ModesStand
<1> DEFINE msg == Head(toCs)
           flags == [msg.modes EXCEPT !.ops = view.ops \cup @, !.voices = view.voices \cup @]
           none == C!Post(C!Post(toNet, <<>>), <<>>)
<1>2. /\ toCs # <<>> /\ msg.type = "sjoin" /\ toCs' = Tail(toCs)
      /\ view' = flags /\ toNet' = none /\ cut' = cut
      /\ raced' = (raced \/ C!Races(toNet', Tail(toCs)))
      /\ dropped' = (dropped \/ FALSE) /\ alive' = TRUE
      /\ unlocked' = (unlocked \/ C!Crosses(toNet', Tail(toCs)))
      /\ UNCHANGED <<netAlive, net, lock, autolimit, changes, carried>>
  BY DEF C!RecvSjoin
<1>m. msg = Head(toCs)
  OBVIOUS
<1>n. none = toNet
  BY <1>1 DEF ModesTyped, C!Post, C!If
<1>f. view.ops \subseteq Members /\ view.voices \subseteq Members
  BY <1>1 DEF ModesTyped, C!Modes
<1> HIDE DEF msg, none
<1>3. msg \in C!Message /\ toCs' \in Seq(C!Message) /\ Len(toCs') <= MaxQueue /\ unlocked /\ unlocked'
  BY <1>1, <1>2, <1>m, FirstIs
<1>4. msg.modes \in C!Modes
  BY <1>2, <1>3, MessageIs
<1>5. flags \in C!Modes
  BY <1>4, <1>f DEF C!Modes
<1> HIDE DEF flags
<1>6. ModesTyped'
  <2>1. raced' \in BOOLEAN /\ unlocked' \in BOOLEAN /\ dropped' = dropped
    BY <1>1, <1>2 DEF ModesTyped
  <2> QED BY <1>1, <1>2, <1>3, <1>5, <1>n, <2>1 DEF ModesTyped
<1>7. LockStands'
  BY <1>3 DEF LockStands
<1>8. ViewStands'
  BY <1>1, <1>2, <1>3, <1>n DEF ViewStands, Clean, C!Races
<1> QED BY <1>6, <1>7, <1>8 DEF ModesStand

\* The SJOIN of a channel that is made anew.
LEMMA RecvSjoinStands ==
  ASSUME ModesStand, C!RecvSjoin, ~alive
  PROVE  ModesStand'
<1>1. ModesTyped /\ LockStands /\ ViewStands
  BY DEF ModesStand
<1> DEFINE msg == Head(toCs)
           joined == C!OnJoin(msg.modes, msg.who, msg.policy)
           en == IF alive \/ lock = NoLock THEN [ch |-> joined.ch, msg |-> <<>>, drop |-> FALSE]
                 ELSE C!Enforced(joined.ch, FALSE)
<1>2. /\ toCs # <<>> /\ msg.type = "sjoin" /\ toCs' = Tail(toCs)
      /\ view' = en.ch /\ toNet' = C!Post(C!Post(toNet, joined.out), en.msg)
      /\ cut' = (lock # NoLock)
      /\ raced' = (raced \/ C!Races(toNet', Tail(toCs)))
      /\ dropped' = (dropped \/ en.drop) /\ alive' = TRUE
      /\ unlocked' = (unlocked \/ C!Crosses(toNet', Tail(toCs)))
      /\ UNCHANGED <<netAlive, net, lock, autolimit, changes, carried>>
  BY DEF C!RecvSjoin
<1>m. msg = Head(toCs) /\ joined = C!OnJoin(msg.modes, msg.who, msg.policy)
  OBVIOUS
<1> HIDE DEF msg, joined
<1>3. msg \in C!Message /\ toCs' \in Seq(C!Message) /\ Len(toCs') <= MaxQueue
  BY <1>2, <1>m, FirstIs
<1>4. msg.modes \in C!Modes /\ msg.who \in Members
  BY <1>2, <1>3, MessageIs
<1>5. /\ joined.ch \in C!Modes /\ joined.out \in Seq(C!Letter)
      /\ \A x \in Slots : Has(joined.ch, x) =
           IF Mentions(joined.out, x) THEN Verdict(joined.out, x) ELSE Has(msg.modes, x)
      /\ \A x : Mentions(joined.out, x) => x[1] \in {"o", "v"}
  BY <1>4, <1>m, OnJoinIs
<1>6. lock # NoLock => Enforces(en, joined.ch, FALSE)
  <2>1. lock # NoLock => lock \in C!Lock /\ lock.on \cap lock.off = {}
    BY <1>1 DEF ModesTyped
  <2> QED BY <1>5, <2>1, EnforcedIs
<1>7. lock = NoLock => en.ch = joined.ch /\ en.msg = <<>> /\ en.drop = FALSE
  OBVIOUS
<1> HIDE DEF en
<1>8. en.ch \in C!Modes /\ en.msg \in Seq(C!Letter) /\ en.drop \in BOOLEAN
  <2>1. CASE lock = NoLock
    <3>1. en.ch = joined.ch /\ en.msg = <<>> /\ en.drop = FALSE
      BY <1>7, <2>1
    <3>2. <<>> \in Seq(C!Letter) /\ FALSE \in BOOLEAN
      OBVIOUS
    <3> QED BY <1>5, <3>1, <3>2, Zenon
  <2>2. CASE lock # NoLock
    BY <1>6, <2>2 DEF Enforces
  <2> QED BY <2>1, <2>2
<1>v. toNet \in Seq(Seq(C!Letter))
  BY <1>1 DEF ModesTyped
<1>9. ASSUME NEW x \in Slots, ~en.drop
      PROVE  Has(en.ch, x) = IF Mentions(en.msg, x) THEN Verdict(en.msg, x) ELSE Has(joined.ch, x)
  <2>1. CASE lock = NoLock
    BY <1>7, <2>1 DEF Mentions
  <2>2. CASE lock # NoLock
    BY <1>6, <1>9, <2>2 DEF Enforces
  <2> QED BY <2>1, <2>2
<1> DEFINE more == Two(joined.out, en.msg)
<1>10. /\ more \in Seq(Seq(C!Letter)) /\ C!Post(C!Post(toNet, joined.out), en.msg) = toNet \o more
       /\ \A x : Said(more, x) <=> Mentions(joined.out, x) \/ Mentions(en.msg, x)
       /\ \A x, v : WillHave(v, more, x) = IF Mentions(en.msg, x) THEN Verdict(en.msg, x)
                                           ELSE IF Mentions(joined.out, x) THEN Verdict(joined.out, x) ELSE v
  <2> DEFINE a == joined.out
             b == en.msg
  <2>1. a = joined.out /\ b = en.msg
    OBVIOUS
  <2>3. a \in Seq(C!Letter) /\ b \in Seq(C!Letter)
    BY <1>5, <1>8
  <2> HIDE DEF a, b
  <2>2. /\ Two(a, b) \in Seq(Seq(C!Letter)) /\ C!Post(C!Post(toNet, a), b) = toNet \o Two(a, b)
        /\ \A x : Said(Two(a, b), x) <=> Mentions(a, x) \/ Mentions(b, x)
        /\ \A x, v : WillHave(v, Two(a, b), x) =
             IF Mentions(b, x) THEN Verdict(b, x) ELSE IF Mentions(a, x) THEN Verdict(a, x) ELSE v
    BY <1>v, <2>3, TwoAre
  <2> QED BY <2>1, <2>2
<1> HIDE DEF more
<1>11. toNet' = toNet \o more
  BY <1>2, <1>10
<1>12. ModesTyped'
  <2>1. toNet' \in Seq(Seq(C!Letter))
    BY <1>10, <1>11, <1>v
  <2>2. raced' \in BOOLEAN /\ dropped' \in BOOLEAN /\ unlocked' \in BOOLEAN /\ cut' \in BOOLEAN
    BY <1>2
  <2>3. view' \in C!Modes /\ alive' = TRUE
    BY <1>2, <1>8
  <2> QED BY <1>1, <1>2, <1>3, <2>1, <2>2, <2>3 DEF ModesTyped
<1>13. \A x : About(msg, x) /\ Gives(msg, x) = Has(msg.modes, x)
  BY <1>2 DEF About, Gives
<1>14. ASSUME NEW x \in Slots, Held(x)'
       PROVE  /\ Said(more, x) => LastWord(more, x) = Wanted(lock, x)
              /\ ~Said(more, x) => Gives(msg, x) = Wanted(lock, x)
  <2>1. lock # NoLock /\ lock' = lock /\ lock \in C!Lock
    BY <1>1, <1>2, <1>14 DEF Held, ModesTyped
  <2>2. Enforces(en, joined.ch, FALSE)
    BY <1>6, <2>1
  <2>3. ~Mentions(joined.out, x)
    <3>1. Held(x)
      BY <1>2, <1>14 DEF Held
    <3> QED BY <1>1, <1>5, <3>1, HeldIs
  <2>4. Said(more, x) <=> Mentions(en.msg, x)
    BY <1>10, <2>3
  <2>5. ASSUME Said(more, x)
        PROVE  LastWord(more, x) = Wanted(lock, x)
    <3>1. Mentions(en.msg, x) /\ Verdict(en.msg, x) = Wanted(lock, x)
      BY <2>2, <2>4, <2>5 DEF Enforces
    <3>2. \A v : WillHave(v, more, x) = Wanted(lock, x)
      BY <1>10, <3>1
    <3> QED BY <2>5, <3>2 DEF WillHave
  <2>6. ASSUME ~Said(more, x)
        PROVE  Gives(msg, x) = Wanted(lock, x)
    <3>1. ~Mentions(en.msg, x)
      BY <2>4, <2>6
    <3>2. CASE \E c \in lock.on \cup lock.off : x = <<c, 0>>
      <4>1. PICK c \in lock.on \cup lock.off : x = <<c, 0>>
        BY <3>2
      <4>2. x[1] \in Simple
        BY <2>1, <4>1, LockIs
      <4>3. Has(en.ch, x) = Wanted(lock, x) /\ Has(en.ch, x) = Has(joined.ch, x)
        BY <2>2, <3>1, <4>1, <4>2 DEF Enforces
      <4>4. Has(joined.ch, x) = Has(msg.modes, x)
        BY <1>5, <2>3
      <4> QED BY <1>13, <4>3, <4>4
    <3>3. CASE x = <<"k", 0>> /\ lock.key = C!Off /\ ~dropped'
      BY <1>2, <2>2, <3>1, <3>3 DEF Enforces
    <3> QED BY <1>14, <2>1, <3>2, <3>3 DEF Held
  <2> QED BY <2>5, <2>6
<1>15. ASSUME Clean', NEW x \in Slots
       PROVE  Has(view', x) = WillHave(IF About(msg, x) THEN Gives(msg, x) ELSE Has(view, x), more, x)
  <2>1. ~en.drop
    BY <1>2, <1>15 DEF Clean
  <2> QED BY <1>2, <1>5, <1>9, <1>10, <1>13, <2>1
<1>16. /\ raced \/ (toNet' # <<>> /\ toCs' # <<>>) => raced'
       /\ Joining' /\ toNet' # <<>> => unlocked'
       /\ (carried => carried') /\ (dropped => dropped') /\ (unlocked => unlocked')
  BY <1>1, <1>2, CrossesIs DEF C!Races
<1>17. (more # <<>> => alive') /\ (~unlocked => alive' = (msg.type # "part")) /\ UNCHANGED <<netAlive, net, lock>>
  BY <1>2
<1>18. LockStands' /\ ViewStands'
  BY <1>1, <1>2, <1>m, <1>10, <1>11, <1>14, <1>15, <1>16, <1>17, TakingStands
<1> QED BY <1>12, <1>18 DEF ModesStand

-----------------------------------------------------------------------------
(* What the network does *)

LEMMA NetApplyStands ==
  ASSUME ModesStand, C!NetApply
  PROVE  ModesStand'
<1>1. ModesTyped /\ LockStands /\ ViewStands
  BY DEF ModesStand
<1>2. /\ toNet # <<>> /\ toNet' = Tail(toNet)
      /\ net' = IF netAlive THEN C!ApplyAll(net, Head(toNet)) ELSE net
      /\ UNCHANGED <<netAlive, alive, view, lock, cut, autolimit, toCs, changes, raced, carried, dropped, unlocked>>
  BY DEF C!NetApply, C!history
<1>3. toNet \in Seq(Seq(C!Letter)) /\ net \in C!Modes
  BY <1>1 DEF ModesTyped
<1>4. Head(toNet) \in Seq(C!Letter) /\ toNet' \in Seq(Seq(C!Letter))
  BY <1>2, <1>3
<1>5. net' \in C!Modes
  BY <1>2, <1>3, <1>4, ApplyAllIs
<1>6. ModesTyped'
  BY <1>1, <1>2, <1>4, <1>5 DEF ModesTyped
<1>7. ASSUME netAlive, NEW x \in Slots
      PROVE  Coming(x)' = Coming(x)
  BY <1>2, <1>3, <1>7, WillHaveRest DEF Coming
<1>8. LockStands'
  <2>1. SUFFICES ASSUME ~unlocked'
                 PROVE  /\ Lawful' /\ (Joining' => toNet' = <<>>)
                        /\ netAlive' => \A x \in Slots :
                             Joining' \/ (Held(x)' /\ Coming(x)' # Wanted(lock', x)) => Pending(x)'
    BY DEF LockStands
  <2>2. Lawful /\ ~Joining
    BY <1>1, <1>2, <2>1 DEF LockStands
  <2>3. Lawful' /\ ~Joining'
    BY <1>2, <2>2 DEF Lawful, Joining, Before
  <2>4. ASSUME netAlive', NEW x \in Slots, Held(x)', Coming(x)' # Wanted(lock', x)
        PROVE  Pending(x)'
    <3>1. Coming(x)' = Coming(x) /\ Held(x)
      BY <1>2, <1>7, <2>4 DEF Held
    <3>2. Pending(x)
      BY <1>1, <1>2, <2>1, <2>4, <3>1 DEF LockStands
    <3> QED BY <1>2, <3>1, <3>2 DEF Pending
  <2> QED BY <2>3, <2>4
<1>9. ViewStands'
  <2>1. SUFFICES ASSUME ~raced'
                 PROVE  /\ toNet' = <<>> \/ toCs' = <<>>
                        /\ ~alive' => toNet' = <<>>
                        /\ Clean' => \A x \in Slots : WillView(Has(view', x), toCs', x) = Coming(x)'
    BY DEF ViewStands
  <2>2. toCs = <<>> /\ alive
    BY <1>1, <1>2, <2>1 DEF ViewStands
  <2>3. ASSUME Clean', NEW x \in Slots
        PROVE  WillView(Has(view', x), toCs', x) = Coming(x)'
    <3>1. Clean
      BY <1>2, <2>3 DEF Clean
    <3>2. netAlive
      BY <1>1, <2>2, <3>1 DEF LockStands, Lawful, Clean
    <3>3. WillView(Has(view, x), toCs, x) = Coming(x)
      BY <1>1, <3>1 DEF ViewStands, Clean
    <3> QED BY <1>2, <1>7, <3>2, <3>3
  <2> QED BY <1>2, <2>2, <2>3
<1> QED BY <1>6, <1>8, <1>9 DEF ModesStand

LEMMA ActingTyped ==
  ASSUME ModesTyped, NEW msg \in C!Message, C!Acts(msg), netAlive' \in BOOLEAN, net' \in C!Modes,
         unlocked' \in BOOLEAN
  PROVE  /\ ModesTyped'
         /\ toCs' = Append(toCs, msg) /\ toNet' = toNet /\ raced' = (raced \/ toNet # <<>>)
         /\ UNCHANGED <<alive, view, lock, dropped, carried>>
<1>1. /\ changes < MaxChanges /\ changes' = changes + 1 /\ Len(toCs) < MaxQueue
      /\ toCs' = Append(toCs, msg) /\ raced' = (raced \/ toNet # <<>>)
      /\ UNCHANGED <<alive, view, lock, cut, autolimit, toNet, carried, dropped>>
  BY DEF C!Acts, C!Commanded
<1>2. toCs' \in Seq(C!Message) /\ Len(toCs') = Len(toCs) + 1 /\ Len(toCs) \in Nat
  BY <1>1 DEF ModesTyped
<1>3. Len(toCs') <= MaxQueue /\ changes' \in 0..MaxChanges
  BY <1>1, <1>2, ModesAssumption DEF ModesTyped
<1>4. raced' \in BOOLEAN
  BY <1>1
<1> QED BY <1>1, <1>2, <1>3, <1>4 DEF ModesTyped

LEMMA UserModeStands ==
  ASSUME ModesStand, NEW ls \in UserLetters, C!UserMode(ls)
  PROVE  ModesStand'
<1>1. ModesTyped /\ LockStands /\ ViewStands
  BY DEF ModesStand
<1> DEFINE msg == [type |-> "mode", ls |-> ls]
<1>2. netAlive /\ C!Acts(msg) /\ net' = C!ApplyAll(net, ls) /\ UNCHANGED <<netAlive, unlocked>>
  BY DEF C!UserMode
<1>3. ls \in Seq(C!Letter)
  BY ModesAssumption
<1>4. msg \in C!Message /\ msg.type = "mode" /\ msg.ls = ls
  BY <1>3 DEF C!Message
<1> HIDE DEF msg
<1>5. net \in C!Modes
  BY <1>1 DEF ModesTyped
<1>6. /\ net' \in C!Modes
      /\ \A x \in Slots : Has(net', x) = IF Mentions(ls, x) THEN Verdict(ls, x) ELSE Has(net, x)
  BY <1>2, <1>3, <1>5, ApplyAllIs
<1>7. \A x \in Slots : Has(net', x) = IF About(msg, x) THEN Gives(msg, x) ELSE Has(net, x)
  BY <1>4, <1>6 DEF About, Gives
<1>8. netAlive' \in BOOLEAN /\ unlocked' \in BOOLEAN
  BY <1>1, <1>2 DEF ModesTyped
<1>9. /\ ModesTyped'
      /\ toCs' = Append(toCs, msg) /\ toNet' = toNet /\ raced' = (raced \/ toNet # <<>>)
      /\ UNCHANGED <<alive, view, lock, dropped, carried>>
  BY <1>1, <1>2, <1>4, <1>6, <1>8, ActingTyped
<1>10. LockStands' /\ ViewStands'
  BY <1>1, <1>2, <1>4, <1>7, <1>9, ActingStands
<1> QED BY <1>9, <1>10 DEF ModesStand

LEMMA CreateStands ==
  ASSUME ModesStand, NEW u \in Members, NEW S \in StartModes, NEW p \in Policies, C!Create(u, S, p)
  PROVE  ModesStand'
<1>1. ModesTyped /\ LockStands /\ ViewStands
  BY DEF ModesStand
<1> DEFINE modes == [C!NoModes EXCEPT !.mode = S, !.ops = {u}]
           msg == [type |-> "sjoin", modes |-> modes, who |-> u, policy |-> p]
<1>2. /\ ~netAlive /\ C!Acts(msg) /\ net' = modes /\ netAlive' = TRUE
      /\ unlocked' = (unlocked \/ C!Crosses(toNet, toCs'))
  BY DEF C!Create
<1>3. modes \in C!Modes
  BY ModesAssumption DEF C!NoModes, C!Modes
<1> HIDE DEF modes
<1>4. msg \in C!Message /\ msg.type = "sjoin" /\ msg.modes = modes
  BY <1>3 DEF C!Message
<1> HIDE DEF msg
<1>5. \A x \in Slots : Has(net', x) = IF About(msg, x) THEN Gives(msg, x) ELSE Has(net, x)
  BY <1>2, <1>4 DEF About, Gives
<1>6. net' \in C!Modes /\ netAlive' \in BOOLEAN /\ unlocked' \in BOOLEAN
  BY <1>2, <1>3
<1>7. /\ ModesTyped'
      /\ toCs' = Append(toCs, msg) /\ toNet' = toNet /\ raced' = (raced \/ toNet # <<>>)
      /\ UNCHANGED <<alive, view, lock, dropped, carried>>
  BY <1>1, <1>2, <1>4, <1>6, ActingTyped
<1>8. ~unlocked' => toNet = <<>>
  <2>1. toCs \in Seq(C!Message)
    BY <1>1 DEF ModesTyped
  <2>2. Len(toCs) + 1 \in DOMAIN toCs' /\ toCs'[Len(toCs) + 1].type = "sjoin"
    BY <1>4, <1>7, <2>1
  <2> QED BY <1>2, <2>2 DEF C!Crosses
<1>9. LockStands' /\ ViewStands'
  BY <1>1, <1>2, <1>4, <1>5, <1>7, <1>8, ActingStands
<1> QED BY <1>7, <1>9 DEF ModesStand

LEMMA MergeStands ==
  ASSUME ModesStand, NEW u \in Members, NEW S \in StartModes, NEW p \in Policies, C!Merge(u, S, p)
  PROVE  ModesStand'
<1>1. ModesTyped /\ LockStands /\ ViewStands
  BY DEF ModesStand
<1> DEFINE modes == [C!NoModes EXCEPT !.mode = S]
           msg == [type |-> "sjoin", modes |-> modes, who |-> u, policy |-> p]
<1>2. /\ netAlive /\ C!Acts(msg) /\ net' = [net EXCEPT !.mode = @ \cup S] /\ unlocked' = TRUE
      /\ UNCHANGED netAlive
  BY DEF C!Merge
<1>3. modes \in C!Modes
  BY ModesAssumption DEF C!NoModes, C!Modes
<1>4. net' \in C!Modes
  <2>1. net \in C!Modes /\ S \subseteq Simple
    BY <1>1, ModesAssumption DEF ModesTyped
  <2>2. net.mode \cup S \subseteq Simple
    BY <2>1 DEF C!Modes
  <2> QED BY <1>2, <2>1, <2>2 DEF C!Modes
<1> HIDE DEF modes
<1>5. msg \in C!Message
  BY <1>3 DEF C!Message
<1> HIDE DEF msg
<1>6. netAlive' \in BOOLEAN /\ unlocked' \in BOOLEAN
  BY <1>1, <1>2 DEF ModesTyped
<1>7. /\ ModesTyped'
      /\ toCs' = Append(toCs, msg) /\ toNet' = toNet /\ raced' = (raced \/ toNet # <<>>)
      /\ UNCHANGED <<alive, view, lock, dropped, carried>>
  BY <1>1, <1>2, <1>4, <1>5, <1>6, ActingTyped
<1>8. LockStands' /\ ViewStands'
  BY <1>1, <1>2, <1>5, <1>7, ActingStands
<1> QED BY <1>7, <1>8 DEF ModesStand

LEMMA LeaveStands ==
  ASSUME ModesStand, C!Leave
  PROVE  ModesStand'
<1>1. ModesTyped /\ LockStands /\ ViewStands
  BY DEF ModesStand
<1> DEFINE msg == [type |-> "part"]
<1>2. /\ netAlive /\ C!Acts(msg) /\ netAlive' = FALSE /\ net' = C!NoModes /\ UNCHANGED unlocked
  BY DEF C!Leave
<1>3. msg \in C!Message /\ msg.type = "part"
  BY DEF C!Message
<1> HIDE DEF msg
<1>4. net' \in C!Modes
  BY <1>2 DEF C!NoModes, C!Modes
<1>5. \A x \in Slots : Has(net', x) = IF About(msg, x) THEN Gives(msg, x) ELSE Has(net, x)
  BY <1>2, <1>3 DEF About, Gives
<1>6. netAlive' \in BOOLEAN /\ unlocked' \in BOOLEAN
  BY <1>1, <1>2 DEF ModesTyped
<1>7. /\ ModesTyped'
      /\ toCs' = Append(toCs, msg) /\ toNet' = toNet /\ raced' = (raced \/ toNet # <<>>)
      /\ UNCHANGED <<alive, view, lock, dropped, carried>>
  BY <1>1, <1>2, <1>3, <1>4, <1>6, ActingTyped
<1>8. LockStands' /\ ViewStands'
  BY <1>1, <1>2, <1>3, <1>5, <1>7, ActingStands
<1> QED BY <1>7, <1>8 DEF ModesStand

-----------------------------------------------------------------------------
(* All of it *)

LEMMA ModesStart ==
  ASSUME C!Init
  PROVE  ModesStand
<1>1. /\ netAlive = FALSE /\ alive = FALSE /\ net = C!NoModes /\ view = C!NoModes
      /\ lock = NoLock /\ cut = FALSE /\ autolimit = FALSE /\ toNet = <<>> /\ toCs = <<>> /\ changes = 0
      /\ raced = FALSE /\ carried = FALSE /\ dropped = FALSE /\ unlocked = FALSE
  BY DEF C!Init
<1>2. C!NoModes \in C!Modes
  BY DEF C!NoModes, C!Modes
<1>3. ModesTyped
  <2>1. toNet \in Seq(Seq(C!Letter)) /\ toCs \in Seq(C!Message) /\ Len(toCs) <= MaxQueue
    BY <1>1, ModesAssumption, EmptySeq
  <2>2. changes \in 0..MaxChanges
    BY <1>1, ModesAssumption
  <2>3. net \in C!Modes /\ view \in C!Modes
    BY <1>1, <1>2
  <2> QED BY <1>1, <2>1, <2>2, <2>3 DEF ModesTyped
<1>4. ~Joining /\ Lawful
  BY <1>1 DEF Joining, Lawful
<1>5. LockStands
  BY <1>1, <1>4 DEF LockStands
<1>6. \A x : WillView(Has(view, x), toCs, x) = Coming(x)
  BY <1>1, NothingSaid DEF WillView, Coming
<1>7. ViewStands
  BY <1>1, <1>6 DEF ViewStands
<1> QED BY <1>3, <1>5, <1>7 DEF ModesStand

LEMMA ModesStep ==
  ASSUME ModesStand, C!Next
  PROVE  ModesStand'
<1>1. ModesTyped
  BY DEF ModesStand
<1>2. CASE C!Services
  <2>1. ASSUME NEW lk \in Locks, NEW saved \in BOOLEAN, C!SetMlock(lk, saved)
        PROVE  ModesStand'
    <3>1. CASE alive
      BY <2>1, <3>1, SetMlockStands
    <3>2. CASE ~alive
      BY <2>1, <3>2, SetMlockAway
    <3> QED BY <3>1, <3>2
  <2>2. CASE C!UnsetMlock \/ C!SetAutolimit
    BY <2>2, UnsetMlockStands
  <2>3. CASE C!ClearModes
    BY <2>3, ClearModesStands
  <2>4. ASSUME NEW u \in Members, C!Op(u) \/ C!Deop(u) \/ C!Voice(u) \/ C!Devoice(u)
        PROVE  ModesStand'
    <3>1. {u} \in SUBSET Members
      OBVIOUS
    <3>2. PICK d \in {"+", "-"}, c \in {"o", "v"} : C!SendFlags(d, c, {u})
      BY <2>4 DEF C!Op, C!Deop, C!Voice, C!Devoice
    <3> QED BY <3>1, <3>2, SendFlagsStands
  <2>5. CASE C!ClearOps
    <3>1. view.ops \in SUBSET Members
      BY <1>1 DEF ModesTyped, C!Modes
    <3>2. C!SendFlags("-", "o", view.ops)
      BY <2>5 DEF C!ClearOps
    <3> QED BY <3>1, <3>2, SendFlagsStands
  <2>6. CASE C!ClearVoices
    <3>1. view.voices \in SUBSET Members
      BY <1>1 DEF ModesTyped, C!Modes
    <3>2. C!SendFlags("-", "v", view.voices)
      BY <2>6 DEF C!ClearVoices
    <3> QED BY <3>1, <3>2, SendFlagsStands
  <2>7. CASE \E n \in 1..Cardinality(Members) : C!ProcessLimitList(n)
    BY <2>7, ProcessLimitListStands
  <2> QED BY <1>2, <2>1, <2>2, <2>3, <2>4, <2>5, <2>6, <2>7 DEF C!Services, C!Cardinality, Cardinality
<1>3. CASE C!Receive
  <2>1. CASE C!RecvSjoin
    BY <2>1, RecvSjoinStands, RecvSjoinAgain
  <2>2. CASE C!RecvMode
    BY <2>2, RecvModeStands, RecvModeAway
  <2>3. CASE C!RecvPart
    BY <2>3, RecvPartStands
  <2> QED BY <1>3, <2>1, <2>2, <2>3 DEF C!Receive
<1>4. CASE C!Network
  BY <1>4, NetApplyStands, UserModeStands, CreateStands, MergeStands, LeaveStands DEF C!Network
<1> QED BY <1>2, <1>3, <1>4 DEF C!Next

\* Once nothing is under way, the lock holds and the two views are one.
LEMMA StandingHolds ==
  ASSUME ModesStand
  PROVE  C!TypeOK /\ C!LockHolds /\ C!ViewAgrees
<1>1. ModesTyped /\ LockStands /\ ViewStands
  BY DEF ModesStand
<1>2. C!TypeOK
  <2>1. {C!history[i] : i \in 1..4} \subseteq BOOLEAN
    BY <1>1 DEF ModesTyped, C!history
  <2> QED BY <1>1, <2>1 DEF ModesTyped, C!TypeOK
<1>3. ASSUME C!Quiet, NEW x \in Slots
      PROVE  Coming(x) = Has(net, x) /\ ~Pending(x) /\ WillView(Has(view, x), toCs, x) = Has(view, x)
  BY <1>3, NothingSaid DEF C!Quiet, Coming, Pending, WillView
<1>4. C!LockHolds
  <2>1. SUFFICES ASSUME C!Quiet, lock # NoLock, ~unlocked
                 PROVE  /\ lock.on \subseteq net.mode /\ lock.off \cap net.mode = {}
                        /\ lock.key = C!Off /\ ~dropped => net.key = 0
    BY DEF C!LockHolds
  <2>2. ASSUME NEW x \in Slots, Held(x)
        PROVE  Has(net, x) = Wanted(lock, x)
    BY <1>1, <1>3, <2>1, <2>2 DEF LockStands, C!Quiet
  <2>3. lock \in C!Lock /\ lock.on \cap lock.off = {}
    BY <1>1, <2>1 DEF ModesTyped
  <2>4. ASSUME NEW c \in lock.on \cup lock.off
        PROVE  Bit(c \in net.mode) = IF c \in lock.on THEN 1 ELSE 0
    <3>1. c \in Simple
      BY <2>3, LockIs
    <3>2. <<c, 0>> \in Slots /\ Held(<<c, 0>>)
      BY <2>1, <3>1 DEF Slots, Held
    <3>3. Has(net, <<c, 0>>) = Bit(c \in net.mode)
      BY <3>1, HasAt
    <3>4. Wanted(lock, <<c, 0>>) = IF c \in lock.on THEN 1 ELSE 0
      BY <3>1, ModesAssumption DEF Wanted
    <3> QED BY <2>2, <3>2, <3>3, <3>4
  <2>5. lock.on \subseteq net.mode /\ lock.off \cap net.mode = {}
    BY <2>3, <2>4 DEF Bit
  <2>6. lock.key = C!Off /\ ~dropped => net.key = 0
    <3>1. <<"k", 0>> \in Slots
      BY DEF Slots
    <3>2. lock.key = C!Off => Wanted(lock, <<"k", 0>>) = 0
      BY <2>3, LockIs DEF Wanted
    <3>3. Has(net, <<"k", 0>>) = net.key
      BY HasAt
    <3> QED BY <2>1, <2>2, <3>1, <3>2, <3>3 DEF Held
  <2> QED BY <2>5, <2>6
<1>5. C!ViewAgrees
  <2>1. SUFFICES ASSUME C!Quiet, Clean
                 PROVE  view = net
    BY DEF C!ViewAgrees, Clean
  <2>2. \A x \in Slots : Has(view, x) = Has(net, x)
    BY <1>1, <1>3, <2>1 DEF ViewStands, Clean
  <2> QED BY <1>1, <2>2, SameEverywhere DEF ModesTyped
<1> QED BY <1>2, <1>4, <1>5

\* A channel's modes are of their types; enforce_mode_lock gets the network the
\* modes the lock wants, and services know the modes it has, whatever users and
\* services do, but for the exceptions ModesHold names.
THEOREM LocksHold == MCSpec => []ModesHold
<1> DEFINE Inv == part = "modes" => ModesStand
<1>1. MCInit => Inv
  BY ModesStart DEF MCInit
<1>2. Inv /\ [MCNext]_<<part, vars, cvars, tvars, fvars>> => Inv'
  <2>1. SUFFICES ASSUME part = "modes" => ModesStand, part' = "modes",
                        [MCNext]_<<part, vars, cvars, tvars, fvars>>
                 PROVE  ModesStand'
    OBVIOUS
  <2>2. CASE MCNext
    <3>1. C!Next
      BY <2>1, <2>2 DEF MCNext
    <3> QED BY <2>1, <2>2, <3>1, ModesStep DEF MCNext
  <2>3. CASE UNCHANGED <<part, vars, cvars, tvars, fvars>>
    <3>1. UNCHANGED cvars /\ ModesStand
      BY <2>1, <2>3
    <3> QED BY <3>1 DEF cvars, ModesStand, ModesTyped, LockStands, ViewStands, Lawful, Before, Joining,
              Held, Pending, Coming, Clean
  <2> QED BY <2>1, <2>2, <2>3
<1>3. Inv => ModesHold
  BY StandingHolds DEF ModesHold
<1> QED BY <1>1, <1>2, <1>3, PTL DEF MCSpec

=============================================================================
