---------------------------- MODULE Sessions_proofs ----------------------------
(***************************************************************************)
(* What the sessions of users rest on: the protection of their nicknames,   *)
(* whatever messages are under way, passwords and mailed codes, how a       *)
(* user is recognised, the access of operators and administrators, the      *)
(* copies of account rows, and transactions; for any users, accounts,       *)
(* nicknames and lists, first part by part and then for the system that     *)
(* MCSessions composes.                                                     *)
(***************************************************************************)
EXTENDS MCSessions, SequenceTheorems, TLAPS

-----------------------------------------------------------------------------
(* The protection of nicknames.                                            *)

\* A client waits for a nickname exactly if it is known for which one
\* (handle_nick_change sets release_to and release_name, ns_on_nick_change and
\* exit_client clear both).
ReleasePaired == \A u \in Users : release_to[u] = NoOne <=> release_name[u] = NoOne

TypeInv == TypeOK /\ ReleasePaired

-----------------------------------------------------------------------------
(* Types.                                                                  *)

\* What services send is a message.
LEMMA MessagesTyped ==
  /\ \A u \in Users, n \in Names : SvsNick(u, n) \in Message
  /\ \A e \in Enforcers, n \in Names : Introduce(e, n) \in Message
  /\ \A c \in Wearers : Remove(c) \in Message
BY DEF SvsNick, Introduce, Remove, Message

\* exit_client keeps the types of what it changes.
LEMMA ExitTypes ==
  ASSUME TypeInv, NEW c \in Wearers, Exit(c)
  PROVE  /\ nick' \in [Wearers -> Names \cup {Off}]
         /\ session' \in [Users -> Nicks \cup {NoOne}]
         /\ release_to' \in [Users -> Users \cup {NoOne}]
         /\ release_name' \in [Users -> Nicks \cup {NoOne}]
         /\ identified' \subseteq Users
         /\ enforce' \subseteq Wearers
         /\ killing' \subseteq Wearers
         /\ enforce_list' \in [Wearers -> Nat]
         /\ ReleasePaired'
<1> USE DEF TypeInv, TypeOK
<1>1. enforce_list' \in [Wearers -> Nat]
  BY DEF Exit, Unlisted
<1>2. ReleasePaired'
  BY DEF Exit, Cleared, ReleasePaired
<1> QED BY <1>1, <1>2 DEF Exit, Cleared

\* What ns_on_nick_change finds: an enforcer that is free or none, and a
\* waiting client, which is a live user, or none.
LEMMA ChangeFinds ==
  ASSUME TypeInv, NEW u \in Users, Live(u), NEW e \in Takers(u), NEW c \in ReleaseTargets(u), NEW n \in Names
  PROVE  /\ e = NoOne \/ (e \in Enforcers /\ ~Live(e) /\ u # e)
         /\ c = NoOne \/ (c \in Users /\ Live(c))
         /\ nick[u] \in Names
         /\ Renamed(u, n, e) \in [Wearers -> Names \cup {Off}]
         /\ Wanted(u, c, Renamed(u, n, e)) \subseteq Wearers
         /\ Granted(c) => c \in Users /\ release_name[u] \in Nicks
<1> USE DEF TypeInv, TypeOK
<1>1. e = NoOne \/ (e \in Enforcers /\ ~Live(e) /\ u # e)
  BY SessionAssumption DEF Takers
<1>2. c = NoOne \/ (c \in Users /\ Live(c))
  BY SessionAssumption DEF ReleaseTargets, Live, Wearers
<1>3. nick[u] \in Names
  BY DEF Live, Wearers
<1>4. Renamed(u, n, e) \in [Wearers -> Names \cup {Off}]
  BY <1>1, <1>3 DEF Renamed, Wearers
<1>5. Wanted(u, c, Renamed(u, n, e)) \subseteq Wearers
  BY DEF Wanted, Holders
<1>6. Granted(c) => c \in Users /\ release_name[u] \in Nicks
  BY <1>2, SessionAssumption DEF Granted, ReleaseTargets, ReleasePaired
<1> QED BY <1>1, <1>2, <1>3, <1>4, <1>5, <1>6

\* A user's change keeps the types.
LEMMA ChangeTypes ==
  ASSUME TypeInv, NEW u \in Users, NEW n \in Names, NEW queue \in Seq(Message),
         Live(u), real' \in [Wearers -> Names \cup {Off}],
         OnNickChange(u, n, queue)
  PROVE  TypeInv'
<1> USE DEF TypeInv, TypeOK
<1> DEFINE Acc(c) == IF u \in Known(c) /\ session[u] # NoOne THEN Account[session[u]] ELSE NoOne
<1>1. PICK e \in Takers(u), c \in ReleaseTargets(u) :
        /\ nick' = Renamed(u, n, e)
        /\ release_list' = IF e = NoOne THEN release_list ELSE [release_list EXCEPT ![e] = @ + 1]
        /\ enforce' = enforce \ {u}
        /\ killing' = killing \cup Wanted(u, c, Renamed(u, n, e))
        /\ out' = queue \o (IF e = NoOne THEN <<>> ELSE <<Introduce(e, nick[u])>>)
                        \o (IF Granted(c) THEN <<SvsNick(c, release_name[u])>> ELSE <<>>)
        /\ release_to' = IF Granted(c) THEN [release_to EXCEPT ![u] = NoOne] ELSE release_to
        /\ release_name' = IF Granted(c) THEN [release_name EXCEPT ![u] = NoOne] ELSE release_name
        /\ \E v \in Verdicts(u, n, Acc(c)) :
             /\ session' = [session EXCEPT ![u] =
                              IF v = "identify" THEN n
                              ELSE IF v = "free" \/ u \in Known(c) THEN NoOne ELSE @]
             /\ identified' = IF v = "identify" THEN Known(c) \cup {u} ELSE Known(c) \ {u}
             /\ enforce_list' = IF v = "enforce" THEN [Unlisted(enforce_list, u) EXCEPT ![u] = @ + 1]
                                                 ELSE Unlisted(enforce_list, u)
        /\ UNCHANGED <<status, aborted>>
  BY DEF OnNickChange
<1>2. /\ e = NoOne \/ (e \in Enforcers /\ ~Live(e) /\ u # e)
      /\ c = NoOne \/ (c \in Users /\ Live(c))
      /\ nick[u] \in Names
      /\ Renamed(u, n, e) \in [Wearers -> Names \cup {Off}]
      /\ Wanted(u, c, Renamed(u, n, e)) \subseteq Wearers
      /\ Granted(c) => c \in Users /\ release_name[u] \in Nicks
  BY ChangeFinds
<1>3. PICK v \in Verdicts(u, n, Acc(c)) :
        /\ session' = [session EXCEPT ![u] =
                         IF v = "identify" THEN n
                         ELSE IF v = "free" \/ u \in Known(c) THEN NoOne ELSE @]
        /\ identified' = IF v = "identify" THEN Known(c) \cup {u} ELSE Known(c) \ {u}
        /\ enforce_list' = IF v = "enforce" THEN [Unlisted(enforce_list, u) EXCEPT ![u] = @ + 1]
                                            ELSE Unlisted(enforce_list, u)
  BY <1>1
<1>4. v = "identify" => n \in Nicks
  BY DEF Verdicts, Forbidden, Registered
<1>5. session' \in [Users -> Nicks \cup {NoOne}]
  BY <1>3, <1>4
<1>6. identified' \subseteq Users
  BY <1>2, <1>3 DEF Known
<1>7. Unlisted(enforce_list, u) \in [Wearers -> Nat]
  BY DEF Unlisted, Wearers
<1>8. enforce_list' \in [Wearers -> Nat]
  <2>1. u \in Wearers
    BY DEF Wearers
  <2> QED BY <2>1, <1>3, <1>7
<1>9. out' \in Seq(Message)
  <2> DEFINE a == IF e = NoOne THEN <<>> ELSE <<Introduce(e, nick[u])>>
             b == IF Granted(c) THEN <<SvsNick(c, release_name[u])>> ELSE <<>>
  <2>1. a \in Seq(Message)
    BY <1>2, MessagesTyped
  <2>2. b \in Seq(Message)
    BY <1>2, MessagesTyped DEF Names
  <2>3. out' = queue \o a \o b
    BY <1>1
  <2> HIDE DEF a, b
  <2> QED BY <2>1, <2>2, <2>3
<1>10. /\ release_list' \in [Wearers -> Nat]
       /\ enforce' \subseteq Wearers
       /\ killing' \subseteq Wearers
       /\ nick' \in [Wearers -> Names \cup {Off}]
  <2>1. release_list' \in [Wearers -> Nat]
    <3>1. release_list' = IF e = NoOne THEN release_list ELSE [release_list EXCEPT ![e] = @ + 1]
      BY <1>1
    <3> QED BY <3>1, <1>2 DEF Wearers
  <2>2. enforce' = enforce \ {u} /\ killing' = killing \cup Wanted(u, c, Renamed(u, n, e))
        /\ nick' = Renamed(u, n, e)
    BY <1>1
  <2> QED BY <2>1, <2>2, <1>2
<1>11. /\ release_to' \in [Users -> Users \cup {NoOne}]
       /\ release_name' \in [Users -> Nicks \cup {NoOne}]
       /\ ReleasePaired'
  BY <1>1 DEF ReleasePaired
<1>12. status' = status /\ aborted' = aborted
  BY <1>1
<1>13. TypeOK'
  BY <1>5, <1>6, <1>8, <1>9, <1>10, <1>11, <1>12
<1> QED BY <1>11, <1>13

\* A NICK message keeps the types, whether it is handled or not.
LEMMA NickTypes ==
  ASSUME TypeInv, NEW u \in Users, NEW n \in Names, NEW queue \in Seq(Message),
         real' \in [Wearers -> Names \cup {Off}],
         NickMessage(u, n, queue)
  PROVE  TypeInv'
<1>1. CASE Live(u) /\ Holders(nick, n) = {}
  BY <1>1, ChangeTypes DEF NickMessage
<1>2. CASE ~(Live(u) /\ Holders(nick, n) = {})
  BY <1>2 DEF NickMessage, TypeInv, TypeOK, ReleasePaired
<1> QED BY <1>1, <1>2

\* What the first message to the server is.
LEMMA HeadTyped ==
  ASSUME TypeInv, out # <<>>
  PROVE  /\ Head(out) \in Message /\ Tail(out) \in Seq(Message)
         /\ Head(out).type = "SVSNICK" => Head(out).client \in Users /\ Head(out).name \in Names
         /\ Head(out).type = "UID" => Head(out).client \in Enforcers /\ Head(out).name \in Names
         /\ Head(out).type = "QUIT" => Head(out).client \in Wearers
<1>1. Head(out) \in Message /\ Tail(out) \in Seq(Message)
  BY DEF TypeInv, TypeOK
<1> QED BY <1>1 DEF Message

LEMMA StepTypes ==
  ASSUME TypeInv, [Next]_vars
  PROVE  TypeInv'
<1> USE DEF TypeInv, TypeOK
<1>1. ASSUME NEW u \in Users, NEW n \in Nicks, Connect(u, n) PROVE TypeInv'
  <2>1. u \in Wearers /\ n \in Names
    BY DEF Wearers, Names
  <2>2. real' \in [Wearers -> Names \cup {Off}]
    BY <1>1, <2>1 DEF Connect
  <2>3. CASE Holders(nick, n) = {}
    <3>1. OnNewUser(u, n)
      BY <1>1, <2>3 DEF Connect
    <3>2. PICK v \in Verdicts(u, n, NoOne) :
            /\ session' = [session EXCEPT ![u] = IF v = "identify" THEN n ELSE NoOne]
            /\ identified' = IF v = "identify" THEN identified \cup {u} ELSE identified
            /\ enforce_list' = IF v = "enforce" THEN [enforce_list EXCEPT ![u] = @ + 1]
                                                ELSE enforce_list
      BY <3>1 DEF OnNewUser
    <3>3. session' \in [Users -> Nicks \cup {NoOne}] /\ identified' \subseteq Users
      BY <3>2
    <3>4. enforce_list' \in [Wearers -> Nat]
      BY <3>2, <2>1
    <3> QED BY <2>1, <2>2, <3>1, <3>3, <3>4 DEF OnNewUser, ReleasePaired
  <2>4. CASE Holders(nick, n) # {}
    BY <1>1, <2>2, <2>4 DEF Connect, ReleasePaired
  <2> QED BY <2>3, <2>4
<1>2. ASSUME NEW u \in Users, NEW n \in Nicks, UserNick(u, n) PROVE TypeInv'
  <2>1. u \in Wearers /\ n \in Names
    BY DEF Wearers, Names
  <2>2. real' \in [Wearers -> Names \cup {Off}]
    BY <1>2, <2>1 DEF UserNick
  <2> QED BY <1>2, <2>1, <2>2, NickTypes DEF UserNick
<1>3. ASSUME NEW u \in Users, NEW n \in Nicks, HandleNickChange(u, n) PROVE TypeInv'
  <2>1. u \in Wearers /\ n \in Names
    BY DEF Wearers, Names
  <2>2. /\ session' \in [Users -> Nicks \cup {NoOne}] /\ identified' \subseteq Users
        /\ enforce_list' \in [Wearers -> Nat]
        /\ real' = real /\ status' = status /\ enforce' = enforce /\ aborted' = aborted
    BY <1>3, <2>1 DEF HandleNickChange, Unlisted
  <2>3. CASE /\ out' = Append(out, SvsNick(u, n))
             /\ UNCHANGED <<nick, release_list, release_to, release_name, killing>>
    <3>1. out' \in Seq(Message)
      BY <2>1, <2>3, MessagesTyped
    <3> QED BY <2>2, <2>3, <3>1 DEF ReleasePaired
  <2>4. ASSUME NEW e \in Holders(nick, n) \cap Enforcers,
               nick' = [nick EXCEPT ![e] = Off],
               release_list' = Unlisted(release_list, e),
               killing' = killing \ {e},
               out' = out \o <<Remove(e), SvsNick(u, n)>>,
               UNCHANGED <<release_to, release_name>>
        PROVE  TypeInv'
    <3>1. e \in Wearers
      BY DEF Wearers
    <3>2. release_list' \in [Wearers -> Nat]
      BY <2>4, <3>1 DEF Unlisted
    <3>3. <<Remove(e), SvsNick(u, n)>> \in Seq(Message)
      BY <2>1, <3>1, MessagesTyped
    <3>4. out' \in Seq(Message)
      BY <2>4, <3>3
    <3> QED BY <2>2, <2>4, <3>2, <3>4 DEF ReleasePaired
  <2>5. ASSUME NEW t \in Holders(nick, n) \cap Users, NEW g \in GuestNames,
               release_to' = [release_to EXCEPT ![t] = u],
               release_name' = [release_name EXCEPT ![t] = n],
               out' = Append(out, SvsNick(t, g)),
               UNCHANGED <<nick, release_list, killing>>
        PROVE  TypeInv'
    <3>1. out' \in Seq(Message)
      BY <2>5, MessagesTyped DEF GuestNames, Names
    <3>2. release_to' \in [Users -> Users \cup {NoOne}] /\ release_name' \in [Users -> Nicks \cup {NoOne}]
      BY <2>5
    <3>3. ReleasePaired'
      BY <2>1, <2>5, SessionAssumption DEF ReleasePaired
    <3> QED BY <2>2, <2>5, <3>1, <3>2, <3>3
  <2> QED BY <1>3, <2>3, <2>4, <2>5 DEF HandleNickChange
<1>4. ASSUME NEW u \in Users, Quit(u) PROVE TypeInv'
  <2>1. u \in Wearers
    BY DEF Wearers
  <2>2. real' \in [Wearers -> Names \cup {Off}]
    BY <1>4, <2>1 DEF Quit
  <2>3. CASE Live(u)
    BY <1>4, <2>1, <2>2, <2>3, ExitTypes DEF Quit
  <2>4. CASE ~Live(u)
    BY <1>4, <2>2, <2>4 DEF Quit, ReleasePaired
  <2> QED BY <2>3, <2>4
<1>5. ASSUME NEW u \in Users, Identify(u) PROVE TypeInv'
  <2>1. u \in Wearers
    BY DEF Wearers
  <2>2. nick[u] \in Nicks
    BY <1>5 DEF Identify, Registered
  <2>3. session' \in [Users -> Nicks \cup {NoOne}] /\ identified' \subseteq Users
    BY <1>5, <2>2 DEF Identify
  <2>4. enforce_list' \in [Wearers -> Nat]
    BY <1>5, <2>1 DEF Identify, Unlisted
  <2> QED BY <1>5, <2>3, <2>4 DEF Identify, ReleasePaired
<1>6. ASSUME NEW n \in Nicks, Forbid(n) PROVE TypeInv'
  <2>1. enforce_list' \in [Wearers -> Nat]
    BY <1>6 DEF Forbid
  <2>2. status' \in [Nicks -> {"registered", "forbidden", "free"}]
    BY <1>6 DEF Forbid
  <2> QED BY <1>6, <2>1, <2>2 DEF Forbid, ReleasePaired
<1>7. ASSUME NEW n \in Nicks, Unforbid(n) PROVE TypeInv'
  <2>1. status' \in [Nicks -> {"registered", "forbidden", "free"}]
    BY <1>7 DEF Unforbid
  <2>2. CASE UNCHANGED <<nick, session, release_to, release_name, identified, enforce,
                         killing, enforce_list, release_list, out>>
    BY <1>7, <2>1, <2>2 DEF Unforbid, ReleasePaired
  <2>3. ASSUME NEW c \in Holders(nick, n), Exit(c),
               release_list' = Unlisted(release_list, c), out' = Append(out, Remove(c))
        PROVE  TypeInv'
    <3>1. c \in Wearers
      BY DEF Holders
    <3>2. release_list' \in [Wearers -> Nat]
      BY <2>3, <3>1 DEF Unlisted
    <3>3. out' \in Seq(Message)
      BY <2>3, <3>1, MessagesTyped
    <3> QED BY <1>7, <2>1, <2>3, <3>1, <3>2, <3>3, ExitTypes DEF Unforbid
  <2> QED BY <1>7, <2>2, <2>3 DEF Unforbid
<1>8. ASSUME NEW c \in Wearers, ProcessEnforce(c) PROVE TypeInv'
  <2>1. enforce_list' \in [Wearers -> Nat]
    BY <1>8 DEF ProcessEnforce
  <2>2. out' \in Seq(Message) /\ enforce' \subseteq Wearers /\ aborted' \in BOOLEAN
    <3>1. CASE ~Live(c)
      BY <1>8, <3>1 DEF ProcessEnforce
    <3>2. CASE Live(c)
      <4>1. enforce' \subseteq Wearers /\ aborted' \in BOOLEAN
        BY <1>8, <3>2 DEF ProcessEnforce
      <4>2. CASE c \in Users
        <5>1. PICK g \in GuestNames : out' = Append(out, SvsNick(c, g))
          BY <1>8, <3>2, <4>2 DEF ProcessEnforce
        <5>2. SvsNick(c, g) \in Message
          BY <4>2, MessagesTyped DEF GuestNames, Names
        <5> QED BY <4>1, <5>1, <5>2
      <4>3. CASE c \notin Users
        BY <1>8, <3>2, <4>1, <4>3 DEF ProcessEnforce
      <4> QED BY <4>2, <4>3
    <3> QED BY <3>1, <3>2
  <2> QED BY <1>8, <2>1, <2>2 DEF ProcessEnforce, ReleasePaired
<1>9. ASSUME NEW c \in Wearers, ProcessRelease(c) PROVE TypeInv'
  <2>1. release_list' \in [Wearers -> Nat]
    BY <1>9 DEF ProcessRelease
  <2>2. CASE ~Live(c)
    BY <1>9, <2>1, <2>2 DEF ProcessRelease, ReleasePaired
  <2>3. CASE Live(c)
    <3>1. out' \in Seq(Message)
      <4>1. out' = Append(out, Remove(c)) /\ Remove(c) \in Message
        BY <1>9, <2>3, MessagesTyped DEF ProcessRelease
      <4> QED BY <4>1
    <3> QED BY <1>9, <2>1, <2>3, <3>1, ExitTypes DEF ProcessRelease
  <2> QED BY <2>2, <2>3
<1>10. ASSUME NEW c \in Wearers, Kill(c) PROVE TypeInv'
  <2>1. out' \in Seq(Message)
    BY <1>10, MessagesTyped DEF Kill
  <2> QED BY <1>10, <2>1, ExitTypes DEF Kill
<1>11. ASSUME Deliver PROVE TypeInv'
  <2> DEFINE m == Head(out)
             queue == Tail(out)
  <2>1. out # <<>>
    BY <1>11 DEF Deliver
  <2>2. /\ queue \in Seq(Message)
        /\ m.type = "SVSNICK" => m.client \in Users /\ m.name \in Names
        /\ m.type = "UID" => m.client \in Enforcers /\ m.name \in Names
        /\ m.type = "QUIT" => m.client \in Wearers
    BY <2>1, HeadTyped
  <2>3. \/ m.type = "SVSNICK" /\ DeliverSvsNick(m.client, m.name, queue)
        \/ m.type = "UID" /\ DeliverIntroduce(m.client, m.name, queue)
        \/ m.type = "QUIT" /\ out' = queue /\ real' = [real EXCEPT ![m.client] = Off] /\ NickServUnchanged
    BY <1>11 DEF Deliver
  <2> HIDE DEF m, queue
  <2>4. ASSUME NEW u \in Users, NEW n \in Names, DeliverSvsNick(u, n, queue) PROVE TypeInv'
    <3>1. CASE real[u] # Off /\ Holders(real, n) = {}
      <4>1. real' \in [Wearers -> Names \cup {Off}]
        BY <2>4, <3>1 DEF DeliverSvsNick, Wearers
      <4> QED BY <2>2, <2>4, <3>1, <4>1, NickTypes DEF DeliverSvsNick
    <3>2. CASE ~(real[u] # Off /\ Holders(real, n) = {})
      BY <2>2, <2>4, <3>2 DEF DeliverSvsNick, NickServUnchanged, ReleasePaired
    <3> QED BY <3>1, <3>2
  <2>5. ASSUME NEW e \in Enforcers, NEW n \in Names, DeliverIntroduce(e, n, queue) PROVE TypeInv'
    <3>1. e \in Wearers
      BY DEF Wearers
    <3>2. CASE Holders(real, n) = {}
      BY <2>2, <2>5, <3>1, <3>2 DEF DeliverIntroduce, NickServUnchanged, ReleasePaired
    <3>3. CASE Holders(real, n) # {} /\ Remove(e) \in Range(queue)
      BY <2>2, <2>5, <3>3 DEF DeliverIntroduce, NickServUnchanged, ReleasePaired
    <3>4. CASE Holders(real, n) # {} /\ Remove(e) \notin Range(queue)
      BY <2>2, <2>5, <3>1, <3>4, ExitTypes DEF DeliverIntroduce
    <3> QED BY <3>2, <3>3, <3>4
  <2>6. CASE m.type = "QUIT" /\ out' = queue /\ real' = [real EXCEPT ![m.client] = Off] /\ NickServUnchanged
    BY <2>2, <2>6 DEF NickServUnchanged, ReleasePaired
  <2> QED BY <2>2, <2>3, <2>4, <2>5, <2>6
<1>12. CASE UNCHANGED vars
  BY <1>12 DEF vars, ReleasePaired
<1> QED BY <1>1, <1>2, <1>3, <1>4, <1>5, <1>6, <1>7, <1>8, <1>9, <1>10, <1>11, <1>12
        DEF Next, UserStep, OperatorStep, TimerStep

\* The variables of NickServ's nickname protection stay in their types, and a
\* user that is to release a nickname is so for somebody and for a nickname.
THEOREM ProtectionTyped == Spec => [](TypeOK /\ ReleasePaired)
<1>1. Init => TypeInv
  <2> SUFFICES ASSUME Init PROVE TypeInv
    OBVIOUS
  <2>1. out \in Seq(Message)
    BY DEF Init
  <2>2. ReleasePaired
    BY DEF Init, ReleasePaired
  <2> QED BY <2>1, <2>2 DEF Init, TypeInv, TypeOK
<1>2. TypeInv /\ [Next]_vars => TypeInv'
  BY StepTypes
<1>3. Spec => []TypeInv
  BY <1>1, <1>2, PTL DEF Spec
<1> QED BY <1>3, PTL DEF TypeInv

-----------------------------------------------------------------------------
(* Nicknames and kills.                                                     *)

\* What a step does to the nicknames services know and to the kill list.
Same == nick' = nick /\ killing' = killing

Appears(u, n) ==
  /\ ~Live(u) /\ Holders(nick, n) = {}
  /\ nick' = [nick EXCEPT ![u] = n] /\ killing' = killing

Leaves(c) == nick' = [nick EXCEPT ![c] = Off] /\ killing' = killing \ {c}

Changes(u, n) ==
  /\ Live(u) /\ Holders(nick, n) = {}
  /\ \E e \in Takers(u), c \in ReleaseTargets(u) :
       /\ nick' = Renamed(u, n, e)
       /\ killing' = killing \cup Wanted(u, c, Renamed(u, n, e))

Effect ==
  \/ Same
  \/ \E u \in Users, n \in Names : Appears(u, n) \/ Changes(u, n)
  \/ \E c \in Wearers : Leaves(c)

LEMMA NickEffect ==
  ASSUME NEW u \in Users, NEW n \in Names, NEW queue, NickMessage(u, n, queue)
  PROVE  Same \/ Changes(u, n)
<1>1. CASE Live(u) /\ Holders(nick, n) = {}
  BY <1>1 DEF NickMessage, OnNickChange, Changes
<1>2. CASE ~(Live(u) /\ Holders(nick, n) = {})
  BY <1>2 DEF NickMessage, Same
<1> QED BY <1>1, <1>2

LEMMA StepEffect ==
  ASSUME TypeInv, [Next]_vars
  PROVE  Effect
<1> USE DEF Effect
<1>1. ASSUME NEW u \in Users, NEW n \in Nicks, Connect(u, n) PROVE Effect
  <2>1. n \in Names
    BY DEF Names
  <2>2. CASE Holders(nick, n) = {}
    BY <1>1, <2>1, <2>2 DEF Connect, OnNewUser, Appears
  <2>3. CASE Holders(nick, n) # {}
    BY <1>1, <2>3 DEF Connect, Same
  <2> QED BY <2>2, <2>3
<1>2. ASSUME NEW u \in Users, NEW n \in Nicks, UserNick(u, n) PROVE Effect
  <2>1. n \in Names
    BY DEF Names
  <2> QED BY <1>2, <2>1, NickEffect DEF UserNick
<1>3. ASSUME NEW u \in Users, NEW n \in Nicks, HandleNickChange(u, n) PROVE Effect
  <2>1. \/ UNCHANGED <<nick, killing>>
        \/ \E e \in Enforcers : nick' = [nick EXCEPT ![e] = Off] /\ killing' = killing \ {e}
    BY <1>3 DEF HandleNickChange
  <2> QED BY <2>1 DEF Same, Leaves, Wearers
<1>4. ASSUME NEW u \in Users, Quit(u) PROVE Effect
  BY <1>4 DEF Quit, Exit, Same, Leaves, Wearers
<1>5. ASSUME NEW u \in Users, Identify(u) PROVE Effect
  BY <1>5 DEF Identify, Same
<1>6. ASSUME NEW n \in Nicks, Forbid(n) PROVE Effect
  BY <1>6 DEF Forbid, Same
<1>7. ASSUME NEW n \in Nicks, Unforbid(n) PROVE Effect
  <2>1. \/ UNCHANGED <<nick, killing>>
        \/ \E c \in Wearers : Exit(c)
    BY <1>7 DEF Unforbid, Holders
  <2> QED BY <2>1 DEF Exit, Same, Leaves
<1>8. ASSUME NEW c \in Wearers, ProcessEnforce(c) PROVE Effect
  BY <1>8 DEF ProcessEnforce, Same
<1>9. ASSUME NEW c \in Wearers, ProcessRelease(c) PROVE Effect
  BY <1>9 DEF ProcessRelease, Exit, Same, Leaves
<1>10. ASSUME NEW c \in Wearers, Kill(c) PROVE Effect
  BY <1>10 DEF Kill, Exit, Leaves
<1>11. ASSUME Deliver PROVE Effect
  <2> DEFINE m == Head(out)
  <2>1. out # <<>>
    BY <1>11 DEF Deliver
  <2>2. /\ m.type = "SVSNICK" => m.client \in Users /\ m.name \in Names
        /\ m.type = "UID" => m.client \in Enforcers
    BY <2>1, HeadTyped
  <2>3. CASE m.type = "SVSNICK" /\ DeliverSvsNick(m.client, m.name, Tail(out))
    <3>1. NickMessage(m.client, m.name, Tail(out)) \/ UNCHANGED <<nick, killing>>
      BY <2>3 DEF DeliverSvsNick, NickServUnchanged
    <3> QED BY <2>2, <2>3, <3>1, NickEffect DEF Same
  <2>4. CASE m.type = "UID" /\ DeliverIntroduce(m.client, m.name, Tail(out))
    <3>1. Exit(m.client) \/ UNCHANGED <<nick, killing>>
      BY <2>4 DEF DeliverIntroduce, NickServUnchanged
    <3> QED BY <2>2, <2>4, <3>1 DEF Exit, Same, Leaves, Wearers
  <2>5. CASE NickServUnchanged
    BY <2>5 DEF NickServUnchanged, Same
  <2> QED BY <1>11, <2>3, <2>4, <2>5 DEF Deliver
<1>12. CASE UNCHANGED vars
  BY <1>12 DEF vars, Same
<1> QED BY <1>1, <1>2, <1>3, <1>4, <1>5, <1>6, <1>7, <1>8, <1>9, <1>10, <1>11, <1>12
        DEF Next, UserStep, OperatorStep, TimerStep

\* Only clients that are there are to be killed.
KilledAreLive == \A c \in killing : Live(c)

\* A change of nickname leaves every name with one client, in the view with
\* the enforcer in it, and who is killed for the waiting client is in it too.
LEMMA ChangeKeeps ==
  ASSUME TypeInv, NamesUnique, KilledAreLive,
         NEW u \in Users, NEW n \in Names, Changes(u, n)
  PROVE  /\ NamesUnique' /\ KilledAreLive'
         /\ \E e \in Takers(u), gone \in SUBSET Wearers :
              /\ {c \in Wearers : Live(c)'} = {c \in Wearers : Live(c)} \cup ({e} \cap Enforcers)
              /\ gone \subseteq {c \in Wearers : Live(c)'}
              /\ killing' = killing \cup gone
<1> USE DEF TypeInv, TypeOK
<1>1. PICK e \in Takers(u), c \in ReleaseTargets(u) :
        /\ nick' = Renamed(u, n, e)
        /\ killing' = killing \cup Wanted(u, c, Renamed(u, n, e))
  BY DEF Changes
<1> DEFINE gone == Wanted(u, c, Renamed(u, n, e))
<1>2. /\ e = NoOne \/ (e \in Enforcers /\ ~Live(e) /\ u # e)
      /\ c = NoOne \/ (c \in Users /\ Live(c))
      /\ nick[u] \in Names
      /\ Renamed(u, n, e) \in [Wearers -> Names \cup {Off}]
      /\ Granted(c) => c \in Users /\ release_name[u] \in Nicks
  BY ChangeFinds DEF Changes
<1>3. /\ nick'[u] = n
      /\ e # NoOne => nick'[e] = nick[u]
      /\ \A d \in Wearers \ {u, e} : nick'[d] = nick[d]
  BY <1>1, <1>2 DEF Renamed, Wearers
<1>4. u \in Wearers /\ (e # NoOne => e \in Wearers) /\ n # Off /\ NoOne \notin Wearers
  BY <1>2, SessionAssumption DEF Wearers
<1>5. \A d \in Wearers : nick[d] # n
  BY DEF Changes, Holders
<1>6. NamesUnique'
  <2> SUFFICES ASSUME NEW x \in Wearers, NEW y \in Wearers, nick'[x] # Off, nick'[x] = nick'[y]
               PROVE  x = y
    BY DEF NamesUnique, Live
  <2>1. CASE x \notin {u, e} /\ y \notin {u, e}
    BY <1>3, <2>1 DEF NamesUnique, Live
  <2>2. CASE x = u \/ y = u
    BY <1>2, <1>3, <1>4, <1>5, <2>2
  <2>3. CASE x \notin {u} /\ y \notin {u} /\ (x = e \/ y = e)
    BY <1>2, <1>3, <1>4, <2>3 DEF NamesUnique, Live, Changes
  <2> QED BY <2>1, <2>2, <2>3
<1>7. \A d \in Wearers : Live(d)' <=> Live(d) \/ d = e
  BY <1>2, <1>3, <1>4, SessionAssumption DEF Live, Changes
<1>8. \A d \in gone : d \in Wearers /\ Live(d)'
  <2> SUFFICES ASSUME NEW d \in gone PROVE d \in Wearers /\ nick'[d] # Off
    BY DEF Live
  <2>1. CASE Granted(c)
    <3>1. session[c] \in Nicks
      BY <1>2, <2>1 DEF Granted
    <3>2. d \in Wearers /\ nick'[d] = session[c]
      BY <1>1, <2>1 DEF Wanted, Holders, Granted
    <3> QED BY <3>1, <3>2, SessionAssumption DEF Names
  <2>2. CASE ~Granted(c) /\ c # NoOne
    <3>1. d \in Wearers /\ nick'[d] = release_name[u]
      BY <1>1, <2>2 DEF Wanted, Holders
    <3>2. release_name[u] \in Nicks \cup {NoOne}
      OBVIOUS
    <3> QED BY <3>1, <3>2, SessionAssumption DEF Names
  <2>3. CASE c = NoOne
    BY <2>3 DEF Wanted
  <2> QED BY <2>1, <2>2, <2>3
<1>9. KilledAreLive'
  <2>1. \A d \in killing : d \in Wearers /\ Live(d)
    BY DEF KilledAreLive
  <2> QED BY <1>1, <1>7, <1>8, <2>1 DEF KilledAreLive
<1>10. gone \in SUBSET Wearers /\ gone \subseteq {d \in Wearers : Live(d)'}
  BY <1>8
<1>11. {d \in Wearers : Live(d)'} = {d \in Wearers : Live(d)} \cup ({e} \cap Enforcers)
  BY <1>2, <1>4, <1>7 DEF Wearers
<1> HIDE DEF gone
<1>12. killing' = killing \cup gone
  BY <1>1 DEF gone
<1> QED BY <1>6, <1>9, <1>10, <1>11, <1>12

LEMMA StepKeeps ==
  ASSUME TypeInv, NamesUnique, KilledAreLive, [Next]_vars
  PROVE  NamesUnique' /\ KilledAreLive'
<1> USE DEF TypeInv, TypeOK
<1>1. CASE Same
  BY <1>1 DEF Same, NamesUnique, KilledAreLive, Live
<1>2. ASSUME NEW u \in Users, NEW n \in Names, Appears(u, n)
      PROVE  NamesUnique' /\ KilledAreLive'
  <2>1. u \in Wearers /\ n # Off
    BY SessionAssumption DEF Wearers
  <2>2. nick'[u] = n /\ \A d \in Wearers \ {u} : nick'[d] = nick[d] /\ nick[d] # n
    BY <1>2, <2>1 DEF Appears, Holders
  <2>3. NamesUnique'
    BY <2>1, <2>2 DEF NamesUnique, Live
  <2>4. KilledAreLive'
    <3>1. \A c \in killing : c \in Wearers /\ c # u
      BY <1>2 DEF KilledAreLive, Appears
    <3> QED BY <1>2, <2>2, <3>1 DEF KilledAreLive, Live, Appears
  <2> QED BY <2>3, <2>4
<1>3. ASSUME NEW u \in Users, NEW n \in Names, Changes(u, n)
      PROVE  NamesUnique' /\ KilledAreLive'
  BY <1>3, ChangeKeeps
<1>4. ASSUME NEW c \in Wearers, Leaves(c)
      PROVE  NamesUnique' /\ KilledAreLive'
  BY <1>4 DEF Leaves, NamesUnique, KilledAreLive, Live
<1> QED BY <1>1, <1>2, <1>3, <1>4, StepEffect DEF Effect

\* Who is killed is there, and no two clients have one nickname (m_uid, m_nick,
\* ns_on_nick_change and handle_nick_change under every interleaving).
LEMMA NamesAndKills == Spec => [](TypeInv /\ NamesUnique /\ KilledAreLive)
<1>1. Init => NamesUnique /\ KilledAreLive
  BY DEF Init, NamesUnique, KilledAreLive, Live
<1>2. TypeInv /\ NamesUnique /\ KilledAreLive /\ [Next]_vars => NamesUnique' /\ KilledAreLive'
  BY StepKeeps
<1>3. Spec => []TypeInv
  BY ProtectionTyped, PTL DEF TypeInv
<1> QED BY <1>1, <1>2, <1>3, PTL DEF Spec

\* No two clients of the hash table have one nickname, for any number of
\* users, enforcers and messages under way.
THEOREM NamesStayUnique == Spec => []NamesUnique
BY NamesAndKills, PTL

\* NickServ keeps to what the kill queue promises: every step is an exit of one
\* client with its own kill, or adds clients and kills of clients that are there.
THEOREM KillsKeepPromise == Spec => KillsAsPromised
<1> DEFINE live == {c \in Wearers : Live(c)}
<1>1. Init => Promise!Init
  BY DEF Init, Promise!Init, Live
<1>2. TypeInv /\ NamesUnique /\ KilledAreLive /\ [Next]_vars => [Promise!Next]_(Promise!vars)
  <2> SUFFICES ASSUME TypeInv, NamesUnique, KilledAreLive, [Next]_vars
               PROVE  [Promise!Next]_(Promise!vars)
    OBVIOUS
  <2> USE DEF TypeInv, TypeOK
  <2>1. CASE Same
    BY <2>1 DEF Same, Promise!vars, Live
  <2>2. ASSUME NEW u \in Users, NEW n \in Names, Appears(u, n) PROVE Promise!Next
    <3>1. {c \in Wearers : Live(c)'} = live \cup {u} /\ u \notin live /\ u \in Wearers
      BY <2>2, SessionAssumption DEF Appears, Live, Wearers
    <3>2. /\ {u} \in SUBSET (Wearers \ live) /\ {} \in SUBSET (live \cup {u})
          /\ killing' = killing \cup {}
      BY <2>2, <3>1 DEF Appears
    <3> QED BY <3>1, <3>2 DEF Promise!Next, Promise!Handle
  <2>3. ASSUME NEW u \in Users, NEW n \in Names, Changes(u, n) PROVE Promise!Next
    <3>1. PICK e \in Takers(u), gone \in SUBSET Wearers :
            /\ {c \in Wearers : Live(c)'} = live \cup ({e} \cap Enforcers)
            /\ gone \subseteq {c \in Wearers : Live(c)'}
            /\ killing' = killing \cup gone
      BY <2>3, ChangeKeeps
    <3>2. {e} \cap Enforcers \in SUBSET (Wearers \ live)
      BY SessionAssumption DEF Takers, Wearers, Live
    <3>3. gone \in SUBSET (live \cup ({e} \cap Enforcers))
      BY <3>1
    <3> QED BY <3>1, <3>2, <3>3 DEF Promise!Next, Promise!Handle
  <2>4. ASSUME NEW c \in Wearers, Leaves(c) PROVE [Promise!Next]_(Promise!vars)
    <3>1. CASE c \in live
      <4>1. {d \in Wearers : Live(d)'} = live \ {c}
        BY <2>4 DEF Leaves, Live
      <4> QED BY <2>4, <3>1, <4>1 DEF Leaves, Promise!Next, Promise!Exit
    <3>2. CASE c \notin live
      <4>1. nick' = nick
        BY <2>4, <3>2 DEF Leaves, Live
      <4>2. killing' = killing
        BY <2>4, <3>2 DEF Leaves, KilledAreLive
      <4> QED BY <4>1, <4>2 DEF Promise!vars, Live
    <3> QED BY <3>1, <3>2
  <2> QED BY <2>1, <2>2, <2>3, <2>4, StepEffect DEF Effect
<1> QED BY <1>1, <1>2, NamesAndKills, PTL DEF Spec, KillsAsPromised, Promise!Spec

-----------------------------------------------------------------------------
(* nick_enforce_list.                                                       *)

\* Without FORBID a user has one entry at most, and an enforcer has none: one
\* removal takes all there is, so nothing is left when a user leaves.
ListedOnce ==
  \A c \in Wearers :
    /\ enforce_list[c] > 0 => Live(c)
    /\ enforce_list[c] <= 1
    /\ c \in Enforcers => enforce_list[c] = 0

LEMMA UnlistedOnce ==
  ASSUME TypeInv, ListedOnce, NEW c \in Wearers
  PROVE  /\ Unlisted(enforce_list, c) \in [Wearers -> Nat]
         /\ Unlisted(enforce_list, c)[c] = 0
         /\ \A d \in Wearers \ {c} : Unlisted(enforce_list, c)[d] = enforce_list[d]
BY DEF TypeInv, TypeOK, ListedOnce, Unlisted

LEMMA ExitListed ==
  ASSUME TypeInv, ListedOnce, NEW c \in Wearers, Exit(c)
  PROVE  ListedOnce'
<1> USE DEF TypeInv, TypeOK
<1>1. nick' = [nick EXCEPT ![c] = Off]
  BY DEF Exit
<1>2. CASE c \in Users
  <2>1. enforce_list' = Unlisted(enforce_list, c)
    BY <1>2 DEF Exit
  <2> QED BY <1>1, <2>1, UnlistedOnce DEF ListedOnce, Live
<1>3. CASE c \notin Users
  <2>1. enforce_list' = enforce_list /\ c \in Enforcers
    BY <1>3 DEF Exit, Wearers
  <2> QED BY <1>1, <2>1 DEF ListedOnce, Live
<1> QED BY <1>2, <1>3

LEMMA NickListed ==
  ASSUME TypeInv, ListedOnce, NEW u \in Users, NEW n \in Names, NEW queue,
         NickMessage(u, n, queue)
  PROVE  ListedOnce'
<1> USE DEF TypeInv, TypeOK
<1>1. CASE Live(u) /\ Holders(nick, n) = {}
  <2>1. PICK e \in Takers(u), c \in ReleaseTargets(u) :
          /\ nick' = Renamed(u, n, e)
          /\ \/ enforce_list' = [Unlisted(enforce_list, u) EXCEPT ![u] = @ + 1]
             \/ enforce_list' = Unlisted(enforce_list, u)
    BY <1>1 DEF NickMessage, OnNickChange
  <2>2. /\ e = NoOne \/ (e \in Enforcers /\ ~Live(e) /\ u # e)
        /\ nick[u] \in Names
    BY <1>1, ChangeFinds
  <2>3. u \in Wearers /\ u \notin Enforcers /\ n # Off
    BY SessionAssumption DEF Wearers
  <2>4. \A d \in Wearers : Live(d) => Live(d)'
    BY <1>1, <2>1, <2>2, <2>3 DEF Renamed, Live, Wearers
  <2>5. \A d \in Wearers \ {u} : enforce_list'[d] = enforce_list[d]
    BY <2>1, <2>3, UnlistedOnce
  <2>6. enforce_list'[u] \in {0, 1}
    BY <2>1, <2>3, UnlistedOnce
  <2> QED BY <1>1, <2>3, <2>4, <2>5, <2>6 DEF ListedOnce
<1>2. CASE ~(Live(u) /\ Holders(nick, n) = {})
  BY <1>2 DEF NickMessage, ListedOnce, Live
<1> QED BY <1>1, <1>2

\* A nickname that was forbidden is never registered again.
Unforbidden == \A n \in Nicks : status[n] = "registered"

LEMMA WereUnforbidden ==
  ASSUME TypeInv, [Next]_vars, Unforbidden'
  PROVE  Unforbidden
<1>1. ASSUME NEW n \in Nicks, Forbid(n) \/ Unforbid(n) PROVE FALSE
  BY <1>1 DEF TypeInv, TypeOK, Forbid, Unforbid, Unforbidden
<1>2. ASSUME NEW u \in Users, NEW n \in Nicks,
             Connect(u, n) \/ UserNick(u, n) \/ HandleNickChange(u, n)
      PROVE  Unforbidden
  <2>1. CASE Connect(u, n)
    BY <2>1 DEF Connect, OnNewUser, Unforbidden
  <2>2. CASE UserNick(u, n)
    BY <2>2 DEF UserNick, NickMessage, OnNickChange, Unforbidden
  <2>3. CASE HandleNickChange(u, n)
    BY <2>3 DEF HandleNickChange, Unforbidden
  <2> QED BY <1>2, <2>1, <2>2, <2>3
<1>3. CASE \E u \in Users : Quit(u) \/ Identify(u)
  BY <1>3 DEF Quit, Identify, Unforbidden
<1>4. CASE TimerStep
  BY <1>4 DEF TimerStep, ProcessEnforce, ProcessRelease, Kill, Unforbidden
<1>5. CASE Deliver
  <2>1. status' = status
    BY <1>5 DEF Deliver, DeliverSvsNick, NickMessage, OnNickChange, DeliverIntroduce,
                NickServUnchanged
  <2> QED BY <2>1 DEF Unforbidden
<1>6. CASE UNCHANGED vars
  BY <1>6 DEF vars, Unforbidden
<1> QED BY <1>1, <1>2, <1>3, <1>4, <1>5, <1>6 DEF Next, UserStep, OperatorStep

\* A step after which no nickname was forbidden lists nobody twice.
LEMMA StepListed ==
  ASSUME TypeInv, ListedOnce, Unforbidden', [Next]_vars
  PROVE  ListedOnce'
<1> USE DEF TypeInv, TypeOK
<1>1. ASSUME NEW u \in Users, NEW n \in Nicks, Connect(u, n) PROVE ListedOnce'
  <2>1. u \in Wearers /\ u \notin Enforcers /\ n # Off /\ ~Live(u)
    BY <1>1, SessionAssumption DEF Wearers, Names, Connect
  <2>2. CASE Holders(nick, n) = {}
    <3>1. /\ nick' = [nick EXCEPT ![u] = n]
          /\ \/ enforce_list' = [enforce_list EXCEPT ![u] = @ + 1]
             \/ enforce_list' = enforce_list
      BY <1>1, <2>2 DEF Connect, OnNewUser
    <3>2. enforce_list[u] = 0
      BY <2>1 DEF ListedOnce
    <3> QED BY <2>1, <3>1, <3>2 DEF ListedOnce, Live
  <2>3. CASE Holders(nick, n) # {}
    BY <1>1, <2>3 DEF Connect, ListedOnce, Live
  <2> QED BY <2>2, <2>3
<1>2. ASSUME NEW u \in Users, NEW n \in Nicks, UserNick(u, n) PROVE ListedOnce'
  <2>1. n \in Names
    BY DEF Names
  <2> QED BY <1>2, <2>1, NickListed DEF UserNick
<1>3. ASSUME NEW u \in Users, NEW n \in Nicks, HandleNickChange(u, n) PROVE ListedOnce'
  <2>1. u \in Wearers
    BY DEF Wearers
  <2>2. enforce_list' = Unlisted(enforce_list, u)
    BY <1>3 DEF HandleNickChange
  <2>3. nick' = nick \/ \E e \in Enforcers : nick' = [nick EXCEPT ![e] = Off]
    BY <1>3 DEF HandleNickChange
  <2>4. \A d \in Wearers : d \notin Enforcers => nick'[d] = nick[d]
    BY <2>3 DEF Wearers
  <2>5. \A d \in Wearers : enforce_list'[d] = 0 \/ enforce_list'[d] = enforce_list[d]
    <3>1. /\ enforce_list' \in [Wearers -> Nat] /\ enforce_list'[u] = 0
          /\ \A d \in Wearers \ {u} : enforce_list'[d] = enforce_list[d]
      BY <2>1, <2>2, UnlistedOnce
    <3> QED BY <3>1
  <2> QED BY <2>4, <2>5 DEF ListedOnce, Live
<1>4. ASSUME NEW u \in Users, Quit(u) PROVE ListedOnce'
  <2>1. CASE Live(u)
    BY <1>4, <2>1, ExitListed DEF Quit, Wearers
  <2>2. CASE ~Live(u)
    BY <1>4, <2>2 DEF Quit, ListedOnce, Live
  <2> QED BY <2>1, <2>2
<1>5. ASSUME NEW u \in Users, Identify(u) PROVE ListedOnce'
  <2>1. u \in Wearers
    BY DEF Wearers
  <2>2. enforce_list' = Unlisted(enforce_list, u) /\ nick' = nick
    BY <1>5 DEF Identify
  <2> QED BY <2>1, <2>2, UnlistedOnce DEF ListedOnce, Live
<1>6. ASSUME NEW n \in Nicks PROVE ~Forbid(n) /\ ~Unforbid(n)
  BY DEF Forbid, Unforbid, Unforbidden
<1>7. ASSUME NEW c \in Wearers, ProcessEnforce(c) PROVE ListedOnce'
  <2>1. enforce_list[c] > 0 /\ enforce_list' = [enforce_list EXCEPT ![c] = @ - 1] /\ nick' = nick
    BY <1>7 DEF ProcessEnforce
  <2> QED BY <2>1 DEF ListedOnce, Live
<1>8. ASSUME NEW c \in Wearers, ProcessRelease(c) PROVE ListedOnce'
  <2>1. CASE Live(c)
    BY <1>8, <2>1, ExitListed DEF ProcessRelease
  <2>2. CASE ~Live(c)
    BY <1>8, <2>2 DEF ProcessRelease, ListedOnce, Live
  <2> QED BY <2>1, <2>2
<1>9. ASSUME NEW c \in Wearers, Kill(c) PROVE ListedOnce'
  BY <1>9, ExitListed DEF Kill
<1>10. ASSUME Deliver PROVE ListedOnce'
  <2> DEFINE m == Head(out)
  <2>1. out # <<>>
    BY <1>10 DEF Deliver
  <2>2. /\ m.type = "SVSNICK" => m.client \in Users /\ m.name \in Names
        /\ m.type = "UID" => m.client \in Enforcers
    BY <2>1, HeadTyped
  <2>3. CASE m.type = "SVSNICK" /\ DeliverSvsNick(m.client, m.name, Tail(out))
    <3>1. NickMessage(m.client, m.name, Tail(out)) \/ UNCHANGED <<nick, enforce_list>>
      BY <2>3 DEF DeliverSvsNick, NickServUnchanged
    <3>2. CASE UNCHANGED <<nick, enforce_list>>
      BY <3>2 DEF ListedOnce, Live
    <3> QED BY <2>2, <2>3, <3>1, <3>2, NickListed
  <2>4. CASE m.type = "UID" /\ DeliverIntroduce(m.client, m.name, Tail(out))
    <3>1. Exit(m.client) \/ UNCHANGED <<nick, enforce_list>>
      BY <2>4 DEF DeliverIntroduce, NickServUnchanged
    <3>2. CASE UNCHANGED <<nick, enforce_list>>
      BY <3>2 DEF ListedOnce, Live
    <3> QED BY <2>2, <2>4, <3>1, <3>2, ExitListed DEF Wearers
  <2>5. CASE NickServUnchanged
    BY <2>5 DEF NickServUnchanged, ListedOnce, Live
  <2> QED BY <1>10, <2>3, <2>4, <2>5 DEF Deliver
<1>11. CASE UNCHANGED vars
  BY <1>11 DEF vars, ListedOnce, Live
<1> QED BY <1>1, <1>2, <1>3, <1>4, <1>5, <1>6, <1>7, <1>8, <1>9, <1>10, <1>11
        DEF Next, UserStep, OperatorStep, TimerStep

\* As long as no nickname was forbidden, no client that has left is on
\* nick_enforce_list (ns_on_newuser, ns_on_nick_change, ns_on_quit).
THEOREM EnforceListIsValid == Spec => []EnforceListValid
<1>1. Init => ListedOnce
  BY DEF Init, ListedOnce
<1>2. TypeInv /\ (Unforbidden => ListedOnce) /\ [Next]_vars => (Unforbidden => ListedOnce)'
  BY StepListed, WereUnforbidden
<1>3. (Unforbidden => ListedOnce) => EnforceListValid
  BY DEF ListedOnce, EnforceListValid, Unforbidden
<1> QED BY <1>1, <1>2, <1>3, NamesAndKills, PTL DEF Spec

-----------------------------------------------------------------------------
(* nick_release_list.                                                       *)

\* A step that frees an enforcer may take it off the list; every other one
\* leaves the entries of those that stay.
LEMMA ExitReleased ==
  ASSUME TypeInv, EnforcersAreReleased, NEW c \in Wearers,
         nick' = [nick EXCEPT ![c] = Off],
         \A d \in Wearers \ {c} : release_list'[d] = release_list[d]
  PROVE  EnforcersAreReleased'
BY DEF TypeInv, TypeOK, EnforcersAreReleased, Live, Wearers

LEMMA NickReleased ==
  ASSUME TypeInv, EnforcersAreReleased, NEW u \in Users, NEW n \in Names, NEW queue,
         NickMessage(u, n, queue)
  PROVE  EnforcersAreReleased'
<1> USE DEF TypeInv, TypeOK
<1>1. CASE Live(u) /\ Holders(nick, n) = {}
  <2>1. PICK e \in Takers(u), c \in ReleaseTargets(u) :
          /\ nick' = Renamed(u, n, e)
          /\ release_list' = IF e = NoOne THEN release_list ELSE [release_list EXCEPT ![e] = @ + 1]
    BY <1>1 DEF NickMessage, OnNickChange
  <2>2. e = NoOne \/ (e \in Enforcers /\ ~Live(e) /\ u # e)
    BY <1>1, ChangeFinds
  <2>3. u \in Wearers /\ u \notin Enforcers
    BY SessionAssumption DEF Wearers
  <2>4. \A d \in Enforcers \ {e} : nick'[d] = nick[d] /\ release_list'[d] = release_list[d]
    BY <2>1, <2>2, <2>3 DEF Renamed, Wearers
  <2>5. e # NoOne => release_list'[e] > 0
    BY <2>1, <2>2 DEF Wearers
  <2>6. NoOne \notin Enforcers
    BY SessionAssumption DEF Wearers
  <2> QED BY <2>2, <2>4, <2>5, <2>6 DEF EnforcersAreReleased, Live
<1>2. CASE ~(Live(u) /\ Holders(nick, n) = {})
  BY <1>2 DEF NickMessage, EnforcersAreReleased, Live
<1> QED BY <1>1, <1>2

LEMMA StepReleased ==
  ASSUME TypeInv, EnforcersAreReleased, [Next]_vars
  PROVE  EnforcersAreReleased'
<1> USE DEF TypeInv, TypeOK
<1>1. ASSUME NEW u \in Users, NEW n \in Nicks, Connect(u, n) PROVE EnforcersAreReleased'
  <2>1. u \in Wearers /\ u \notin Enforcers
    BY SessionAssumption DEF Wearers
  <2>2. \A d \in Enforcers : nick'[d] = nick[d] /\ release_list'[d] = release_list[d]
    BY <1>1, <2>1 DEF Connect, OnNewUser, Wearers
  <2> QED BY <2>2 DEF EnforcersAreReleased, Live
<1>2. ASSUME NEW u \in Users, NEW n \in Nicks, UserNick(u, n) PROVE EnforcersAreReleased'
  <2>1. n \in Names
    BY DEF Names
  <2> QED BY <1>2, <2>1, NickReleased DEF UserNick
<1>3. ASSUME NEW u \in Users, NEW n \in Nicks, HandleNickChange(u, n) PROVE EnforcersAreReleased'
  <2>1. CASE UNCHANGED <<nick, release_list>>
    BY <2>1 DEF EnforcersAreReleased, Live
  <2>2. ASSUME NEW e \in Enforcers, nick' = [nick EXCEPT ![e] = Off],
               release_list' = Unlisted(release_list, e)
        PROVE  EnforcersAreReleased'
    BY <2>2, ExitReleased DEF Unlisted, Wearers
  <2> QED BY <1>3, <2>1, <2>2 DEF HandleNickChange
<1>4. ASSUME NEW u \in Users, Quit(u) PROVE EnforcersAreReleased'
  <2>1. CASE Live(u)
    BY <1>4, <2>1, ExitReleased DEF Quit, Exit, Wearers
  <2>2. CASE ~Live(u)
    BY <1>4, <2>2 DEF Quit, EnforcersAreReleased, Live
  <2> QED BY <2>1, <2>2
<1>5. ASSUME NEW u \in Users, Identify(u) PROVE EnforcersAreReleased'
  BY <1>5 DEF Identify, EnforcersAreReleased, Live
<1>6. ASSUME NEW n \in Nicks, Forbid(n) PROVE EnforcersAreReleased'
  BY <1>6 DEF Forbid, EnforcersAreReleased, Live
<1>7. ASSUME NEW n \in Nicks, Unforbid(n) PROVE EnforcersAreReleased'
  <2>1. CASE UNCHANGED <<nick, release_list>>
    BY <2>1 DEF EnforcersAreReleased, Live
  <2>2. ASSUME NEW c \in Holders(nick, n), Exit(c), release_list' = Unlisted(release_list, c)
        PROVE  EnforcersAreReleased'
    BY <2>2, ExitReleased DEF Exit, Holders, Unlisted
  <2> QED BY <1>7, <2>1, <2>2 DEF Unforbid
<1>8. ASSUME NEW c \in Wearers, ProcessEnforce(c) PROVE EnforcersAreReleased'
  BY <1>8 DEF ProcessEnforce, EnforcersAreReleased, Live
<1>9. ASSUME NEW c \in Wearers, ProcessRelease(c) PROVE EnforcersAreReleased'
  <2>1. \A d \in Wearers \ {c} : release_list'[d] = release_list[d]
    BY <1>9 DEF ProcessRelease
  <2>2. CASE Live(c)
    BY <1>9, <2>1, <2>2, ExitReleased DEF ProcessRelease, Exit
  <2>3. CASE ~Live(c)
    BY <1>9, <2>1, <2>3 DEF ProcessRelease, EnforcersAreReleased, Live, Wearers
  <2> QED BY <2>2, <2>3
<1>10. ASSUME NEW c \in Wearers, Kill(c) PROVE EnforcersAreReleased'
  BY <1>10, ExitReleased DEF Kill, Exit
<1>11. ASSUME Deliver PROVE EnforcersAreReleased'
  <2> DEFINE m == Head(out)
  <2>1. out # <<>>
    BY <1>11 DEF Deliver
  <2>2. /\ m.type = "SVSNICK" => m.client \in Users /\ m.name \in Names
        /\ m.type = "UID" => m.client \in Enforcers
    BY <2>1, HeadTyped
  <2>3. CASE m.type = "SVSNICK" /\ DeliverSvsNick(m.client, m.name, Tail(out))
    <3>1. NickMessage(m.client, m.name, Tail(out)) \/ UNCHANGED <<nick, release_list>>
      BY <2>3 DEF DeliverSvsNick, NickServUnchanged
    <3>2. CASE UNCHANGED <<nick, release_list>>
      BY <3>2 DEF EnforcersAreReleased, Live
    <3> QED BY <2>2, <2>3, <3>1, <3>2, NickReleased
  <2>4. CASE m.type = "UID" /\ DeliverIntroduce(m.client, m.name, Tail(out))
    <3>1. release_list' = release_list /\ (nick' = [nick EXCEPT ![m.client] = Off] \/ nick' = nick)
      BY <2>4 DEF DeliverIntroduce, NickServUnchanged, Exit
    <3>2. CASE nick' = nick
      BY <3>1, <3>2 DEF EnforcersAreReleased, Live
    <3> QED BY <2>2, <2>4, <3>1, <3>2, ExitReleased DEF Wearers
  <2>5. CASE NickServUnchanged
    BY <2>5 DEF NickServUnchanged, EnforcersAreReleased, Live
  <2> QED BY <1>11, <2>3, <2>4, <2>5 DEF Deliver
<1>12. CASE UNCHANGED vars
  BY <1>12 DEF vars, EnforcersAreReleased, Live
<1> QED BY <1>1, <1>2, <1>3, <1>4, <1>5, <1>6, <1>7, <1>8, <1>9, <1>10, <1>11, <1>12
        DEF Next, UserStep, OperatorStep, TimerStep

\* Every enforcer that holds a nickname is on nick_release_list, also with
\* operators at work: the nickname is given back after an hour at the latest.
THEOREM EnforcersListed == Spec => []EnforcersAreReleased
<1>1. Init => EnforcersAreReleased
  BY DEF Init, EnforcersAreReleased, Live, Wearers
<1>2. TypeInv /\ EnforcersAreReleased /\ [Next]_vars => EnforcersAreReleased'
  BY StepReleased
<1> QED BY <1>1, <1>2, NamesAndKills, PTL DEF Spec

-----------------------------------------------------------------------------

\* Every nickname is of an account or of none, and NULL is no account.
OwnersAreAccounts == Owner \in [Nicknames -> Accounts \cup {None}] /\ None \notin Accounts

-----------------------------------------------------------------------------
(***************************************************************************)
(* Passwords                                                               *)
(***************************************************************************)

Words == Chosen \cup {Random}

\* The salts in rows and codes are ones that were drawn, and the hash of a code
\* that was used is of an older salt than the hash there is now.
SaltsAgree ==
  /\ salts \in Nat
  /\ keys \in [Accounts -> [pass : Words \X (0 .. salts), salt : 0 .. salts]]
  /\ \A a \in Accounts \ torn : keys[a].pass[2] = keys[a].salt
  /\ used \subseteq codes
  /\ \A c \in codes : /\ c.acct \in Accounts
                      /\ c.pass \in Words \X (0 .. salts)
                      /\ c.pass[2] <= keys[c.acct].pass[2]
  /\ \A c \in used : c.pass[2] < keys[c.acct].pass[2]

LEMMA SaltsInit == P!Init => SaltsAgree
<1> SUFFICES ASSUME P!Init PROVE SaltsAgree
  OBVIOUS
<1>1. \A pw \in Chosen : /\ P!Hash(pw, 0) \in Words \X (0 .. 0)
                         /\ P!Hash(pw, 0)[2] = 0
  BY DEF P!Hash, Words
<1>2. keys \in [Accounts -> {[pass |-> P!Hash(pw, 0), salt |-> 0] : pw \in Chosen}]
  BY DEF P!Init
<1>3. ASSUME NEW a \in Accounts
      PROVE  /\ keys[a] \in [pass : Words \X (0 .. 0), salt : 0 .. 0]
             /\ keys[a].pass[2] = keys[a].salt
  BY <1>1, <1>2
<1>4. keys \in [Accounts -> [pass : Words \X (0 .. 0), salt : 0 .. 0]]
  BY <1>2, <1>3
<1> QED BY <1>3, <1>4 DEF P!Init, SaltsAgree

\* Whatever keys a transaction leaves an account, what is kept of hashes and
\* codes stays true when its salts are the new one or those it had.
LEMMA SaltsStay ==
  ASSUME SaltsAgree, NEW a \in Accounts, NEW r, salts' = salts + 1,
         keys' = [keys EXCEPT ![a] = r],
         r \in [pass : Words \X (0 .. salts + 1), salt : 0 .. salts + 1],
         keys[a].pass[2] <= r.pass[2],
         torn' \cup {a} = torn \cup {a},
         a \notin torn' => r.pass[2] = r.salt,
         codes' = codes,
         used' \subseteq codes,
         \A c \in used' : c \in used \/ (c.acct = a /\ r.pass[2] = salts + 1)
  PROVE  SaltsAgree'
<1> USE DEF SaltsAgree
<1>1. salts' \in Nat
  OBVIOUS
<1>2. \A x : x \in Words \X (0 .. salts) => x \in Words \X (0 .. salts + 1)
  OBVIOUS
<1>3. ASSUME NEW b \in Accounts
      PROVE  keys'[b] \in [pass : Words \X (0 .. salts + 1), salt : 0 .. salts + 1]
  BY <1>2
<1>4. keys' \in [Accounts -> [pass : Words \X (0 .. salts'), salt : 0 .. salts']]
  BY <1>3
<1>5. \A b \in Accounts \ torn' : keys'[b].pass[2] = keys'[b].salt
  OBVIOUS
<1>6. \A b \in Accounts : keys[b].pass[2] \in 0 .. salts /\ keys'[b].pass[2] \in 0 .. salts + 1
                          /\ keys[b].pass[2] <= keys'[b].pass[2]
  BY <1>3
<1>7. ASSUME NEW c \in codes
      PROVE  /\ c.acct \in Accounts /\ c.pass \in Words \X (0 .. salts')
             /\ c.pass[2] <= keys'[c.acct].pass[2]
  <2>1. c.pass[2] \in 0 .. salts
    OBVIOUS
  <2> QED BY <1>2, <1>6, <2>1
<1>8. ASSUME NEW c \in used' PROVE c.pass[2] < keys'[c.acct].pass[2]
  <2>1. c \in codes /\ c.pass[2] \in 0 .. salts /\ c.acct \in Accounts
    OBVIOUS
  <2>2. CASE c \in used
    BY <1>6, <2>1, <2>2
  <2>3. CASE c.acct = a /\ r.pass[2] = salts + 1
    BY <2>1, <2>3
  <2> QED BY <2>2, <2>3
<1> QED BY <1>1, <1>4, <1>5, <1>7, <1>8

\* Half of a pair of statements leaves a hash without its salt.
LEMMA SetNicknamePasswordStep ==
  ASSUME SaltsAgree, NEW a \in Accounts, NEW pw \in Words, NEW o \in P!Outcomes,
         P!SetNicknamePassword(a, pw, o), codes' = codes,
         used' \subseteq codes,
         \A c \in used' : c \in used \/ (c.acct = a /\ o # "none")
  PROVE  SaltsAgree'
<1> DEFINE r == [pass |-> IF o = "none" THEN keys[a].pass ELSE P!Hash(pw, salts + 1),
                 salt |-> IF o = "both" THEN salts + 1 ELSE keys[a].salt]
<1>1. /\ salts' = salts + 1 /\ salts \in Nat
      /\ keys[a] \in [pass : Words \X (0 .. salts), salt : 0 .. salts]
  BY DEF P!SetNicknamePassword, P!NewSalt, SaltsAgree
<1>2. P!Hash(pw, salts + 1) \in Words \X (0 .. salts + 1) /\ P!Hash(pw, salts + 1)[2] = salts + 1
  BY <1>1 DEF P!Hash
<1>3. keys[a].pass \in Words \X (0 .. salts + 1) /\ keys[a].pass[2] \in 0 .. salts
  BY <1>1
<1>4. r \in [pass : Words \X (0 .. salts + 1), salt : 0 .. salts + 1]
  BY <1>1, <1>2, <1>3
<1>5. /\ keys[a].pass[2] <= r.pass[2]
      /\ o # "none" => r.pass[2] = salts + 1
      /\ o = "none" => r.pass = keys[a].pass /\ r.salt = keys[a].salt
      /\ o = "both" => r.salt = salts + 1
  BY <1>1, <1>2, <1>3
<1>6. keys' = [keys EXCEPT ![a] = r]
  <2>1. keys \in [Accounts -> [pass : Words \X (0 .. salts), salt : 0 .. salts]]
    BY DEF SaltsAgree
  <2>2. keys' = [keys EXCEPT ![a].pass = IF o = "none" THEN @ ELSE P!Hash(pw, salts + 1),
                           ![a].salt = IF o = "both" THEN salts + 1 ELSE @]
    BY DEF P!SetNicknamePassword
  <2> DEFINE x == IF o = "none" THEN keys[a].pass ELSE P!Hash(pw, salts + 1)
             y == IF o = "both" THEN salts + 1 ELSE keys[a].salt
             half == [keys EXCEPT ![a] = [keys[a] EXCEPT !.pass = x]]
  <2>3. keys[a] = [pass |-> keys[a].pass, salt |-> keys[a].salt]
    BY <1>1
  <2>4. keys' = [half EXCEPT ![a] = [half[a] EXCEPT !.salt = y]]
    BY <2>1, <2>2, <2>3
  <2>5. r = [pass |-> x, salt |-> y]
    OBVIOUS
  <2> HIDE DEF x, y, r
  <2>6. [keys[a] EXCEPT !.pass = x] = [pass |-> x, salt |-> keys[a].salt]
    BY <2>3
  <2>7. half[a] = [pass |-> x, salt |-> keys[a].salt] /\ DOMAIN half = Accounts
        /\ \A b \in Accounts \ {a} : half[b] = keys[b]
    BY <2>1, <2>6
  <2> HIDE DEF half
  <2>8. [half[a] EXCEPT !.salt = y] = r
    BY <2>5, <2>7
  <2>9. half \in [Accounts -> {half[b] : b \in Accounts}]
    <3>1. \A b \in Accounts : half[b] \in {half[d] : d \in Accounts}
      OBVIOUS
    <3> QED BY <2>1, <2>7, <3>1 DEF half
  <2> QED BY <2>1, <2>4, <2>7, <2>8, <2>9
<1>7. /\ torn' \cup {a} = torn \cup {a}
      /\ a \notin torn' => r.pass[2] = r.salt
  <2>1. o \in {"none", "half", "both"}
    BY DEF P!Outcomes
  <2>2. torn' = CASE o = "half" -> torn \cup {a}
                  [] o = "both" -> torn \ {a}
                  [] OTHER -> torn
    BY DEF P!SetNicknamePassword
  <2>3. a \notin torn => keys[a].pass[2] = keys[a].salt
    BY DEF SaltsAgree
  <2>4. CASE o = "half"
    BY <2>2, <2>4
  <2>5. CASE o = "both"
    BY <1>5, <2>2, <2>5
  <2>6. CASE o = "none"
    <3>1. torn' = torn
      BY <2>2, <2>6
    <3> QED BY <1>5, <2>3, <2>6, <3>1
  <2> QED BY <2>1, <2>4, <2>5, <2>6
<1> HIDE DEF r
<1>8. \A c \in used' : c \in used \/ (c.acct = a /\ r.pass[2] = salts + 1)
  BY <1>5
<1> QED BY <1>1, <1>4, <1>5, <1>6, <1>7, <1>8, SaltsStay

LEMMA ResetPassStep ==
  ASSUME SaltsAgree, NEW a \in Accounts, NEW o \in P!Outcomes, P!ResetPass(a, o)
  PROVE  SaltsAgree'
<1> DEFINE h == P!Hash(Random, salts + 1)
           r == [pass |-> h, salt |-> salts + 1]
<1>1. /\ salts' = salts + 1 /\ salts \in Nat
      /\ keys \in [Accounts -> [pass : Words \X (0 .. salts), salt : 0 .. salts]]
      /\ codes' = codes /\ used' = used /\ used \subseteq codes
  BY DEF P!ResetPass, P!NewSalt, SaltsAgree
<1>2. h \in Words \X (0 .. salts + 1) /\ h[2] = salts + 1
  BY <1>1 DEF P!Hash, Words
<1>3. CASE o = "both"
  <2>1. keys' = [keys EXCEPT ![a] = r] /\ torn' = torn \ {a}
    BY <1>3 DEF P!ResetPass
  <2>2. keys[a].pass[2] \in 0 .. salts
    BY <1>1
  <2>3. r \in [pass : Words \X (0 .. salts + 1), salt : 0 .. salts + 1] /\ r.pass[2] = r.salt
        /\ keys[a].pass[2] <= r.pass[2]
    BY <1>1, <1>2, <2>2
  <2>4. torn' \cup {a} = torn \cup {a}
    BY <2>1
  <2> HIDE DEF r
  <2> QED BY <1>1, <2>1, <2>3, <2>4, SaltsStay
<1>4. CASE o # "both"
  <2>1. keys' = keys /\ torn' = torn
    BY <1>4 DEF P!ResetPass
  <2>2. keys' = [keys EXCEPT ![a] = keys[a]]
    BY <1>1, <2>1
  <2>3. keys[a] \in [pass : Words \X (0 .. salts + 1), salt : 0 .. salts + 1] /\ keys[a].pass[2] <= keys[a].pass[2]
    <3>1. keys[a] \in [pass : Words \X (0 .. salts), salt : 0 .. salts]
      BY <1>1
    <3>2. keys[a].pass[2] \in 0 .. salts
      BY <3>1
    <3> QED BY <1>1, <3>1, <3>2
  <2>4. a \notin torn' => keys[a].pass[2] = keys[a].salt
    BY <2>1 DEF SaltsAgree
  <2> QED BY <1>1, <2>1, <2>2, <2>3, <2>4, SaltsStay
<1> QED BY <1>3, <1>4

LEMMA SendPassStep ==
  ASSUME SaltsAgree, NEW a \in Accounts, NEW op \in BOOLEAN, P!SendPass(a, op)
  PROVE  SaltsAgree'
<1>1. /\ codes' = codes \cup {P!Code(a, now)}
      /\ UNCHANGED <<keys, used, torn, salts>>
  BY DEF P!SendPass
<1>2. keys[a].pass \in Words \X (0 .. salts) /\ keys[a].pass[2] \in 0 .. salts
  BY DEF SaltsAgree
<1>3. P!Code(a, now).acct = a /\ P!Code(a, now).pass = keys[a].pass
  BY DEF P!Code
<1> QED BY <1>1, <1>2, <1>3 DEF SaltsAgree

LEMMA SaltsNext == SaltsAgree /\ [P!Next]_P!vars => SaltsAgree'
<1> SUFFICES ASSUME SaltsAgree, [P!Next]_P!vars PROVE SaltsAgree'
  OBVIOUS
<1>1. ASSUME NEW a \in Accounts, NEW pw \in Chosen, NEW o \in P!Outcomes, P!SetPassword(a, pw, o)
      PROVE  SaltsAgree'
  <2>1. P!SetNicknamePassword(a, pw, o) /\ codes' = codes /\ used' = used /\ pw \in Words
    BY <1>1 DEF P!SetPassword, Words
  <2>2. used \subseteq codes
    BY DEF SaltsAgree
  <2> QED BY <2>1, <2>2, SetNicknamePasswordStep
<1>2. ASSUME NEW a \in Accounts, NEW o \in P!Outcomes, P!ResetPass(a, o)
      PROVE  SaltsAgree'
  BY <1>2, ResetPassStep
<1>3. ASSUME NEW a \in Accounts, NEW op \in BOOLEAN, P!SendPass(a, op)
      PROVE  SaltsAgree'
  BY <1>3, SendPassStep
<1>4. ASSUME NEW c \in codes, NEW pw \in Chosen, NEW o \in P!Outcomes, P!SendPassCode(c, pw, o)
      PROVE  SaltsAgree'
  <2>1. /\ P!SetNicknamePassword(c.acct, pw, o) /\ codes' = codes
        /\ used' = IF o = "none" THEN used ELSE used \cup {c}
    BY <1>4 DEF P!SendPassCode
  <2>2. used \subseteq codes /\ c.acct \in Accounts /\ pw \in Words
    BY DEF SaltsAgree, Words
  <2>3. used' \subseteq codes /\ \A d \in used' : d \in used \/ (d.acct = c.acct /\ o # "none")
    BY <2>1, <2>2
  <2> QED BY <2>1, <2>2, <2>3, SetNicknamePasswordStep
<1>5. CASE P!ExpireMail \/ P!Tick \/ UNCHANGED P!vars
  BY <1>5 DEF P!ExpireMail, P!Tick, P!vars, SaltsAgree
<1> QED BY <1>1, <1>2, <1>3, <1>4, <1>5 DEF P!Next

LEMMA SaltsInvariant == P!Spec => []SaltsAgree
BY SaltsInit, SaltsNext, PTL DEF P!Spec

\* The owner of an account can identify whatever statements have failed, unless
\* one failed between the hash and its salt (set_nickname_password,
\* nickname_reset_pass, m_sendpass).
THEOREM OwnersCanIdentify == P!Spec => []P!PasswordWorks
<1>1. ASSUME SaltsAgree PROVE P!PasswordWorks
  <2> SUFFICES ASSUME NEW a \in Accounts \ torn
               PROVE  \E pw \in Words : keys[a].pass = <<pw, keys[a].salt>>
    BY DEF P!PasswordWorks, P!CheckNickPass, P!Hash, Words
  <2>1. keys[a].pass \in Words \X (0 .. salts) /\ keys[a].pass[2] = keys[a].salt
    BY <1>1 DEF SaltsAgree
  <2>2. keys[a].pass = <<keys[a].pass[1], keys[a].salt>> /\ keys[a].pass[1] \in Words
    BY <2>1
  <2> QED BY <2>2
<1> QED BY <1>1, SaltsInvariant, PTL

\* A code that was mailed sets a password once: the hash it was made of never
\* comes back (m_sendpass, with salts that are drawn once).
THEOREM CodesWorkOnce == P!Spec => []P!CodesDie
<1>1. ASSUME SaltsAgree PROVE P!CodesDie
  <2> SUFFICES ASSUME NEW c \in used, P!Takes(c) PROVE FALSE
    BY DEF P!CodesDie
  <2>1. c.acct \in Accounts /\ c.pass[2] < keys[c.acct].pass[2] /\ keys[c.acct].pass[2] \in 0 .. salts
        /\ salts \in Nat
    BY <1>1 DEF SaltsAgree
  <2>2. c.pass = keys[c.acct].pass
    <3>1. c = [acct |-> c.acct, time |-> c.time, pass |-> keys[c.acct].pass]
      BY DEF P!Takes, P!Code
    <3> QED BY <3>1
  <2> QED BY <2>1, <2>2
<1> QED BY <1>1, SaltsInvariant, PTL

-----------------------------------------------------------------------------
(***************************************************************************)
(* The access of operators and administrators                              *)
(***************************************************************************)

\* A session, with its flags; op: the operator mode, sv: a service, ac: the
\* account, ca: its flag as the session has it, lv: the access, mo: about to
\* change its nickname, un: not told; ad: the flag of the account's row.
Grounded(op, sv, ac, ca, lv, mo, un, ad) ==
  /\ lv \in A!USER .. A!ADMIN
  /\ lv >= A!OPER => sv \/ (op /\ ac # None)
  /\ lv = A!ADMIN => sv \/ ca \/ mo
  /\ ca => ac \in Accounts /\ (ad \/ un)

\* Every session is so, and the copy of an account's flag is of an account.
AllGrounded ==
  /\ A!TypeOK
  /\ \A t \in Opers : Grounded(oper[t], service[t], acct[t], cached[t], access[t],
                                  t \in moving, t \in untold, admin[acct[t]])

LEMMA GroundedMeans == AllGrounded => A!AccessHasGrounds
BY DEF AllGrounded, Grounded, A!AccessHasGrounds, A!OperHasGrounds, A!AdminHasGrounds

LEMMA AccessInit == ASSUME OwnersAreAccounts, A!Init PROVE AllGrounded
<1>1. A!TypeOK
  BY DEF A!Init, A!TypeOK, A!USER, A!ADMIN
<1>2. \A t \in Opers : ~oper[t] /\ ~service[t] /\ ~cached[t] /\ access[t] = A!USER
  BY DEF A!Init
<1> QED BY <1>1, <1>2 DEF AllGrounded, Grounded, A!USER, A!OPER, A!ADMIN

\* One session's account, flag and access are set, and it is neither about to
\* change its nickname nor untold; or they are left as they are.
OnlyOne(s, ac, ca, lv) ==
  /\ acct' = [acct EXCEPT ![s] = ac]
  /\ cached' = [cached EXCEPT ![s] = ca]
  /\ access' = [access EXCEPT ![s] = lv]

Becomes(s, op, sv, ac, ca, lv) ==
  /\ op \in BOOLEAN /\ oper' = [oper EXCEPT ![s] = op]
  /\ sv \in BOOLEAN /\ service' = [service EXCEPT ![s] = sv]
  /\ ac \in Accounts \cup {None} /\ ca \in BOOLEAN
  /\ OnlyOne(s, ac, ca, lv)
  /\ wears' \in [Opers -> Nicknames] /\ admin' = admin
  /\ moving' \cup {s} = moving \cup {s} /\ untold' \cup {s} = untold \cup {s}
  /\ Grounded(op, sv, ac, ca, lv, s \in moving', s \in untold', admin[ac])

LEMMA OneSession ==
  ASSUME AllGrounded, NEW s \in Opers, NEW op, NEW sv, NEW ac, NEW ca, NEW lv,
         Becomes(s, op, sv, ac, ca, lv)
  PROVE  AllGrounded'
<1> USE DEF AllGrounded, Becomes
<1>1. /\ oper' \in [Opers -> BOOLEAN] /\ service' \in [Opers -> BOOLEAN]
      /\ cached' \in [Opers -> BOOLEAN] /\ acct' \in [Opers -> Accounts \cup {None}]
  BY DEF A!TypeOK, OnlyOne
<1>2. access' \in [Opers -> A!USER .. A!ADMIN]
  BY DEF A!TypeOK, OnlyOne, Grounded
<1>3. A!TypeOK'
  BY <1>1, <1>2 DEF A!TypeOK
<1>4. ASSUME NEW t \in Opers
      PROVE  Grounded(oper'[t], service'[t], acct'[t], cached'[t], access'[t],
                      t \in moving', t \in untold', admin'[acct'[t]])
  <2>1. CASE t = s
    <3>1. /\ oper'[t] = op /\ service'[t] = sv /\ acct'[t] = ac /\ cached'[t] = ca /\ access'[t] = lv
      BY <2>1 DEF A!TypeOK, OnlyOne
    <3> QED BY <2>1, <3>1
  <2>2. CASE t # s
    <3>1. /\ oper'[t] = oper[t] /\ service'[t] = service[t] /\ acct'[t] = acct[t]
          /\ cached'[t] = cached[t] /\ access'[t] = access[t]
      BY <2>2 DEF A!TypeOK, OnlyOne
    <3>2. (t \in moving' <=> t \in moving) /\ (t \in untold' <=> t \in untold)
      BY <2>2
    <3> QED BY <3>1, <3>2 DEF Grounded
  <2> QED BY <2>1, <2>2
<1> QED BY <1>3, <1>4

\* identify_user: the session's rank is what its mode and the account's flag give.
LEMMA IdentifyUserStep ==
  ASSUME AllGrounded, NEW s \in Opers, NEW a \in Accounts, None \notin Accounts,
         A!IdentifyUser(s, a), wears' \in [Opers -> Nicknames], UNCHANGED <<oper, service, admin>>
  PROVE  AllGrounded'
<1> DEFINE lv == A!Rank(s, admin[a])
<1>1. /\ oper[s] \in BOOLEAN /\ service[s] \in BOOLEAN /\ admin[a] \in BOOLEAN
      /\ oper' = [oper EXCEPT ![s] = oper[s]] /\ service' = [service EXCEPT ![s] = service[s]]
  BY DEF AllGrounded, A!TypeOK
<1>2. OnlyOne(s, a, admin[a], lv)
  BY DEF A!IdentifyUser, OnlyOne
<1>3. moving' = moving \ {s} /\ untold' = untold \ {s}
  BY DEF A!IdentifyUser
<1>4. Grounded(oper[s], service[s], a, admin[a], lv, s \in moving', s \in untold', admin[a])
  BY <1>1, <1>3 DEF Grounded, A!Rank, A!USER, A!IDENTIFIED, A!OPER, A!ADMIN
<1>5. a \in Accounts \cup {None} /\ admin' = admin
  OBVIOUS
<1>6. moving' \cup {s} = moving \cup {s} /\ untold' \cup {s} = untold \cup {s}
  BY <1>3
<1>7. Becomes(s, oper[s], service[s], a, admin[a], lv)
  BY <1>1, <1>2, <1>4, <1>5, <1>6 DEF Becomes
<1> QED BY <1>7, OneSession

\* A nickname change and QUIT leave nothing of the account.
LEMMA ForgetStep ==
  ASSUME AllGrounded, NEW s \in Opers, A!Forget(s), wears' \in [Opers -> Nicknames],
         NEW op \in BOOLEAN, oper' = [oper EXCEPT ![s] = op],
         NEW sv \in BOOLEAN, service' = [service EXCEPT ![s] = sv], admin' = admin
  PROVE  AllGrounded'
<1>1. OnlyOne(s, None, FALSE, A!USER)
  BY DEF A!Forget, OnlyOne
<1>2. moving' = moving \ {s} /\ untold' = untold \ {s}
  BY DEF A!Forget
<1>3. Grounded(op, sv, None, FALSE, A!USER, s \in moving', s \in untold', admin[None])
  BY DEF Grounded, A!USER, A!OPER, A!ADMIN
<1>4. Becomes(s, op, sv, None, FALSE, A!USER)
  BY <1>1, <1>2, <1>3 DEF Becomes
<1> QED BY <1>4, OneSession

\* set_user_mode and SUDO leave the account and its flag alone.
LEMMA LevelStep ==
  ASSUME AllGrounded, NEW s \in Opers, NEW lv, access' = [access EXCEPT ![s] = lv],
         NEW op \in BOOLEAN, oper' = [oper EXCEPT ![s] = op],
         NEW sv \in BOOLEAN, service' = [service EXCEPT ![s] = sv],
         UNCHANGED <<wears, acct, cached, admin, moving, untold>>,
         lv \in A!USER .. A!ADMIN,
         lv >= A!OPER => sv \/ (op /\ acct[s] # None),
         lv = A!ADMIN => sv \/ cached[s] \/ s \in moving
  PROVE  AllGrounded'
<1>1. /\ acct[s] \in Accounts \cup {None} /\ cached[s] \in BOOLEAN /\ wears' \in [Opers -> Nicknames]
      /\ OnlyOne(s, acct[s], cached[s], lv)
  BY DEF AllGrounded, A!TypeOK, OnlyOne
<1>2. Grounded(op, sv, acct[s], cached[s], lv, s \in moving', s \in untold', admin[acct[s]])
  BY DEF AllGrounded, Grounded
<1>3. Becomes(s, op, sv, acct[s], cached[s], lv)
  BY <1>1, <1>2 DEF Becomes
<1> QED BY <1>3, OneSession

LEMMA OwnAccountSteps ==
  ASSUME OwnersAreAccounts, AllGrounded, NEW s \in Opers,
         A!Identify(s) \/ A!Quit(s) \/ (\E n \in Nicknames : A!IdentifyAs(s, n) \/ A!NickChange(s, n))
  PROVE  AllGrounded'
<1>1. wears \in [Opers -> Nicknames] /\ oper \in [Opers -> BOOLEAN]
      /\ service \in [Opers -> BOOLEAN] /\ acct \in [Opers -> Accounts \cup {None}]
      /\ cached \in [Opers -> BOOLEAN] /\ access \in [Opers -> A!USER .. A!ADMIN]
      /\ admin \in [Accounts -> BOOLEAN]
  BY DEF AllGrounded, A!TypeOK
<1>2. \A n \in Nicknames : Owner[n] # None => Owner[n] \in Accounts
  BY DEF OwnersAreAccounts
<1>3. oper = [oper EXCEPT ![s] = oper[s]] /\ service = [service EXCEPT ![s] = service[s]]
      /\ oper[s] \in BOOLEAN /\ service[s] \in BOOLEAN
  BY <1>1
<1>4. CASE A!Identify(s)
  <2>1. wears[s] \in Nicknames
    BY <1>1
  <2>2. Owner[wears[s]] \in Accounts
    BY <1>2, <1>4, <2>1 DEF A!Identify
  <2>3. A!IdentifyUser(s, Owner[wears[s]]) /\ UNCHANGED <<oper, service, admin>>
        /\ wears' \in [Opers -> Nicknames]
    BY <1>1, <1>4 DEF A!Identify
  <2> QED BY <2>2, <2>3, IdentifyUserStep DEF OwnersAreAccounts
<1>5. CASE A!Quit(s)
  <2>1. /\ A!Forget(s) /\ wears' \in [Opers -> Nicknames] /\ admin' = admin
        /\ oper' = [oper EXCEPT ![s] = FALSE] /\ service' = [service EXCEPT ![s] = FALSE]
    BY <1>1, <1>5 DEF A!Quit
  <2> QED BY <2>1, ForgetStep
<1>6. ASSUME NEW n \in Nicknames, A!IdentifyAs(s, n) PROVE AllGrounded'
  <2>1. Owner[n] \in Accounts
    BY <1>2, <1>6 DEF A!IdentifyAs
  <2>2. admin[Owner[n]] \in BOOLEAN
    BY <1>1, <2>1
  <2>3. OnlyOne(s, Owner[n], admin[Owner[n]], access[s])
    BY <1>1, <1>6 DEF A!IdentifyAs, OnlyOne
  <2>4. /\ UNCHANGED <<wears, oper, service, admin>>
        /\ moving' = moving \cup {s} /\ untold' = untold \ {s}
    BY <1>6 DEF A!IdentifyAs
  <2>5. Grounded(oper[s], service[s], Owner[n], admin[Owner[n]], access[s],
                 s \in moving', s \in untold', admin[Owner[n]])
    <3>1. Owner[n] # None
      BY <2>1 DEF OwnersAreAccounts
    <3> QED BY <2>1, <2>4, <3>1 DEF AllGrounded, Grounded
  <2>6. /\ moving' \cup {s} = moving \cup {s} /\ untold' \cup {s} = untold \cup {s}
        /\ wears' \in [Opers -> Nicknames]
        /\ oper' = [oper EXCEPT ![s] = oper[s]] /\ service' = [service EXCEPT ![s] = service[s]]
    BY <1>1, <1>3, <2>4
  <2>7. admin' = admin /\ Owner[n] \in Accounts \cup {None}
    BY <2>1, <2>4
  <2>8. Becomes(s, oper[s], service[s], Owner[n], admin[Owner[n]], access[s])
    BY <1>3, <2>2, <2>3, <2>5, <2>6, <2>7 DEF Becomes
  <2> QED BY <2>8, OneSession
<1>7. ASSUME NEW n \in Nicknames, A!NickChange(s, n) PROVE AllGrounded'
  <2>1. wears' \in [Opers -> Nicknames] /\ UNCHANGED <<oper, service, admin>>
    BY <1>1, <1>7 DEF A!NickChange
  <2>2. CASE acct[s] # None /\ acct[s] = Owner[n]
    <3>1. A!IdentifyUser(s, acct[s]) /\ acct[s] \in Accounts
      BY <1>1, <1>7, <2>2 DEF A!NickChange
    <3> QED BY <2>1, <3>1, IdentifyUserStep DEF OwnersAreAccounts
  <2>3. CASE acct[s] # None /\ acct[s] # Owner[n]
    <3>1. A!Forget(s)
      BY <1>7, <2>3 DEF A!NickChange
    <3> QED BY <1>3, <2>1, <3>1, ForgetStep
  <2>4. CASE acct[s] = None
    <3>1. UNCHANGED <<acct, cached, access, moving, untold>>
      BY <1>7, <2>4 DEF A!NickChange
    <3> QED BY <2>1, <3>1 DEF AllGrounded, A!TypeOK
  <2> QED BY <2>2, <2>3, <2>4
<1> QED BY <1>4, <1>5, <1>6, <1>7

LEMMA ModeSteps ==
  ASSUME AllGrounded, NEW s \in Opers,
         A!SetOper(s) \/ A!ClearOper(s) \/ A!Sudo(s) \/ (\E on \in BOOLEAN : A!SetService(s, on))
  PROVE  AllGrounded'
<1>1. oper \in [Opers -> BOOLEAN] /\ service \in [Opers -> BOOLEAN]
  BY DEF AllGrounded, A!TypeOK
<1>2. oper = [oper EXCEPT ![s] = oper[s]] /\ service = [service EXCEPT ![s] = service[s]]
      /\ oper[s] \in BOOLEAN /\ service[s] \in BOOLEAN
  BY <1>1
<1>3. Grounded(oper[s], service[s], acct[s], cached[s], access[s],
               s \in moving, s \in untold, admin[acct[s]])
  BY DEF AllGrounded
<1> USE DEF A!USER, A!IDENTIFIED, A!OPER, A!ADMIN
<1>4. CASE A!SetOper(s)
  <2> DEFINE lv == IF acct[s] = None THEN access[s] ELSE IF cached[s] THEN A!ADMIN ELSE A!OPER
  <2>1. /\ access' = [access EXCEPT ![s] = lv] /\ oper' = [oper EXCEPT ![s] = TRUE] /\ ~oper[s]
        /\ service' = [service EXCEPT ![s] = service[s]]
        /\ UNCHANGED <<wears, acct, cached, admin, moving, untold>>
    BY <1>2, <1>4 DEF A!SetOper
  <2>2. /\ lv \in A!USER .. A!ADMIN
        /\ lv >= A!OPER => service[s] \/ (TRUE /\ acct[s] # None)
        /\ lv = A!ADMIN => service[s] \/ cached[s] \/ s \in moving
    BY <1>3, <2>1 DEF Grounded
  <2> HIDE DEF lv
  <2> QED BY <1>2, <2>1, <2>2, LevelStep
<1>5. CASE A!ClearOper(s)
  <2> DEFINE lv == IF acct[s] = None THEN A!USER ELSE A!IDENTIFIED
  <2>1. /\ access' = [access EXCEPT ![s] = lv] /\ oper' = [oper EXCEPT ![s] = FALSE]
        /\ service' = [service EXCEPT ![s] = service[s]]
        /\ UNCHANGED <<wears, acct, cached, admin, moving, untold>>
    BY <1>2, <1>5 DEF A!ClearOper
  <2>2. lv \in A!USER .. A!ADMIN /\ ~(lv >= A!OPER) /\ lv # A!ADMIN
    OBVIOUS
  <2> HIDE DEF lv
  <2> QED BY <1>2, <2>1, <2>2, LevelStep
<1>6. CASE A!Sudo(s)
  <2>1. access[s] = A!ADMIN
    BY <1>3, <1>6 DEF A!Sudo, Grounded
  <2>2. /\ access' = [access EXCEPT ![s] = A!ADMIN]
        /\ oper' = [oper EXCEPT ![s] = oper[s]] /\ service' = [service EXCEPT ![s] = service[s]]
        /\ UNCHANGED <<wears, acct, cached, admin, moving, untold>>
    BY <1>2, <1>6 DEF A!Sudo
  <2>3. /\ A!ADMIN \in A!USER .. A!ADMIN
        /\ service[s] \/ (oper[s] /\ acct[s] # None)
        /\ service[s] \/ cached[s] \/ s \in moving
    BY <1>3, <2>1 DEF Grounded
  <2> QED BY <1>2, <2>2, <2>3, LevelStep
<1>7. ASSUME NEW on \in BOOLEAN, A!SetService(s, on) PROVE AllGrounded'
  <2> DEFINE lv == IF on THEN A!ADMIN ELSE A!USER
  <2>1. /\ access' = [access EXCEPT ![s] = lv] /\ service' = [service EXCEPT ![s] = on]
        /\ oper' = [oper EXCEPT ![s] = oper[s]]
        /\ UNCHANGED <<wears, acct, cached, admin, moving, untold>>
    BY <1>2, <1>7 DEF A!SetService
  <2>2. /\ lv \in A!USER .. A!ADMIN /\ (lv >= A!OPER => on) /\ (lv = A!ADMIN => on)
    OBVIOUS
  <2> HIDE DEF lv
  <2> QED BY <1>2, <2>1, <2>2, LevelStep
<1> QED BY <1>4, <1>5, <1>6, <1>7

\* Commands about a nickname change every session that wears it.
LEMMA AdminAddStep ==
  ASSUME OwnersAreAccounts, AllGrounded, NEW s \in Opers, NEW n \in Nicknames, A!AdminAdd(s, n)
  PROVE  AllGrounded'
<1> DEFINE changed == {Owner[n]} \cup {acct[t] : t \in A!Target(n)}
<1>1. /\ admin' = [a \in Accounts |-> a \in changed \/ admin[a]]
      /\ cached' = [t \in Opers |-> t \in A!Target(n) \/ cached[t]]
      /\ access' = [t \in Opers |-> IF t \in A!Target(n) THEN A!Rank(t, TRUE) ELSE access[t]]
      /\ untold' = {t \in untold : acct[t] \notin changed}
      /\ UNCHANGED <<wears, oper, service, acct, moving>>
  BY DEF A!AdminAdd
<1>2. A!TypeOK
  BY DEF AllGrounded
<1>3. \A t \in Opers : A!Rank(t, TRUE) \in A!USER .. A!ADMIN
  BY DEF A!Rank, A!USER, A!IDENTIFIED, A!OPER, A!ADMIN
<1>4. A!TypeOK'
  <2>1. access' \in [Opers -> A!USER .. A!ADMIN]
    BY <1>1, <1>2, <1>3 DEF A!TypeOK
  <2>2. cached' \in [Opers -> BOOLEAN] /\ admin' \in [Accounts -> BOOLEAN]
    BY <1>1, <1>2 DEF A!TypeOK
  <2>3. moving' \cup untold' \subseteq Opers
    BY <1>1, <1>2 DEF A!TypeOK
  <2> QED BY <1>1, <1>2, <2>1, <2>2, <2>3 DEF A!TypeOK
<1>5. ASSUME NEW t \in Opers
      PROVE  Grounded(oper'[t], service'[t], acct'[t], cached'[t], access'[t],
                      t \in moving', t \in untold', admin'[acct'[t]])
  <2>1. acct[t] \in Accounts \cup {None}
    BY <1>2 DEF A!TypeOK
  <2>2. Grounded(oper[t], service[t], acct[t], cached[t], access[t],
                 t \in moving, t \in untold, admin[acct[t]])
    BY DEF AllGrounded
  <2>3. CASE t \in A!Target(n)
    <3>1. acct[t] \in Accounts /\ acct[t] \in changed /\ acct[t] # None
      BY <2>1, <2>3 DEF A!Target
    <3>2. admin'[acct[t]] /\ cached'[t] /\ access'[t] = A!Rank(t, TRUE)
      BY <1>1, <2>3, <3>1
    <3> HIDE DEF changed
    <3> QED BY <1>1, <1>3, <3>1, <3>2 DEF Grounded, A!Rank, A!USER, A!IDENTIFIED, A!OPER, A!ADMIN
  <2>4. CASE t \notin A!Target(n)
    <3>1. cached'[t] = cached[t] /\ access'[t] = access[t]
      BY <1>1, <1>2, <2>4 DEF A!TypeOK
    <3>2. cached[t] => admin'[acct[t]] \/ t \in untold'
      <4>1. cached[t] => acct[t] \in Accounts /\ (admin[acct[t]] \/ t \in untold)
        BY <2>2 DEF Grounded
      <4>2. acct[t] \in Accounts => admin'[acct[t]] = (acct[t] \in changed \/ admin[acct[t]])
        BY <1>1
      <4> HIDE DEF changed
      <4> QED BY <1>1, <4>1, <4>2
    <3> QED BY <1>1, <2>2, <3>1, <3>2 DEF Grounded
  <2> QED BY <2>3, <2>4
<1> QED BY <1>4, <1>5 DEF AllGrounded

LEMMA AdminDelStep ==
  ASSUME OwnersAreAccounts, AllGrounded, NEW s \in Opers, NEW n \in Nicknames, A!AdminDel(s, n)
  PROVE  AllGrounded'
<1> DEFINE changed == {Owner[n]} \cup {acct[t] : t \in A!Target(n)}
<1>1. /\ admin' = [a \in Accounts |-> admin[a] /\ a \notin changed]
      /\ cached' = [t \in Opers |-> t \notin A!Target(n) /\ cached[t]]
      /\ access' = [t \in Opers |-> IF t \in A!Target(n) THEN A!Rank(t, FALSE) ELSE access[t]]
      /\ untold' = (untold \cup A!Untold(changed)) \ A!Target(n)
      /\ UNCHANGED <<wears, oper, service, acct, moving>>
  BY DEF A!AdminDel
<1>2. A!TypeOK
  BY DEF AllGrounded
<1>3. \A t \in Opers : A!Rank(t, FALSE) \in A!USER .. A!ADMIN
  BY DEF A!Rank, A!USER, A!IDENTIFIED, A!OPER, A!ADMIN
<1>4. A!TypeOK'
  <2>1. access' \in [Opers -> A!USER .. A!ADMIN]
    BY <1>1, <1>2, <1>3 DEF A!TypeOK
  <2>2. cached' \in [Opers -> BOOLEAN] /\ admin' \in [Accounts -> BOOLEAN]
    BY <1>1, <1>2 DEF A!TypeOK
  <2>3. moving' \cup untold' \subseteq Opers
    BY <1>1, <1>2 DEF A!TypeOK, A!Untold
  <2> QED BY <1>1, <1>2, <2>1, <2>2, <2>3 DEF A!TypeOK
<1>5. ASSUME NEW t \in Opers
      PROVE  Grounded(oper'[t], service'[t], acct'[t], cached'[t], access'[t],
                      t \in moving', t \in untold', admin'[acct'[t]])
  <2>1. acct[t] \in Accounts \cup {None}
    BY <1>2 DEF A!TypeOK
  <2>2. Grounded(oper[t], service[t], acct[t], cached[t], access[t],
                 t \in moving, t \in untold, admin[acct[t]])
    BY DEF AllGrounded
  <2>3. CASE t \in A!Target(n)
    <3>1. acct[t] # None
      BY <2>3 DEF A!Target
    <3>2. ~cached'[t] /\ access'[t] = A!Rank(t, FALSE)
      BY <1>1, <2>3
    <3> HIDE DEF changed
    <3> QED BY <1>1, <1>3, <3>1, <3>2 DEF Grounded, A!Rank, A!USER, A!IDENTIFIED, A!OPER, A!ADMIN
  <2>4. CASE t \notin A!Target(n)
    <3>1. cached'[t] = cached[t] /\ access'[t] = access[t]
      BY <1>1, <1>2, <2>4 DEF A!TypeOK
    <3>2. cached[t] => admin'[acct[t]] \/ t \in untold'
      <4>1. cached[t] => acct[t] \in Accounts /\ (admin[acct[t]] \/ t \in untold)
        BY <2>2 DEF Grounded
      <4>2. acct[t] \in Accounts => admin'[acct[t]] = (admin[acct[t]] /\ acct[t] \notin changed)
        BY <1>1
      <4>3. cached[t] /\ acct[t] \in changed => t \in A!Untold(changed)
        BY DEF A!Untold
      <4> HIDE DEF changed
      <4> QED BY <1>1, <2>4, <4>1, <4>2, <4>3
    <3> QED BY <1>1, <2>2, <3>1, <3>2 DEF Grounded
  <2> QED BY <2>3, <2>4
<1> QED BY <1>4, <1>5 DEF AllGrounded

LEMMA DropNickStep ==
  ASSUME OwnersAreAccounts, AllGrounded, NEW s \in Opers, NEW n \in Nicknames, A!DropNick(s, n)
  PROVE  AllGrounded'
<1> DEFINE gone == {t \in Opers : wears[t] = n}
<1>1. /\ admin' = [admin EXCEPT ![Owner[n]] = FALSE]
      /\ acct' = [t \in Opers |-> IF t \in gone THEN None ELSE acct[t]]
      /\ cached' = [t \in Opers |-> t \notin gone /\ cached[t]]
      /\ access' = [t \in Opers |-> IF t \in gone THEN A!USER ELSE access[t]]
      /\ moving' = moving \ gone
      /\ untold' = (untold \cup A!Untold({Owner[n]})) \ gone
      /\ UNCHANGED <<wears, oper, service>>
  BY DEF A!DropNick
<1>2. A!TypeOK
  BY DEF AllGrounded
<1> HIDE DEF gone
<1>3. A!TypeOK'
  <2>1. access' \in [Opers -> A!USER .. A!ADMIN]
    BY <1>1, <1>2 DEF A!TypeOK, A!USER, A!ADMIN
  <2>2. cached' \in [Opers -> BOOLEAN] /\ admin' \in [Accounts -> BOOLEAN]
    BY <1>1, <1>2 DEF A!TypeOK
  <2>3. moving' \cup untold' \subseteq Opers
    BY <1>1, <1>2 DEF A!TypeOK, A!Untold
  <2>4. acct' \in [Opers -> Accounts \cup {None}]
    BY <1>1, <1>2 DEF A!TypeOK
  <2> QED BY <1>1, <1>2, <2>1, <2>2, <2>3, <2>4 DEF A!TypeOK
<1>4. ASSUME NEW t \in Opers
      PROVE  Grounded(oper'[t], service'[t], acct'[t], cached'[t], access'[t],
                      t \in moving', t \in untold', admin'[acct'[t]])
  <2>1. Grounded(oper[t], service[t], acct[t], cached[t], access[t],
                 t \in moving, t \in untold, admin[acct[t]])
    BY DEF AllGrounded
  <2>2. CASE t \in gone
    <3>1. ~cached'[t] /\ access'[t] = A!USER
      BY <1>1, <2>2
    <3> QED BY <3>1 DEF Grounded, A!USER, A!OPER, A!ADMIN
  <2>3. CASE t \notin gone
    <3>1. cached'[t] = cached[t] /\ access'[t] = access[t] /\ acct'[t] = acct[t]
      BY <1>1, <1>2, <2>3 DEF A!TypeOK
    <3>2. cached[t] => admin'[acct[t]] \/ t \in untold'
      <4>1. cached[t] => acct[t] \in Accounts /\ (admin[acct[t]] \/ t \in untold)
        BY <2>1 DEF Grounded
      <4>2. acct[t] \in Accounts /\ acct[t] # Owner[n] => admin'[acct[t]] = admin[acct[t]]
        BY <1>1, <1>2 DEF A!TypeOK
      <4>3. cached[t] /\ acct[t] = Owner[n] => t \in A!Untold({Owner[n]})
        BY DEF A!Untold
      <4> QED BY <1>1, <2>3, <4>1, <4>2, <4>3
    <3> QED BY <1>1, <2>1, <2>3, <3>1, <3>2 DEF Grounded
  <2> QED BY <2>2, <2>3
<1> QED BY <1>3, <1>4 DEF AllGrounded

LEMMA AccessNext ==
  ASSUME OwnersAreAccounts, AllGrounded, [A!Next]_A!vars
  PROVE  AllGrounded'
<1>1. CASE A!Next
  <2>1. PICK s \in Opers :
          \/ A!Identify(s) \/ A!Quit(s) \/ A!SetOper(s) \/ A!ClearOper(s) \/ A!Sudo(s)
          \/ \E on \in BOOLEAN : A!SetService(s, on)
          \/ \E n \in Nicknames : A!IdentifyAs(s, n) \/ A!NickChange(s, n) \/ A!AdminAdd(s, n)
                              \/ A!AdminDel(s, n) \/ A!DropNick(s, n)
    BY <1>1 DEF A!Next
  <2> QED BY <2>1, OwnAccountSteps, ModeSteps, AdminAddStep, AdminDelStep, DropNickStep
<1>2. CASE UNCHANGED A!vars
  BY <1>2 DEF A!vars, AllGrounded, A!TypeOK
<1> QED BY <1>1, <1>2

\* Nobody has an operator's or administrator's access without what gives it, for
\* any sessions, accounts and nicknames, in whatever order modes, accounts, flags
\* and nicknames come and go (set_user_mode, identify_user, handle_nick_change,
\* m_admin_add, m_admin_del, m_drop).
THEOREM AccessNeedsGrounds ==
  ASSUME OwnersAreAccounts
  PROVE  A!Spec => []A!AccessHasGrounds
<1>1. A!Init => AllGrounded
  BY AccessInit
<1>2. AllGrounded /\ [A!Next]_A!vars => AllGrounded'
  BY AccessNext
<1> QED BY <1>1, <1>2, GroundedMeans, PTL DEF A!Spec

-----------------------------------------------------------------------------
(***************************************************************************)
(* Recognition                                                             *)
(***************************************************************************)

\* NULL is no nickname and no fingerprint either.
NoneIsNothing == None \notin Nicknames /\ None \notin Prints /\ MaxEdits \in Nat

Client == [nick : Nicknames \cup {None}, as : Nicknames \cup {None}, ident : BOOLEAN, may : BOOLEAN,
           onaccess : BOOLEAN, sentcert : BOOLEAN, certfp : Prints \cup {None}]

\* A session that is on nick_enforce_list (li), waits for a nickname (mo) or is
\* what a server alone says (cl), and its struct Client.
KnownAs(r, li, mo, cl) ==
  /\ r \in Client
  /\ li => r.nick # None
  /\ r.as # None => r.nick # None /\ Owner[r.as] # None
  /\ r.as # None /\ ~mo /\ ~cl => R!AccountOf(r) = Owner[r.nick]
  /\ ~cl => (r.ident <=> r.as # None)
  /\ ~cl /\ r.as # None /\ R!AccountOf(r) = Owner[r.nick] => ~li
  /\ ~cl /\ r.sentcert => r.as # None

\* Sessions are known on grounds that lasted as long as they did, and tables and
\* answers are of the accounts they say.
AllKnown ==
  /\ R!TypeOK
  /\ \A t \in Sessions : KnownAs(ses[t], t \in listed, t \in awaiting, t \in claimed)
  /\ \A t \in Sessions : ses[t].as # None => <<t, R!AccountOf(ses[t])>> \in grounds
  /\ \A g \in grounds : ses[g[1]].nick # None
  /\ \A p \in pulled : \E a \in Accounts : <<p[1], a>> \in grounds /\ <<a, p[2]>> \in ever
  /\ \A v \in vouched : v[2] = Owner[v[1]]
  /\ \A a \in Accounts : \A c \in ajoin[a] : <<a, c>> \in ever
  /\ \A a \in Accounts : \A e \in certs[a] : e.nick # None => Owner[e.nick] = a

LEMMA KnownMeans == ASSUME AllKnown PROVE R!RecognisedRightly
<1>1. R!ActsOnGrounds
  BY DEF AllKnown, R!ActsOnGrounds
<1>2. R!ActsAsItIsNamed
  BY DEF AllKnown, KnownAs, R!ActsAsItIsNamed
<1>3. R!IdentifiedHaveAccounts
  <2> SUFFICES ASSUME NEW t \in Sessions, t \notin claimed
               PROVE  /\ ses[t].ident = (ses[t].as # None)
                      /\ ses[t].as # None /\ R!AccountOf(ses[t]) = Owner[ses[t].nick] => t \notin listed
    BY DEF R!IdentifiedHaveAccounts
  <2>1. KnownAs(ses[t], t \in listed, t \in awaiting, t \in claimed)
    BY DEF AllKnown
  <2>2. ses[t].ident \in BOOLEAN /\ (ses[t].ident <=> ses[t].as # None)
    BY <2>1 DEF KnownAs, Client
  <2>3. ses[t].ident = (ses[t].as # None)
    BY <2>2
  <2> QED BY <2>1, <2>3 DEF KnownAs
<1>4. R!StatusIsSo
  <2> SUFFICES ASSUME NEW t \in Sessions, t \notin claimed
               PROVE  /\ R!Status(ses[t]) \in {"certificate", "password"}
                           => <<t, R!AccountOf(ses[t])>> \in grounds
                      /\ R!Status(ses[t]) = "not registered" => ses[t].as = None
    BY DEF R!StatusIsSo
  <2>1. KnownAs(ses[t], t \in listed, t \in awaiting, t \in claimed)
    BY DEF AllKnown
  <2>2. ses[t].as # None => <<t, R!AccountOf(ses[t])>> \in grounds
    BY DEF AllKnown
  <2>3. (ses[t].ident <=> ses[t].as # None) /\ (ses[t].sentcert => ses[t].as # None)
    BY <2>1 DEF KnownAs
  <2>4. CASE ses[t].sentcert
    <3>1. R!Status(ses[t]) = "certificate"
      BY <2>4 DEF R!Status
    <3> QED BY <2>2, <2>3, <2>4, <3>1
  <2>5. CASE ~ses[t].sentcert /\ ses[t].onaccess
    <3>1. R!Status(ses[t]) = "access list"
      BY <2>5 DEF R!Status
    <3> QED BY <3>1
  <2>6. CASE ~ses[t].sentcert /\ ~ses[t].onaccess /\ ses[t].ident
    <3>1. R!Status(ses[t]) = "password"
      BY <2>6 DEF R!Status
    <3> QED BY <2>2, <2>3, <2>6, <3>1
  <2>7. CASE ~ses[t].sentcert /\ ~ses[t].onaccess /\ ~ses[t].ident
    <3>1. R!Status(ses[t]) = "not registered"
      BY <2>7 DEF R!Status
    <3> QED BY <2>3, <2>7, <3>1
  <2> QED BY <2>4, <2>5, <2>6, <2>7
<1> QED BY <1>1, <1>2, <1>3, <1>4 DEF R!RecognisedRightly

LEMMA OfflineIsKnown ==
  R!Offline \in Client /\ R!Offline.as = None /\ R!Offline.nick = None
  /\ KnownAs(R!Offline, FALSE, FALSE, FALSE)
BY DEF R!Offline, Client, KnownAs

LEMMA KnownInit == ASSUME NoneIsNothing, R!Init PROVE AllKnown
<1>1. R!TypeOK
  BY OfflineIsKnown DEF R!Init, R!TypeOK, Client, NoneIsNothing
<1>2. \A t \in Sessions : ses[t] = R!Offline /\ t \notin listed /\ t \notin awaiting /\ t \notin claimed
  BY DEF R!Init
<1>3. \A t \in Sessions : KnownAs(ses[t], t \in listed, t \in awaiting, t \in claimed)
  BY <1>2, OfflineIsKnown DEF KnownAs
<1>4. \A t \in Sessions : ses[t].as # None => <<t, R!AccountOf(ses[t])>> \in grounds
  BY <1>2, OfflineIsKnown
<1> QED BY <1>1, <1>3, <1>4 DEF R!Init, AllKnown

\* A step of session s, after which its struct Client is r: the lists change for s
\* only, it has an account on grounds, and joins the channels of that account.
Moves(s, r, given) ==
  /\ ses' = [ses EXCEPT ![s] = r]
  /\ listed' \cup {s} = listed \cup {s} /\ awaiting' \cup {s} = awaiting \cup {s}
  /\ claimed' \cup {s} = claimed \cup {s}
  /\ UNCHANGED <<secure, hosts, certs, ajoin, edits, ever>> /\ vouched' \subseteq vouched
  /\ KnownAs(r, s \in listed', s \in awaiting', s \in claimed')
  /\ R!Watch(given) /\ given \subseteq {s} \X Accounts
  /\ r.nick = None => given = {} /\ \A p \in pulled' : p[1] # s
  /\ r.as # None => \/ <<s, R!AccountOf(r)>> \in grounds \cup given
                    \/ R!Certified(R!AccountOf(r), r.certfp)
                    \/ /\ Owner[r.nick] = R!AccountOf(r) /\ R!Listed(R!AccountOf(r), s)
                       /\ R!AccountOf(r) \notin secure
  /\ \A p \in pulled' : p \in pulled \/ (r.as # None /\ p[1] = s /\ p[2] \in ajoin[R!AccountOf(r)])
  /\ pulled' \subseteq Sessions \X Channels

\* What speaks for a session by itself is seen after every step.
LEMMA SeenNext ==
  ASSUME NEW s \in Sessions, NEW a \in Accounts, NEW r, ses'[s] = r, r.nick # None,
         UNCHANGED <<secure, hosts, certs>>,
         \/ R!Certified(a, r.certfp)
         \/ Owner[r.nick] = a /\ R!Listed(a, s) /\ a \notin secure
  PROVE  <<s, a>> \in R!Seen'
<1> DEFINE g == <<s, a>>
<1>1. g \in Sessions \X Accounts /\ g[1] = s /\ g[2] = a
  OBVIOUS
<1> HIDE DEF g
<1>2. g \in R!Seen'
  BY <1>1 DEF R!Seen, R!Certified, R!Entries, R!Listed
<1> QED BY <1>2 DEF g

LEMMA SessionMoves ==
  ASSUME OwnersAreAccounts, AllKnown, NEW s \in Sessions, NEW r, NEW given, Moves(s, r, given)
  PROVE  AllKnown'
<1>1. /\ ses \in [Sessions -> Client] /\ r \in Client
      /\ ses' \in [Sessions -> Client] /\ ses'[s] = r /\ \A t \in Sessions \ {s} : ses'[t] = ses[t]
  BY DEF AllKnown, Moves, KnownAs, R!TypeOK, Client
<1>2. \A t \in Sessions : KnownAs(ses'[t], t \in listed', t \in awaiting', t \in claimed')
  <2> SUFFICES ASSUME NEW t \in Sessions
               PROVE  KnownAs(ses'[t], t \in listed', t \in awaiting', t \in claimed')
    OBVIOUS
  <2>1. CASE t = s
    BY <1>1, <2>1 DEF Moves
  <2>2. CASE t # s
    <3>1. ses'[t] = ses[t]
      BY <1>1, <2>2
    <3>2. (t \in listed' <=> t \in listed) /\ (t \in awaiting' <=> t \in awaiting)
          /\ (t \in claimed' <=> t \in claimed)
      BY <2>2 DEF Moves
    <3>3. KnownAs(ses[t], t \in listed, t \in awaiting, t \in claimed)
      BY DEF AllKnown
    <3> QED BY <3>1, <3>2, <3>3 DEF KnownAs
  <2> QED BY <2>1, <2>2
<1>3. R!Seen' \subseteq Sessions \X Accounts /\ \A g \in R!Seen' : ses'[g[1]].nick # None
  BY DEF R!Seen
<1>4. grounds' = {g \in grounds : ses'[g[1]].nick # None} \cup R!Seen' \cup given
  BY DEF Moves, R!Watch
<1>5. grounds \subseteq Sessions \X Accounts
  BY DEF AllKnown, R!TypeOK
<1>6. grounds' \subseteq Sessions \X Accounts
  BY <1>3, <1>4, <1>5 DEF Moves
<1>7. \A g \in grounds' : ses'[g[1]].nick # None
  <2> SUFFICES ASSUME NEW g \in grounds' PROVE ses'[g[1]].nick # None
    OBVIOUS
  <2>1. CASE g \in given
    <3>1. g[1] = s /\ r.nick # None
      BY <2>1 DEF Moves
    <3> QED BY <1>1, <3>1
  <2> QED BY <1>3, <1>4, <2>1
<1>8. ASSUME NEW t \in Sessions, ses'[t].as # None
      PROVE  <<t, R!AccountOf(ses'[t])>> \in grounds'
  <2>1. ses'[t].nick # None /\ ses'[t].as \in Nicknames /\ Owner[ses'[t].as] # None
    BY <1>1, <1>2, <1>8 DEF KnownAs, Client
  <2> DEFINE a == R!AccountOf(ses'[t])
  <2>2. a \in Accounts
    BY <1>8, <2>1 DEF R!AccountOf, OwnersAreAccounts
  <2>3. CASE t # s
    <3>1. ses'[t] = ses[t] /\ <<t, a>> \in grounds
      BY <1>1, <1>8, <2>3 DEF AllKnown
    <3> QED BY <1>4, <2>1, <3>1
  <2>4. CASE t = s
    <3>1. ses'[t] = r
      BY <1>1, <2>4
    <3>2. CASE <<s, a>> \in grounds \cup given
      BY <1>4, <2>1, <2>4, <3>2
    <3>3. CASE R!Certified(a, r.certfp) \/ (Owner[r.nick] = a /\ R!Listed(a, s) /\ a \notin secure)
      <4>1. <<s, R!AccountOf(r)>> \in R!Seen'
        BY <1>1, <2>1, <2>2, <3>1, <3>3, SeenNext DEF Moves
      <4> QED BY <1>4, <2>4, <3>1, <4>1
    <3> QED BY <1>8, <3>1, <3>2, <3>3 DEF Moves
  <2> QED BY <2>3, <2>4
<1>9. ASSUME NEW p \in pulled'
      PROVE  \E a \in Accounts : <<p[1], a>> \in grounds' /\ <<a, p[2]>> \in ever'
  <2>1. CASE p \in pulled
    <3>1. PICK a \in Accounts : <<p[1], a>> \in grounds /\ <<a, p[2]>> \in ever
      BY <2>1 DEF AllKnown
    <3>2. ses[p[1]].nick # None /\ p[1] \in Sessions
      BY <1>5, <3>1 DEF AllKnown
    <3>3. ses'[p[1]].nick # None
      <4>1. CASE p[1] # s
        BY <1>1, <3>2, <4>1
      <4>2. CASE p[1] = s
        BY <1>1, <4>2 DEF Moves
      <4> QED BY <4>1, <4>2
    <3>4. <<p[1], a>> \in grounds'
      BY <1>4, <3>1, <3>3
    <3> QED BY <3>1, <3>4 DEF Moves
  <2>2. CASE r.as # None /\ p[1] = s /\ p[2] \in ajoin[R!AccountOf(r)]
    <3> DEFINE a == R!AccountOf(r)
    <3>1. <<s, a>> \in grounds'
      BY <1>1, <1>8, <2>2
    <3>2. a \in Accounts
      BY <1>6, <3>1
    <3>3. <<a, p[2]>> \in ever'
      BY <2>2, <3>2 DEF AllKnown, Moves
    <3> QED BY <2>2, <3>1, <3>2, <3>3
  <2> QED BY <2>1, <2>2 DEF Moves
<1>10. R!TypeOK'
  <2>1. listed' \cup awaiting' \cup claimed' \subseteq Sessions
    BY DEF AllKnown, Moves, R!TypeOK
  <2> QED BY <1>1, <1>6, <2>1 DEF AllKnown, Moves, R!TypeOK, Client
<1> QED BY <1>2, <1>7, <1>8, <1>9, <1>10 DEF AllKnown, Moves

\* What the operators make of a struct Client.
LEMMA IdentifiedClient ==
  ASSUME NEW r \in Client, NEW n \in Nicknames \cup {None}
  PROVE  /\ R!Identified(r, n) \in Client
         /\ R!Identified(r, n).as = n /\ R!Identified(r, n).ident
         /\ R!Identified(r, n).nick = r.nick /\ R!Identified(r, n).certfp = r.certfp
         /\ R!Identified(r, n).sentcert = r.sentcert
BY DEF R!Identified, Client

LEMMA ForgottenClient ==
  ASSUME NEW r \in Client, NEW n \in Nicknames
  PROVE  /\ R!Forgotten(r, n) \in Client
         /\ R!Forgotten(r, n).nick = n /\ R!Forgotten(r, n).certfp = r.certfp
         /\ ~R!Forgotten(r, n).ident
         /\ r.ident => R!Forgotten(r, n).as = None /\ ~R!Forgotten(r, n).sentcert
         /\ ~r.ident => R!Forgotten(r, n).as = r.as /\ R!Forgotten(r, n).sentcert = r.sentcert
BY DEF R!Forgotten, Client

LEMMA OwnerIs == ASSUME OwnersAreAccounts, NEW n \in Nicknames, Owner[n] # None PROVE Owner[n] \in Accounts
BY DEF OwnersAreAccounts

LEMMA QuitStep ==
  ASSUME OwnersAreAccounts, AllKnown, NEW s \in Sessions, R!Quit(s)
  PROVE  AllKnown'
<1>1. KnownAs(R!Offline, s \in listed', s \in awaiting', s \in claimed')
  BY OfflineIsKnown DEF R!Quit, KnownAs
<1>2. Moves(s, R!Offline, {})
  BY <1>1, OfflineIsKnown DEF R!Quit, Moves, R!rows, AllKnown, R!TypeOK
<1> QED BY <1>2, SessionMoves

LEMMA SvsmodeStep ==
  ASSUME OwnersAreAccounts, AllKnown, NEW s \in Sessions, NEW on \in BOOLEAN, R!Svsmode(s, on)
  PROVE  AllKnown'
<1> DEFINE r == [ses[s] EXCEPT !.ident = on]
<1>1. KnownAs(ses[s], s \in listed, s \in awaiting, s \in claimed) /\ ses[s].nick # None
  BY DEF AllKnown, R!Svsmode
<1>2. r \in Client /\ r.as = ses[s].as /\ r.nick = ses[s].nick
  BY <1>1 DEF KnownAs, Client
<1>3. ses' = [ses EXCEPT ![s] = r] /\ s \in claimed'
  BY DEF R!Svsmode
<1>4. R!AccountOf(r) = R!AccountOf(ses[s])
  BY <1>2 DEF R!AccountOf
<1> HIDE DEF r
<1>5. KnownAs(r, s \in listed', s \in awaiting', s \in claimed')
  BY <1>1, <1>2, <1>3 DEF KnownAs
<1>6. r.as # None => <<s, R!AccountOf(r)>> \in grounds
  BY <1>2, <1>4 DEF AllKnown
<1>7. Moves(s, r, {})
  BY <1>1, <1>2, <1>3, <1>5, <1>6 DEF R!Svsmode, Moves, R!rows, AllKnown, R!TypeOK
<1> QED BY <1>7, SessionMoves

\* The channels a session is made to join are there.
LEMMA AutojoinChannels ==
  ASSUME AllKnown, NEW s \in Sessions, NEW a \in Accounts, R!Autojoin(s, a)
  PROVE  /\ pulled' \subseteq Sessions \X Channels
         /\ \A p \in pulled' : p \in pulled \/ (p[1] = s /\ p[2] \in ajoin[a])
BY DEF R!Autojoin, AllKnown, R!TypeOK

\* HandleNickChange for a session that has an account on grounds and asks for a
\* nickname of it.
LEMMA HandleNickChangeStep ==
  ASSUME OwnersAreAccounts, AllKnown, NEW s \in Sessions, NEW r \in Client, NEW n \in Nicknames,
         r.nick # None, r.as \in Nicknames, r.as # None, Owner[r.as] # None, Owner[r.as] = Owner[n],
         NEW given, given \subseteq {s} \X Accounts,
         \/ <<s, Owner[r.as]>> \in given
         \/ R!Certified(Owner[r.as], r.certfp),
         R!HandleNickChange(s, r, n), R!Watch(given),
         UNCHANGED <<secure, hosts, certs, ajoin, edits, ever, vouched>>
  PROVE  AllKnown'
<1>1. R!AccountOf(r) = Owner[r.as] /\ R!AccountOf(r) \in Accounts
  BY OwnerIs DEF R!AccountOf
<1>2. listed' = listed \ {s} /\ claimed' = claimed \ {s}
  BY DEF R!HandleNickChange
<1>3. CASE r.nick = n
  <2> DEFINE q == R!Identified(r, r.as)
  <2>1. /\ ses' = [ses EXCEPT ![s] = q] /\ R!Autojoin(s, R!AccountOf(r))
        /\ awaiting' = awaiting \ {s}
    BY <1>3 DEF R!HandleNickChange
  <2>2. q \in Client /\ q.as = r.as /\ q.nick = r.nick /\ q.certfp = r.certfp /\ q.ident
    BY IdentifiedClient
  <2> HIDE DEF q
  <2>3. R!AccountOf(q) = R!AccountOf(r)
    BY <2>2 DEF R!AccountOf
  <2>4. KnownAs(q, s \in listed', s \in awaiting', s \in claimed')
    BY <1>1, <1>2, <1>3, <2>1, <2>2, <2>3 DEF KnownAs
  <2>5. /\ pulled' \subseteq Sessions \X Channels
        /\ \A p \in pulled' : p \in pulled \/ (p[1] = s /\ p[2] \in ajoin[R!AccountOf(q)])
    BY <1>1, <2>1, <2>3, AutojoinChannels
  <2>6. /\ listed' \cup {s} = listed \cup {s} /\ awaiting' \cup {s} = awaiting \cup {s}
        /\ claimed' \cup {s} = claimed \cup {s}
    BY <1>2, <2>1
  <2>7. <<s, R!AccountOf(q)>> \in grounds \cup given \/ R!Certified(R!AccountOf(q), q.certfp)
    BY <1>1, <2>2, <2>3
  <2>8. Moves(s, q, given)
    BY <2>1, <2>2, <2>4, <2>5, <2>6, <2>7 DEF Moves
  <2> QED BY <2>8, SessionMoves
<1>4. CASE r.nick # n
  <2> DEFINE q == [r EXCEPT !.ident = TRUE]
  <2>1. /\ ses' = [ses EXCEPT ![s] = q] /\ pulled' = pulled
        /\ awaiting' = awaiting \cup {s}
    BY <1>4 DEF R!HandleNickChange
  <2>2. q \in Client /\ q.as = r.as /\ q.nick = r.nick /\ q.certfp = r.certfp /\ q.ident
    BY DEF Client
  <2> HIDE DEF q
  <2>3. R!AccountOf(q) = R!AccountOf(r)
    BY <2>2 DEF R!AccountOf
  <2>4. KnownAs(q, s \in listed', s \in awaiting', s \in claimed')
    BY <1>1, <1>2, <1>4, <2>1, <2>2, <2>3 DEF KnownAs
  <2>6. /\ listed' \cup {s} = listed \cup {s} /\ awaiting' \cup {s} = awaiting \cup {s}
        /\ claimed' \cup {s} = claimed \cup {s}
    BY <1>2, <2>1
  <2>7. <<s, R!AccountOf(q)>> \in grounds \cup given \/ R!Certified(R!AccountOf(q), q.certfp)
    BY <1>1, <2>2, <2>3
  <2>8. Moves(s, q, given)
    BY <2>1, <2>2, <2>4, <2>6, <2>7 DEF Moves, AllKnown, R!TypeOK
  <2> QED BY <2>8, SessionMoves
<1> QED BY <1>3, <1>4

LEMMA IdentifyStep ==
  ASSUME OwnersAreAccounts, NoneIsNothing, AllKnown, NEW s \in Sessions, NEW n \in Nicknames,
         (\E b \in BOOLEAN : R!Identify(s, n, b)) \/ R!Regain(s, n)
  PROVE  AllKnown'
<1> DEFINE r == [ses[s] EXCEPT !.as = n]
<1>1. ses[s].nick # None /\ Owner[n] # None /\ R!HandleNickChange(s, r, n)
  BY DEF R!Identify, R!Regain
<1>2. ses[s] \in Client
  BY DEF AllKnown, KnownAs
<1>3. r \in Client /\ r.as = n /\ r.nick = ses[s].nick /\ r.certfp = ses[s].certfp
  BY <1>2 DEF Client
<1>4. Owner[n] \in Accounts /\ n # None
  BY <1>1, OwnerIs DEF NoneIsNothing
<1>5. UNCHANGED <<secure, hosts, certs, ajoin, edits, ever, vouched>>
  BY DEF R!Identify, R!Regain, R!rows
<1>6. \E given \in {{}, {<<s, Owner[n]>>}} :
         /\ R!Watch(given)
         /\ <<s, Owner[n]>> \in given \/ R!Certified(Owner[n], r.certfp)
  <2>1. ASSUME NEW b \in BOOLEAN, R!Identify(s, n, b)
        PROVE  \E given \in {{}, {<<s, Owner[n]>>}} :
                  /\ R!Watch(given)
                  /\ <<s, Owner[n]>> \in given \/ R!Certified(Owner[n], r.certfp)
    <3> DEFINE given == IF b THEN {<<s, Owner[n]>>} ELSE {}
    <3>1. R!Watch(given) /\ (b \/ R!Certified(Owner[n], r.certfp))
      BY <2>1 DEF R!Identify
    <3>2. given \in {{}, {<<s, Owner[n]>>}} /\ (b => <<s, Owner[n]>> \in given)
      OBVIOUS
    <3> HIDE DEF given, r
    <3> QED BY <3>1, <3>2
  <2>2. ASSUME R!Regain(s, n)
        PROVE  \E given \in {{}, {<<s, Owner[n]>>}} :
                  /\ R!Watch(given)
                  /\ <<s, Owner[n]>> \in given \/ R!Certified(Owner[n], r.certfp)
    <3> DEFINE given == IF Owner[n] \notin secure THEN {<<s, Owner[n]>>} ELSE {}
    <3>1. /\ R!Watch(given)
          /\ R!Certified(Owner[n], r.certfp) \/ (r.onaccess /\ Owner[n] \notin secure)
      BY <2>2 DEF R!Regain
    <3>2. given \in {{}, {<<s, Owner[n]>>}} /\ (Owner[n] \notin secure => <<s, Owner[n]>> \in given)
      OBVIOUS
    <3> HIDE DEF given, r
    <3> QED BY <3>1, <3>2
  <2> HIDE DEF r
  <2> QED BY <2>1, <2>2
<1> HIDE DEF r
<1>7. PICK given \in {{}, {<<s, Owner[n]>>}} :
         /\ R!Watch(given)
         /\ <<s, Owner[n]>> \in given \/ R!Certified(Owner[n], r.certfp)
  BY <1>6
<1>8. given \subseteq {s} \X Accounts
  BY <1>4
<1>9. /\ r.as \in Nicknames /\ r.as # None /\ r.nick # None
      /\ Owner[r.as] # None /\ Owner[r.as] = Owner[n]
      /\ <<s, Owner[r.as]>> \in given \/ R!Certified(Owner[r.as], r.certfp)
  BY <1>1, <1>3, <1>4, <1>7
<1> QED BY <1>1, <1>3, <1>5, <1>7, <1>8, <1>9, HandleNickChangeStep

LEMMA CertfpStep ==
  ASSUME OwnersAreAccounts, NoneIsNothing, AllKnown, NEW s \in Sessions, NEW f \in Prints,
         R!Certfp(s, f)
  PROVE  AllKnown'
<1> DEFINE r == [ses[s] EXCEPT !.certfp = f]
           a == Owner[ses[s].nick]
<1>1. KnownAs(ses[s], s \in listed, s \in awaiting, s \in claimed) /\ ses[s] \in Client
  BY DEF AllKnown, KnownAs
<1>2. /\ r \in Client /\ r.nick = ses[s].nick /\ r.as = ses[s].as /\ r.certfp = f
      /\ r.ident = ses[s].ident /\ r.sentcert = ses[s].sentcert
  BY <1>1 DEF Client
<1>3. /\ R!Watch({}) /\ UNCHANGED <<secure, hosts, certs, ajoin, edits, ever, vouched>>
      /\ r.nick # None
  BY <1>2 DEF R!Certfp, R!rows
<1>4. r.nick \in Nicknames
  BY <1>2, <1>3 DEF Client
<1>5. \/ ses' = [ses EXCEPT ![s] = r] /\ UNCHANGED <<listed, claimed, awaiting, pulled>>
      \/ /\ Owner[r.nick] # None
         /\ \E e \in R!Entries(Owner[r.nick], f) :
              R!HandleNickChange(s, [r EXCEPT !.as = r.nick, !.sentcert = TRUE],
                                 IF e.nick = None THEN r.nick ELSE e.nick)
  BY DEF R!Certfp
<1> HIDE DEF r
<1>6. CASE ses' = [ses EXCEPT ![s] = r] /\ UNCHANGED <<listed, claimed, awaiting, pulled>>
  <2>1. R!AccountOf(r) = R!AccountOf(ses[s])
    BY <1>2 DEF R!AccountOf
  <2>2. KnownAs(r, s \in listed', s \in awaiting', s \in claimed')
    BY <1>1, <1>2, <1>6, <2>1 DEF KnownAs
  <2>3. r.as # None => <<s, R!AccountOf(r)>> \in grounds
    BY <1>2, <2>1 DEF AllKnown
  <2>4. Moves(s, r, {})
    BY <1>3, <1>6, <2>2, <2>3 DEF Moves, AllKnown, R!TypeOK
  <2> QED BY <2>4, SessionMoves
<1>7. ASSUME Owner[r.nick] # None, NEW e \in R!Entries(Owner[r.nick], f),
             R!HandleNickChange(s, [r EXCEPT !.as = r.nick, !.sentcert = TRUE],
                                IF e.nick = None THEN r.nick ELSE e.nick)
      PROVE  AllKnown'
  <2> DEFINE q == [r EXCEPT !.as = r.nick, !.sentcert = TRUE]
             n == IF e.nick = None THEN r.nick ELSE e.nick
  <2>1. Owner[r.nick] \in Accounts
    BY <1>4, <1>7, OwnerIs
  <2>2. e \in certs[Owner[r.nick]]
    BY DEF R!Entries
  <2>3. e.nick \in Nicknames \cup {None}
    BY <2>1, <2>2 DEF AllKnown, R!TypeOK
  <2>4. n \in Nicknames /\ Owner[n] = Owner[r.nick]
    BY <1>4, <2>1, <2>2, <2>3 DEF AllKnown
  <2>5. q \in Client /\ q.as = r.nick /\ q.nick = r.nick /\ q.certfp = f
    BY <1>2, <1>4 DEF Client
  <2>6. R!HandleNickChange(s, q, n)
    BY <1>7
  <2> HIDE DEF q, n
  <2>7. R!Certified(Owner[q.as], q.certfp)
    BY <1>7, <2>5 DEF R!Certified, NoneIsNothing
  <2>8. q.nick # None /\ q.as \in Nicknames /\ q.as # None /\ Owner[q.as] # None /\ Owner[q.as] = Owner[n]
    BY <1>3, <1>4, <1>7, <2>4, <2>5
  <2>9. {} \subseteq {s} \X Accounts
    OBVIOUS
  <2> QED BY <1>3, <2>4, <2>5, <2>6, <2>7, <2>8, <2>9, HandleNickChangeStep
<1> QED BY <1>5, <1>6, <1>7

\* The rest of ns_on_newuser and ns_on_nick_change, for a session r that has no
\* account unless a server had cleared its mode.
LEMMA ByHostStep ==
  ASSUME OwnersAreAccounts, NoneIsNothing, AllKnown, NEW s \in Sessions, NEW r \in Client,
         r.nick \in Nicknames, Owner[r.nick] # None, R!ByHost(s, r, Owner[r.nick]),
         s \notin R!Unclaimed(s) => r.as = None /\ ~r.ident /\ ~r.sentcert,
         r.as # None => Owner[r.as] # None /\ <<s, R!AccountOf(r)>> \in grounds,
         awaiting' \cup {s} = awaiting \cup {s}, vouched' \subseteq vouched,
         R!Watch({}), UNCHANGED <<secure, hosts, certs, ajoin, edits, ever>>
  PROVE  AllKnown'
<1> DEFINE a == Owner[r.nick]
           found == [r EXCEPT !.onaccess = TRUE]
<1>1. a \in Accounts /\ r.nick # None
  BY OwnerIs DEF NoneIsNothing
<1>2. /\ found \in Client /\ found.nick = r.nick /\ found.as = r.as /\ found.certfp = r.certfp
      /\ found.ident = r.ident /\ found.sentcert = r.sentcert
  BY DEF Client
<1>3. CASE R!Opens(a, s)
  <2> DEFINE q == R!Identified(found, r.nick)
  <2>1. /\ ses' = [ses EXCEPT ![s] = q] /\ R!Autojoin(s, a)
        /\ listed' = listed \ {s} /\ claimed' = claimed \ {s}
    BY <1>3 DEF R!ByHost
  <2>2. q \in Client /\ q.as = r.nick /\ q.nick = r.nick /\ q.certfp = r.certfp /\ q.ident
    BY <1>2, IdentifiedClient
  <2> HIDE DEF q, found
  <2>3. R!AccountOf(q) = a
    BY <1>1, <2>2 DEF R!AccountOf
  <2>4. KnownAs(q, s \in listed', s \in awaiting', s \in claimed')
    BY <1>1, <2>1, <2>2, <2>3 DEF KnownAs
  <2>5. /\ pulled' \subseteq Sessions \X Channels
        /\ \A p \in pulled' : p \in pulled \/ (p[1] = s /\ p[2] \in ajoin[R!AccountOf(q)])
    BY <1>1, <2>1, <2>3, AutojoinChannels
  <2>6. R!Listed(a, s) /\ a \notin secure
    BY <1>3 DEF R!Opens
  <2>7. listed' \cup {s} = listed \cup {s} /\ claimed' \cup {s} = claimed \cup {s}
    BY <2>1
  <2>8. Moves(s, q, {})
    BY <1>1, <2>1, <2>2, <2>3, <2>4, <2>5, <2>6, <2>7 DEF Moves
  <2> QED BY <2>8, SessionMoves
<1>4. CASE ~R!Opens(a, s)
  <2> DEFINE q == IF R!Listed(a, s) THEN found ELSE r
  <2>1. /\ ses' = [ses EXCEPT ![s] = q] /\ pulled' = pulled /\ claimed' = R!Unclaimed(s)
        /\ listed' = IF ~R!Listed(a, s) /\ a \in Enforced THEN listed \cup {s} ELSE listed \ {s}
    BY <1>4 DEF R!ByHost
  <2>2. /\ q \in Client /\ q.nick = r.nick /\ q.as = r.as
        /\ q.ident = r.ident /\ q.sentcert = r.sentcert
    BY <1>2
  <2> HIDE DEF q, found, a
  <2>3. R!AccountOf(q) = R!AccountOf(r)
    BY <2>2 DEF R!AccountOf
  <2>4. s \notin claimed' => q.as = None /\ ~q.ident /\ ~q.sentcert
    BY <2>1, <2>2
  <2>5. q.as # None => q.nick # None /\ Owner[q.as] # None
    BY <1>1, <2>2
  <2>10. q.nick # None
    BY <1>1, <2>2
  <2>6. KnownAs(q, s \in listed', s \in awaiting', s \in claimed')
    BY <2>2, <2>4, <2>5, <2>10 DEF KnownAs
  <2>7. listed' \cup {s} = listed \cup {s} /\ claimed' \cup {s} = claimed \cup {s}
    BY <2>1 DEF R!Unclaimed
  <2>8. q.as # None => <<s, R!AccountOf(q)>> \in grounds
    BY <2>2, <2>3
  <2>9. Moves(s, q, {})
    BY <1>1, <2>1, <2>2, <2>6, <2>7, <2>8 DEF Moves, AllKnown, R!TypeOK
  <2> QED BY <2>9, SessionMoves
<1> QED BY <1>3, <1>4

LEMMA NewUserStep ==
  ASSUME OwnersAreAccounts, NoneIsNothing, AllKnown, NEW s \in Sessions, NEW n \in Nicknames,
         NEW reg \in BOOLEAN, R!NewUser(s, n, reg)
  PROVE  AllKnown'
<1> DEFINE new == [R!Offline EXCEPT !.nick = n, !.ident = reg]
           given == IF reg THEN {<<s, v[2]>> : v \in {w \in vouched : w[1] = n}} ELSE {}
<1>1. /\ new \in Client /\ new.nick = n /\ new.as = None /\ new.ident = reg
      /\ ~new.sentcert /\ n # None
  BY DEF R!Offline, Client, NoneIsNothing
<1>2. /\ vouched' = {} /\ UNCHANGED <<secure, hosts, certs, ajoin, edits, ever, awaiting>>
      /\ R!Watch(given) /\ ses[s] = R!Offline
      /\ reg => n \in {v[1] : v \in vouched} \/ Owner[n] = None
  BY DEF R!NewUser, R!rows
<1>3. \A v \in vouched : v \in Nicknames \X Accounts /\ v[2] = Owner[v[1]]
  BY DEF AllKnown, R!TypeOK
<1>4. given \subseteq {s} \X Accounts
  BY <1>3
<1>5. ~reg => given = {}
  OBVIOUS
<1>6. reg /\ Owner[n] # None => <<s, Owner[n]>> \in given
  <2> SUFFICES ASSUME reg, Owner[n] # None PROVE <<s, Owner[n]>> \in given
    OBVIOUS
  <2>1. PICK v \in vouched : v[1] = n
    BY <1>2
  <2> QED BY <1>3, <2>1
<1>7. ses[s].ident = FALSE
  BY <1>2 DEF R!Offline
<1> HIDE DEF given
<1>8. CASE Owner[n] = None
  <2>1. /\ ses' = [ses EXCEPT ![s] = new]
        /\ claimed' = (IF reg THEN claimed \cup {s} ELSE claimed)
        /\ UNCHANGED <<listed, pulled>>
    BY <1>8 DEF R!NewUser
  <2> HIDE DEF new
  <2>2. KnownAs(new, s \in listed', s \in awaiting', s \in claimed')
    BY <1>1, <2>1 DEF KnownAs
  <2>3. claimed' \cup {s} = claimed \cup {s}
    BY <2>1
  <2>4. Moves(s, new, given)
    BY <1>1, <1>2, <1>4, <2>1, <2>2, <2>3 DEF Moves, AllKnown, R!TypeOK
  <2> QED BY <2>4, SessionMoves
<1>9. CASE Owner[n] # None /\ reg
  <2> DEFINE q == R!Identified(new, n)
             a == Owner[n]
  <2>1. /\ ses' = [ses EXCEPT ![s] = q] /\ R!Autojoin(s, a)
        /\ UNCHANGED <<listed, claimed>>
    BY <1>9 DEF R!NewUser
  <2>2. a \in Accounts
    BY <1>9, OwnerIs
  <2> HIDE DEF new
  <2>3. q \in Client /\ q.as = n /\ q.nick = n /\ q.ident
    BY <1>1, IdentifiedClient
  <2>4. s \notin listed
    <3>1. KnownAs(ses[s], s \in listed, s \in awaiting, s \in claimed)
      BY DEF AllKnown
    <3> QED BY <1>2, <3>1, OfflineIsKnown DEF KnownAs
  <2> HIDE DEF q, a
  <2>5. R!AccountOf(q) = a
    BY <1>1, <2>3 DEF R!AccountOf, a
  <2>6. KnownAs(q, s \in listed', s \in awaiting', s \in claimed')
    BY <1>1, <1>9, <2>1, <2>3, <2>4, <2>5 DEF KnownAs, a
  <2>7. /\ pulled' \subseteq Sessions \X Channels
        /\ \A p \in pulled' : p \in pulled \/ (p[1] = s /\ p[2] \in ajoin[R!AccountOf(q)])
    BY <2>1, <2>2, <2>5, AutojoinChannels
  <2>8. q.as # None /\ q.nick # None /\ <<s, R!AccountOf(q)>> \in given
    BY <1>1, <1>6, <1>9, <2>3, <2>5 DEF a
  <2>9. Moves(s, q, given)
    BY <1>2, <1>4, <2>1, <2>6, <2>7, <2>8 DEF Moves
  <2> QED BY <2>9, SessionMoves
<1>10. CASE Owner[n] # None /\ ~reg
  <2>1. R!ByHost(s, new, Owner[n])
    BY <1>10 DEF R!NewUser
  <2>2. R!Watch({}) /\ awaiting' \cup {s} = awaiting \cup {s} /\ vouched' \subseteq vouched
    BY <1>2, <1>5, <1>10
  <2> HIDE DEF new
  <2>3. R!ByHost(s, new, Owner[new.nick]) /\ new.nick \in Nicknames /\ Owner[new.nick] # None
    BY <1>1, <1>10, <2>1
  <2>4. new.as = None /\ ~new.ident /\ ~new.sentcert
    BY <1>1, <1>10
  <2> QED BY <1>1, <1>2, <2>2, <2>3, <2>4, ByHostStep
<1> QED BY <1>8, <1>9, <1>10

LEMMA NickChangeStep ==
  ASSUME OwnersAreAccounts, NoneIsNothing, AllKnown, NEW s \in Sessions, NEW n \in Nicknames,
         R!NickChange(s, n)
  PROVE  AllKnown'
<1> DEFINE r == ses[s]
           new == R!Forgotten(r, n)
           old == IF r.ident THEN R!AccountOf(r) ELSE None
           a == Owner[n]
<1>1. /\ KnownAs(r, s \in listed, s \in awaiting, s \in claimed) /\ r \in Client
      /\ r.as # None => <<s, R!AccountOf(r)>> \in grounds
  BY DEF AllKnown, KnownAs
<1>2. /\ new \in Client /\ new.nick = n /\ new.certfp = r.certfp /\ ~new.ident
      /\ r.ident => new.as = None /\ ~new.sentcert
      /\ ~r.ident => new.as = r.as /\ new.sentcert = r.sentcert
  BY <1>1, ForgottenClient
<1>3. /\ UNCHANGED <<secure, hosts, certs, ajoin, edits, ever, vouched>> /\ R!Watch({})
      /\ awaiting' = awaiting \ {s} /\ r.nick # None /\ n # None
  BY DEF R!NickChange, R!rows, NoneIsNothing
<1>4. s \notin R!Unclaimed(s) => new.as = None /\ ~new.ident /\ ~new.sentcert
  <2>1. r.ident => new.as = None /\ ~new.sentcert
    BY <1>2
  <2>2. ~r.ident /\ s \notin claimed => r.as = None /\ ~r.sentcert
    BY <1>1 DEF KnownAs
  <2>3. ~r.ident => R!Unclaimed(s) = claimed
    BY DEF R!Unclaimed
  <2> HIDE DEF new
  <2> QED BY <1>2, <2>1, <2>2, <2>3
<1>5. CASE a = None
  <2> DEFINE q == [new EXCEPT !.as = None]
  <2>1. /\ ses' = [ses EXCEPT ![s] = q]
        /\ listed' = listed \ {s} /\ claimed' = R!Unclaimed(s) /\ pulled' = pulled
    BY <1>5 DEF R!NickChange
  <2> HIDE DEF new
  <2>2. /\ q \in Client /\ q.as = None /\ q.nick = n /\ q.ident = new.ident
        /\ q.sentcert = new.sentcert
    BY <1>2 DEF Client
  <2> HIDE DEF q
  <2>3. KnownAs(q, s \in listed', s \in awaiting', s \in claimed')
    BY <1>3, <1>4, <2>1, <2>2 DEF KnownAs
  <2>4. listed' \cup {s} = listed \cup {s} /\ claimed' \cup {s} = claimed \cup {s}
        /\ awaiting' \cup {s} = awaiting \cup {s}
    BY <1>3, <2>1 DEF R!Unclaimed
  <2>5. Moves(s, q, {})
    BY <1>3, <2>1, <2>2, <2>3, <2>4 DEF Moves, AllKnown, R!TypeOK
  <2> QED BY <2>5, SessionMoves
<1>6. CASE a # None /\ (old = a \/ R!ByCert(s, new, a, old))
  <2> DEFINE q == [R!Identified(new, n) EXCEPT !.sentcert = old # a]
  <2>1. /\ ses' = [ses EXCEPT ![s] = q]
        /\ R!Autojoin(s, a) /\ listed' = listed \ {s} /\ claimed' = claimed \ {s}
    BY <1>6 DEF R!NickChange
  <2> HIDE DEF new
  <2>2. /\ R!Identified(new, n) \in Client /\ R!Identified(new, n).as = n
        /\ R!Identified(new, n).nick = n /\ R!Identified(new, n).ident
        /\ R!Identified(new, n).certfp = r.certfp
    BY <1>2, IdentifiedClient
  <2>3. (old # a) \in BOOLEAN
    OBVIOUS
  <2>4. q \in Client /\ q.as = n /\ q.nick = n /\ q.ident /\ q.certfp = r.certfp
    BY <2>2, <2>3 DEF Client
  <2>5. a \in Accounts
    BY <1>6, OwnerIs
  <2>6. <<s, a>> \in grounds \/ R!Certified(a, q.certfp)
    <3>1. CASE old = a
      <4>1. r.ident /\ R!AccountOf(r) = a
        BY <1>6, <3>1
      <4>2. r.as # None
        BY <1>6, <4>1 DEF R!AccountOf
      <4> QED BY <1>1, <4>1, <4>2
    <3>2. CASE R!ByCert(s, new, a, old)
      BY <1>2, <2>4, <3>2 DEF R!ByCert
    <3> QED BY <1>6, <3>1, <3>2
  <2> HIDE DEF q, old
  <2>7. R!AccountOf(q) = a
    BY <1>3, <2>4 DEF R!AccountOf
  <2>8. KnownAs(q, s \in listed', s \in awaiting', s \in claimed')
    BY <1>3, <1>6, <2>1, <2>4, <2>7 DEF KnownAs
  <2>9. /\ pulled' \subseteq Sessions \X Channels
        /\ \A p \in pulled' : p \in pulled \/ (p[1] = s /\ p[2] \in ajoin[R!AccountOf(q)])
    BY <2>1, <2>5, <2>7, AutojoinChannels
  <2>10. listed' \cup {s} = listed \cup {s} /\ claimed' \cup {s} = claimed \cup {s}
         /\ awaiting' \cup {s} = awaiting \cup {s}
    BY <1>3, <2>1
  <2>11. Moves(s, q, {})
    BY <1>3, <2>1, <2>4, <2>6, <2>7, <2>8, <2>9, <2>10 DEF Moves
  <2> QED BY <2>11, SessionMoves
<1>7. CASE a # None /\ ~(old = a \/ R!ByCert(s, new, a, old))
  <2>1. R!ByHost(s, new, a)
    BY <1>7 DEF R!NickChange
  <2> HIDE DEF new
  <2>2. R!ByHost(s, new, Owner[new.nick]) /\ new.nick \in Nicknames /\ Owner[new.nick] # None
    BY <1>2, <1>7, <2>1
  <2>3. new.as # None => Owner[new.as] # None /\ <<s, R!AccountOf(new)>> \in grounds
    <3>1. new.as # None => new.as = r.as
      BY <1>2
    <3>2. new.as # None => R!AccountOf(new) = R!AccountOf(r)
      BY <3>1 DEF R!AccountOf
    <3> QED BY <1>1, <3>1, <3>2 DEF KnownAs
  <2>4. awaiting' \cup {s} = awaiting \cup {s} /\ vouched' \subseteq vouched
    BY <1>3
  <2> QED BY <1>2, <1>3, <1>4, <2>2, <2>3, <2>4, ByHostStep
<1> QED BY <1>5, <1>6, <1>7

LEMMA AuthStep ==
  ASSUME OwnersAreAccounts, AllKnown, NEW user \in Nicknames, NEW n \in Nicknames,
         NEW f \in Prints \cup {None}, R!AuthRequested(user, n, f)
  PROVE  AllKnown'
<1>1. /\ Owner[user] = Owner[n] /\ Owner[user] # None
      /\ vouched' = vouched \cup {<<n, Owner[user]>>}
      /\ UNCHANGED <<ses, listed, secure, hosts, certs, ajoin, edits, ever, grounds, awaiting,
                     claimed, pulled>>
  BY DEF R!AuthRequested, R!rows
<1>2. Owner[user] \in Accounts
  BY <1>1, OwnerIs
<1>3. vouched' \subseteq Nicknames \X Accounts /\ \A v \in vouched' : v[2] = Owner[v[1]]
  BY <1>1, <1>2 DEF AllKnown, R!TypeOK
<1>4. R!TypeOK'
  BY <1>1, <1>3 DEF AllKnown, R!TypeOK
<1> QED BY <1>1, <1>3, <1>4 DEF AllKnown, KnownAs

\* A change of an account's tables gives grounds and takes none away.
LEMMA EditStep ==
  ASSUME OwnersAreAccounts, NoneIsNothing, AllKnown, NEW s \in Sessions, R!Edit(s), R!Watch({}),
         secure' \subseteq Accounts, hosts' \in [Accounts -> SUBSET Hosts],
         ajoin' \in [Accounts -> SUBSET Channels],
         certs' \in [Accounts -> SUBSET [value : Prints, nick : Nicknames \cup {None}]],
         ever \subseteq ever', ever' \subseteq Accounts \X Channels,
         \A a \in Accounts : \A c \in ajoin'[a] : <<a, c>> \in ever',
         \A a \in Accounts : \A e \in certs'[a] : e.nick # None => Owner[e.nick] = a
  PROVE  AllKnown'
<1>1. /\ UNCHANGED <<ses, listed, vouched, awaiting, claimed, pulled>>
      /\ edits' \in 0 .. MaxEdits
  BY DEF R!Edit, AllKnown, R!TypeOK, NoneIsNothing
<1>2. R!Seen' \subseteq Sessions \X Accounts /\ \A g \in R!Seen' : ses'[g[1]].nick # None
  BY DEF R!Seen
<1>3. grounds' = {g \in grounds : ses'[g[1]].nick # None} \cup R!Seen'
  BY DEF R!Watch
<1>4. grounds \subseteq grounds'
  BY <1>1, <1>3 DEF AllKnown
<1>5. grounds' \subseteq Sessions \X Accounts /\ \A g \in grounds' : ses'[g[1]].nick # None
  BY <1>2, <1>3 DEF AllKnown, R!TypeOK
<1>6. \A p \in pulled' : \E a \in Accounts : <<p[1], a>> \in grounds' /\ <<a, p[2]>> \in ever'
  BY <1>1, <1>4 DEF AllKnown
<1>7. R!TypeOK'
  BY <1>1, <1>5 DEF AllKnown, R!TypeOK
<1> QED BY <1>1, <1>4, <1>5, <1>6, <1>7 DEF AllKnown, KnownAs

LEMMA EditSteps ==
  ASSUME OwnersAreAccounts, NoneIsNothing, AllKnown, NEW s \in Sessions,
         \/ \E on \in BOOLEAN : R!SetSecure(s, on)
         \/ \E h \in Hosts : R!AccessAdd(s, h) \/ R!AccessDel(s, h)
         \/ \E f \in Prints : R!CertDel(s, f) \/ \E n \in Nicknames \cup {None} : R!CertAdd(s, f, n)
         \/ \E c \in Channels : R!AjoinAdd(s, c) \/ R!AjoinDel(s, c)
  PROVE  AllKnown'
<1> DEFINE a == R!AccountOf(ses[s])
<1>1. R!Edit(s) /\ R!Watch({})
  BY DEF R!SetSecure, R!AccessAdd, R!AccessDel, R!CertAdd, R!CertDel, R!AjoinAdd, R!AjoinDel
<1>2. a \in Accounts
  <2>1. KnownAs(ses[s], s \in listed, s \in awaiting, s \in claimed) /\ ses[s].as # None
    BY <1>1 DEF AllKnown, R!Edit, R!Owns
  <2>2. ses[s].as \in Nicknames /\ Owner[ses[s].as] # None
    BY <2>1 DEF KnownAs, Client
  <2> QED BY <2>1, <2>2, OwnerIs DEF R!AccountOf
<1>3. /\ secure \subseteq Accounts /\ hosts \in [Accounts -> SUBSET Hosts]
      /\ ajoin \in [Accounts -> SUBSET Channels] /\ ever \subseteq Accounts \X Channels
      /\ certs \in [Accounts -> SUBSET [value : Prints, nick : Nicknames \cup {None}]]
      /\ \A b \in Accounts : \A c \in ajoin[b] : <<b, c>> \in ever
      /\ \A b \in Accounts : \A e \in certs[b] : e.nick # None => Owner[e.nick] = b
  BY DEF AllKnown, R!TypeOK
<1>4. ASSUME NEW on \in BOOLEAN, R!SetSecure(s, on) PROVE AllKnown'
  <2>1. UNCHANGED <<hosts, certs, ajoin, ever>> /\ secure' \subseteq Accounts
    BY <1>2, <1>3, <1>4 DEF R!SetSecure
  <2> QED BY <1>1, <1>3, <2>1, EditStep
<1>5. ASSUME NEW h \in Hosts, R!AccessAdd(s, h) \/ R!AccessDel(s, h) PROVE AllKnown'
  <2>1. hosts' = [hosts EXCEPT ![a] = @ \cup {h}] \/ hosts' = [hosts EXCEPT ![a] = @ \ {h}]
    BY <1>5 DEF R!AccessAdd, R!AccessDel
  <2>2. UNCHANGED <<secure, certs, ajoin, ever>>
    BY <1>5 DEF R!AccessAdd, R!AccessDel
  <2> HIDE DEF a
  <2>3. hosts' \in [Accounts -> SUBSET Hosts]
    BY <1>2, <1>3, <2>1
  <2> QED BY <1>1, <1>3, <2>2, <2>3, EditStep
<1>6. ASSUME NEW f \in Prints, NEW n \in Nicknames \cup {None}, R!CertAdd(s, f, n) PROVE AllKnown'
  <2> DEFINE e == [value |-> f, nick |-> n]
  <2>1. /\ certs' = [certs EXCEPT ![a] = @ \cup {e}] /\ (n # None => Owner[n] = a)
        /\ UNCHANGED <<secure, hosts, ajoin, ever>>
    BY <1>6 DEF R!CertAdd
  <2>2. e \in [value : Prints, nick : Nicknames \cup {None}] /\ e.nick = n
    OBVIOUS
  <2> HIDE DEF a, e
  <2>3. /\ certs' \in [Accounts -> SUBSET [value : Prints, nick : Nicknames \cup {None}]]
        /\ \A b \in Accounts : \A d \in certs'[b] : d \in certs[b] \/ (d = e /\ b = a)
    BY <1>2, <1>3, <2>1, <2>2
  <2>4. \A b \in Accounts : \A d \in certs'[b] : d.nick # None => Owner[d.nick] = b
    BY <1>3, <2>1, <2>2, <2>3
  <2> QED BY <1>1, <1>3, <2>1, <2>3, <2>4, EditStep
<1>7. ASSUME NEW f \in Prints, R!CertDel(s, f) PROVE AllKnown'
  <2>1. /\ certs' = [certs EXCEPT ![a] = {c \in @ : c.value # f}]
        /\ UNCHANGED <<secure, hosts, ajoin, ever>>
    BY <1>7 DEF R!CertDel
  <2> HIDE DEF a
  <2>2. /\ certs' \in [Accounts -> SUBSET [value : Prints, nick : Nicknames \cup {None}]]
        /\ \A b \in Accounts : certs'[b] \subseteq certs[b]
    BY <1>2, <1>3, <2>1
  <2>3. \A b \in Accounts : \A d \in certs'[b] : d.nick # None => Owner[d.nick] = b
    BY <1>3, <2>2
  <2> QED BY <1>1, <1>3, <2>1, <2>2, <2>3, EditStep
<1>8. ASSUME NEW c \in Channels, R!AjoinAdd(s, c) \/ R!AjoinDel(s, c) PROVE AllKnown'
  <2>1. /\ UNCHANGED <<secure, hosts, certs>>
        /\ \/ ajoin' = [ajoin EXCEPT ![a] = @ \cup {c}] /\ ever' = ever \cup {<<a, c>>}
           \/ ajoin' = [ajoin EXCEPT ![a] = @ \ {c}] /\ ever' = ever
    BY <1>8 DEF R!AjoinAdd, R!AjoinDel
  <2> HIDE DEF a
  <2>2. /\ ajoin' \in [Accounts -> SUBSET Channels]
        /\ ever \subseteq ever' /\ ever' \subseteq Accounts \X Channels
    BY <1>2, <1>3, <2>1
  <2>3. CASE ajoin' = [ajoin EXCEPT ![a] = @ \cup {c}] /\ ever' = ever \cup {<<a, c>>}
    <3>1. \A b \in Accounts : \A d \in ajoin'[b] : d \in ajoin[b] \/ (b = a /\ d = c)
      BY <1>2, <1>3, <2>3
    <3>2. \A b \in Accounts : \A d \in ajoin'[b] : <<b, d>> \in ever'
      BY <1>3, <2>3, <3>1
    <3> QED BY <1>1, <1>3, <2>1, <2>2, <3>2, EditStep
  <2>4. CASE ajoin' = [ajoin EXCEPT ![a] = @ \ {c}] /\ ever' = ever
    <3>1. \A b \in Accounts : ajoin'[b] \subseteq ajoin[b]
      BY <1>2, <1>3, <2>4
    <3>2. \A b \in Accounts : \A d \in ajoin'[b] : <<b, d>> \in ever'
      BY <1>3, <2>4, <3>1
    <3> QED BY <1>1, <1>3, <2>1, <2>2, <3>2, EditStep
  <2> QED BY <2>1, <2>3, <2>4
<1> QED BY <1>4, <1>5, <1>6, <1>7, <1>8

LEMMA KnownNext ==
  ASSUME OwnersAreAccounts, NoneIsNothing, AllKnown, [R!Next]_R!vars
  PROVE  AllKnown'
<1>1. CASE R!Next
  <2>1. ASSUME NEW s \in Sessions, R!Quit(s) PROVE AllKnown'
    BY <2>1, QuitStep
  <2>2. ASSUME NEW s \in Sessions, NEW on \in BOOLEAN, R!Svsmode(s, on) PROVE AllKnown'
    BY <2>2, SvsmodeStep
  <2>3. ASSUME NEW s \in Sessions, NEW n \in Nicknames, R!NickChange(s, n) PROVE AllKnown'
    BY <2>3, NickChangeStep
  <2>4. ASSUME NEW s \in Sessions, NEW n \in Nicknames, NEW b \in BOOLEAN,
               R!Identify(s, n, b) \/ R!Regain(s, n)
        PROVE  AllKnown'
    BY <2>4, IdentifyStep
  <2>5. ASSUME NEW s \in Sessions, NEW n \in Nicknames, NEW b \in BOOLEAN, R!NewUser(s, n, b)
        PROVE  AllKnown'
    BY <2>5, NewUserStep
  <2>6. ASSUME NEW s \in Sessions, NEW f \in Prints, R!Certfp(s, f) PROVE AllKnown'
    BY <2>6, CertfpStep
  <2>7. ASSUME NEW user \in Nicknames, NEW n \in Nicknames, NEW f \in Prints \cup {None},
               R!AuthRequested(user, n, f)
        PROVE  AllKnown'
    BY <2>7, AuthStep
  <2>8. ASSUME NEW s \in Sessions,
               \/ \E on \in BOOLEAN : R!SetSecure(s, on)
               \/ \E h \in Hosts : R!AccessAdd(s, h) \/ R!AccessDel(s, h)
               \/ \E f \in Prints : R!CertDel(s, f)
                                    \/ \E n \in Nicknames \cup {None} : R!CertAdd(s, f, n)
               \/ \E c \in Channels : R!AjoinAdd(s, c) \/ R!AjoinDel(s, c)
        PROVE  AllKnown'
    BY <2>8, EditSteps
  <2> QED BY <1>1, <2>1, <2>2, <2>3, <2>4, <2>5, <2>6, <2>7, <2>8 DEF R!Next
<1>2. CASE UNCHANGED R!vars
  BY <1>2 DEF R!vars, AllKnown, KnownAs, R!TypeOK
<1> QED BY <1>1, <1>2

\* Nobody acts for an account, nor is spared from losing its nickname, without
\* what recognises them, and STATUS says no more than that; whatever lists and
\* certificates match, and however servers introduce, vouch for and unset users.
\* (ns_on_newuser, ns_on_nick_change, ns_on_certfp, ns_on_auth_requested,
\* m_identify, m_regain, m_svsmode and the commands that edit an account's lists)
THEOREM RecognitionNeedsGrounds ==
  ASSUME OwnersAreAccounts, NoneIsNothing
  PROVE  R!Spec => []R!RecognisedRightly
<1>1. R!Init => AllKnown
  BY KnownInit
<1>2. AllKnown /\ [R!Next]_R!vars => AllKnown'
  BY KnownNext
<1>3. AllKnown => R!RecognisedRightly
  BY KnownMeans
<1> QED BY <1>1, <1>2, <1>3, PTL DEF R!Spec

-----------------------------------------------------------------------------
(***************************************************************************)
(* Profile                                                                 *)
(***************************************************************************)

\* Every nickname is of an account or unregistered, and NULL is no account.
OwnedAreSaved == Owned \in [Worn -> Saved \cup {Unset}] /\ Unset \notin Saved

Texts == Cloaks \cup {Unset, Default, Bare}
Rows == [verified : BOOLEAN, cloakOn : BOOLEAN, cloak : Texts, lastHost : Texts]
Copies == [acct : Saved, verified : BOOLEAN, cloakOn : BOOLEAN, cloak : Texts]

Profiles ==
  /\ rows \in [Saved -> Rows] /\ copies \in [Copied -> Copies \cup {F!NoCopy}]
  /\ worn \in [Copied -> Worn] /\ host \in [Copied -> Texts]

\* What a step may do to the copy of s.
TakesRow(s) ==
  F!In(s) /\ copies'[s] # F!NoCopy =>
    \A f \in F!Fields : copies'[s].acct = copies[s].acct /\ copies'[s][f] # copies[s][f]
                          => copies'[s][f] = rows'[copies[s].acct][f]

Follows == Profiles' /\ \A s \in Copied : TakesRow(s)

\* The fields of a row that copies have.
SameFields(r, q) == r.verified = q.verified /\ r.cloakOn = q.cloakOn /\ r.cloak = q.cloak

LEMMA ReadIs ==
  ASSUME Profiles, NEW a \in Saved
  PROVE  F!Read(a) \in Copies /\ F!Read(a).acct = a /\ SameFields(F!Read(a), rows[a])
<1>1. rows[a] \in Rows
  BY DEF Profiles
<1> QED BY <1>1 DEF F!Read, Rows, Copies, SameFields

LEMMA CloakedIs ==
  ASSUME NEW c \in Copies, NEW h \in Texts PROVE F!Cloaked(c, h) \in Texts
BY DEF F!Cloaked, Copies, Texts

LEMMA InIs == ASSUME Profiles, NEW s \in Copied, F!In(s) PROVE copies[s] \in Copies
BY DEF Profiles, F!In

\* identify_user
LEMMA IdentifyUserSaves ==
  ASSUME Profiles, NEW s \in Copied, NEW c \in Copies, F!IdentifyUser(s, c)
  PROVE  /\ copies' = [copies EXCEPT ![s] = c] /\ rows' \in [Saved -> Rows] /\ host' \in [Copied -> Texts]
         /\ \A a \in Saved : SameFields(rows'[a], rows[a])
<1>1. copies' = [copies EXCEPT ![s] = c] /\ host' = [host EXCEPT ![s] = F!Cloaked(c, host[s])]
  BY DEF F!IdentifyUser
<1>2. F!Cloaked(c, host[s]) \in Texts
  BY CloakedIs DEF Profiles
<1>3. host' \in [Copied -> Texts] /\ host'[s] \in Texts
  BY <1>1, <1>2 DEF Profiles
<1>4. rows' = [rows EXCEPT ![c.acct].lastHost = host'[s]] /\ c.acct \in Saved
  BY DEF F!IdentifyUser, Copies
<1> DEFINE r == [rows[c.acct] EXCEPT !.lastHost = host'[s]]
<1>5. r \in Rows /\ SameFields(r, rows[c.acct])
  BY <1>3, <1>4 DEF Profiles, Rows, SameFields
<1>6. rows' = [rows EXCEPT ![c.acct] = r]
  BY <1>4
<1> HIDE DEF r
<1>7. rows' \in [Saved -> Rows] /\ \A a \in Saved : SameFields(rows'[a], rows[a])
  BY <1>4, <1>5, <1>6 DEF Profiles, SameFields
<1> QED BY <1>1, <1>3, <1>7

\* Copies that are read, dropped or left alone take nothing but rows.
LEMMA ReadsFollow ==
  ASSUME Profiles, Profiles', \A a \in Saved : SameFields(rows'[a], rows[a]),
         \A s \in Copied : \/ copies'[s] = copies[s] \/ copies'[s] = F!NoCopy
                           \/ \E a \in Saved : copies'[s] = F!Read(a)
  PROVE  Follows
<1> SUFFICES ASSUME NEW s \in Copied, F!In(s), copies'[s] # F!NoCopy, NEW f \in F!Fields,
                    copies'[s].acct = copies[s].acct, copies'[s][f] # copies[s][f]
             PROVE  copies'[s][f] = rows'[copies[s].acct][f]
  BY DEF Follows, TakesRow
<1>1. PICK a \in Saved : copies'[s] = F!Read(a)
  OBVIOUS
<1>2. F!Read(a).acct = a /\ SameFields(F!Read(a), rows[a])
  BY ReadIs
<1>3. f \in {"verified", "cloakOn", "cloak"}
  BY DEF F!Fields
<1> QED BY <1>1, <1>2, <1>3 DEF SameFields

\* The setters: one field of the row and of the copy it was given.
LEMMA SetFollows ==
  ASSUME Profiles, NEW s \in Copied, F!In(s), NEW ok \in BOOLEAN,
         \/ \E on \in BOOLEAN : F!Set(s, "cloakOn", on, ok)
         \/ \E v \in Cloaks \cup {Unset} : F!Set(s, "cloak", v, ok)
  PROVE  /\ rows' \in [Saved -> Rows] /\ copies' \in [Copied -> Copies \cup {F!NoCopy}]
         /\ copies'[s] \in Copies
         /\ \A t \in Copied : TakesRow(t)
<1> DEFINE a == copies[s].acct
<1>1. copies[s] \in Copies /\ a \in Saved /\ rows[a] \in Rows
  BY InIs DEF Copies, Profiles
<1>2. ASSUME NEW r \in Rows, NEW c \in Copies, c.acct = a,
             rows' = [rows EXCEPT ![a] = r], copies' = [copies EXCEPT ![s] = c],
             \A f \in F!Fields : c[f] = copies[s][f] \/ c[f] = r[f]
      PROVE  /\ rows' \in [Saved -> Rows] /\ copies' \in [Copied -> Copies \cup {F!NoCopy}]
             /\ copies'[s] \in Copies
             /\ \A t \in Copied : TakesRow(t)
  <2> HIDE DEF a
  <2>1. /\ rows' \in [Saved -> Rows] /\ copies' \in [Copied -> Copies \cup {F!NoCopy}]
        /\ copies'[s] = c /\ rows'[a] = r
        /\ \A t \in Copied : t # s => copies'[t] = copies[t]
    BY <1>1, <1>2 DEF Profiles
  <2>2. ASSUME NEW t \in Copied PROVE TakesRow(t)
    BY <2>1, <1>2 DEF TakesRow, a
  <2> QED BY <2>1, <2>2, <1>2
<1>3. ASSUME NEW on \in BOOLEAN, F!Set(s, "cloakOn", on, ok)
      PROVE  /\ rows' \in [Saved -> Rows] /\ copies' \in [Copied -> Copies \cup {F!NoCopy}]
             /\ copies'[s] \in Copies
             /\ \A t \in Copied : TakesRow(t)
  <2> DEFINE r == [rows[a] EXCEPT !.cloakOn = IF ok THEN on ELSE @]
             c == [copies[s] EXCEPT !.cloakOn = IF ok THEN on ELSE @]
  <2>1. r \in Rows /\ c \in Copies /\ c.acct = a
    BY <1>1 DEF Rows, Copies
  <2>2. \A f \in F!Fields : c[f] = copies[s][f] \/ c[f] = r[f]
    BY <1>1 DEF F!Fields, Rows, Copies
  <2>3. rows' = [rows EXCEPT ![a] = r] /\ copies' = [copies EXCEPT ![s] = c]
    BY <1>3, <1>1 DEF F!Set, Profiles
  <2> HIDE DEF a, r, c
  <2> QED BY <2>1, <2>2, <2>3, <1>2
<1>4. ASSUME NEW v \in Cloaks \cup {Unset}, F!Set(s, "cloak", v, ok)
      PROVE  /\ rows' \in [Saved -> Rows] /\ copies' \in [Copied -> Copies \cup {F!NoCopy}]
             /\ copies'[s] \in Copies
             /\ \A t \in Copied : TakesRow(t)
  <2> DEFINE r == [rows[a] EXCEPT !.cloak = IF ok THEN v ELSE @]
             c == [copies[s] EXCEPT !.cloak = IF ok THEN v ELSE @]
  <2>1. r \in Rows /\ c \in Copies /\ c.acct = a
    BY <1>1 DEF Rows, Copies, Texts
  <2>2. \A f \in F!Fields : c[f] = copies[s][f] \/ c[f] = r[f]
    BY <1>1 DEF F!Fields, Rows, Copies
  <2>3. rows' = [rows EXCEPT ![a] = r] /\ copies' = [copies EXCEPT ![s] = c]
    BY <1>4, <1>1 DEF F!Set, Profiles
  <2> HIDE DEF a, r, c
  <2> QED BY <2>1, <2>2, <2>3, <1>2
<1> QED BY <1>3, <1>4

LEMMA ProfileInit == F!Init => Profiles
<1> SUFFICES ASSUME F!Init PROVE Profiles
  OBVIOUS
<1>1. F!NewRow \in Rows
  BY DEF F!NewRow, Rows, Texts
<1>2. rows \in [Saved -> Rows] /\ copies \in [Copied -> Copies \cup {F!NoCopy}]
  BY <1>1 DEF F!Init
<1>3. worn \in [Copied -> Worn] /\ host \in [Copied -> Texts]
  BY DEF F!Init, Texts
<1> QED BY <1>2, <1>3 DEF Profiles

LEMMA CloakSteps ==
  ASSUME OwnedAreSaved, Profiles, NEW ok \in BOOLEAN,
         \/ \E s \in Copied, on \in BOOLEAN : F!SetCloak(s, on, ok)
         \/ \E n \in Worn, v \in Cloaks \cup {Unset} : F!CloakString(n, v, ok)
  PROVE  Follows
<1>1. ASSUME NEW s \in Copied, NEW on \in BOOLEAN, F!SetCloak(s, on, ok) PROVE Follows
  <2>1. F!In(s) /\ copies[s] \in Copies /\ worn' = worn /\ copies[s].acct \in Saved
    BY <1>1, InIs DEF F!SetCloak, F!Crash, Copies
  <2>2. CASE F!Set(s, "cloakOn", on, ok)
    <3>1. /\ rows' \in [Saved -> Rows] /\ copies' \in [Copied -> Copies \cup {F!NoCopy}]
          /\ copies'[s] \in Copies /\ \A t \in Copied : TakesRow(t)
      BY <2>1, <2>2, SetFollows
    <3>2. F!Cloaked(copies'[s], host[s]) \in Texts
      BY <3>1, CloakedIs DEF Profiles
    <3>3. host' = host \/ host' = [host EXCEPT ![s] = F!Cloaked(copies'[s], @)] \/ host' = [t \in Copied |-> host[t]]
      BY <1>1 DEF F!SetCloak, F!Crash
    <3>4. host' \in [Copied -> Texts]
      BY <3>2, <3>3 DEF Profiles
    <3> QED BY <2>1, <3>1, <3>4 DEF Follows, Profiles
  <2>3. CASE F!Crash /\ rows' = [rows EXCEPT ![copies[s].acct].cloakOn = TRUE]
    <3> DEFINE a == copies[s].acct
               r == [rows[a] EXCEPT !.cloakOn = TRUE]
    <3>1. r \in Rows
      BY <2>1 DEF Profiles, Rows
    <3>2. rows' = [rows EXCEPT ![a] = r] /\ a \in Saved
      BY <2>1, <2>3
    <3> HIDE DEF a, r
    <3>3. rows' \in [Saved -> Rows]
      BY <3>1, <3>2 DEF Profiles
    <3>4. copies' = [t \in Copied |-> F!NoCopy] /\ host' = host
      BY <2>3 DEF F!Crash
    <3>5. Profiles'
      BY <2>1, <3>3, <3>4 DEF Profiles
    <3> QED BY <3>4, <3>5 DEF Follows, TakesRow
  <2> QED BY <1>1, <2>2, <2>3 DEF F!SetCloak
<1>2. ASSUME NEW n \in Worn, NEW v \in Cloaks \cup {Unset}, F!CloakString(n, v, ok) PROVE Follows
  <2>1. worn' = worn
    BY <1>2 DEF F!CloakString
  <2>2. CASE F!Wearer(n) = {}
    <3> DEFINE a == Owned[n]
               r == [rows[a] EXCEPT !.cloak = IF ok THEN v ELSE @]
    <3>1. a \in Saved
      BY <1>2, <2>2 DEF F!CloakString, OwnedAreSaved
    <3>2. r \in Rows
      BY <3>1 DEF Profiles, Rows, Texts
    <3>3. rows' = [rows EXCEPT ![a] = r] /\ copies' = copies /\ host' = host
      BY <1>2, <2>2, <3>1 DEF F!CloakString, Profiles
    <3> HIDE DEF a, r
    <3>4. rows' \in [Saved -> Rows]
      BY <3>1, <3>2, <3>3 DEF Profiles
    <3> QED BY <2>1, <3>3, <3>4 DEF Follows, Profiles, TakesRow
  <2>3. CASE F!Wearer(n) # {}
    <3>1. PICK s \in F!Wearer(n) :
            /\ F!Set(s, "cloak", v, ok)
            /\ host' = IF ok THEN [host EXCEPT ![s] = F!Cloaked(copies'[s], @)] ELSE host
      BY <1>2, <2>3 DEF F!CloakString
    <3>2. s \in Copied /\ F!In(s)
      BY DEF F!Wearer
    <3>3. /\ rows' \in [Saved -> Rows] /\ copies' \in [Copied -> Copies \cup {F!NoCopy}]
          /\ copies'[s] \in Copies /\ \A t \in Copied : TakesRow(t)
      BY <3>1, <3>2, SetFollows
    <3>4. F!Cloaked(copies'[s], host[s]) \in Texts
      BY <3>2, <3>3, CloakedIs DEF Profiles
    <3>5. host' \in [Copied -> Texts]
      BY <3>1, <3>2, <3>4 DEF Profiles
    <3> QED BY <2>1, <3>3, <3>5 DEF Follows, Profiles
  <2> QED BY <2>2, <2>3
<1> QED BY <1>1, <1>2

LEMMA SessionSteps ==
  ASSUME OwnedAreSaved, Profiles, NEW s \in Copied,
         F!Quit(s) \/ \E n \in Worn : F!Identify(s, n) \/ F!NickChange(s, n)
  PROVE  Follows
<1>1. ASSUME NEW a \in Saved, F!IdentifyUser(s, F!Read(a)), worn' \in [Copied -> Worn]
      PROVE  Follows
  <2> DEFINE c == F!Read(a)
  <2>1. c \in Copies
    BY ReadIs
  <2> HIDE DEF c
  <2>2. /\ copies' = [copies EXCEPT ![s] = c] /\ rows' \in [Saved -> Rows] /\ host' \in [Copied -> Texts]
        /\ \A b \in Saved : SameFields(rows'[b], rows[b])
    BY <1>1, <2>1, IdentifyUserSaves DEF c
  <2>3. Profiles'
    BY <1>1, <2>1, <2>2 DEF Profiles
  <2>4. \A t \in Copied : copies'[t] = copies[t] \/ copies'[t] = F!Read(a)
    BY <2>2 DEF Profiles, c
  <2> QED BY <2>2, <2>3, <2>4, ReadsFollow
<1>2. ASSUME NEW c \in Copies \cup {F!NoCopy}, copies' = [copies EXCEPT ![s] = c],
             c = F!NoCopy \/ \E a \in Saved : c = F!Read(a),
             rows' = rows, host' = host, worn' \in [Copied -> Worn]
      PROVE  Follows
  <2>1. Profiles'
    BY <1>2 DEF Profiles
  <2>2. \A a \in Saved : SameFields(rows'[a], rows[a])
    BY <1>2 DEF SameFields
  <2>3. \A t \in Copied : copies'[t] = copies[t] \/ copies'[t] = c
    BY <1>2 DEF Profiles
  <2> QED BY <1>2, <2>1, <2>2, <2>3, ReadsFollow
<1>3. ASSUME NEW n \in Worn, F!Identify(s, n) PROVE Follows
  <2>1. Owned[n] \in Saved /\ worn' \in [Copied -> Worn]
    BY <1>3 DEF F!Identify, OwnedAreSaved, Profiles
  <2>2. F!Read(Owned[n]) \in Copies
    BY <2>1, ReadIs
  <2>3. CASE n = worn[s]
    BY <1>1, <1>3, <2>1, <2>3 DEF F!Identify
  <2>4. CASE n # worn[s]
    BY <1>2, <1>3, <2>1, <2>2, <2>4 DEF F!Identify
  <2> QED BY <2>3, <2>4
<1>4. ASSUME NEW n \in Worn, F!NickChange(s, n) PROVE Follows
  <2>1. worn' \in [Copied -> Worn]
    BY <1>4 DEF F!NickChange, Profiles
  <2>2. CASE F!In(s) /\ copies[s].acct = Owned[n]
    <3>1. Owned[n] \in Saved
      BY <2>2, InIs DEF Copies
    <3> QED BY <1>1, <1>4, <2>1, <2>2, <3>1 DEF F!NickChange
  <2>3. CASE ~(F!In(s) /\ copies[s].acct = Owned[n])
    BY <1>2, <1>4, <2>1, <2>3 DEF F!NickChange
  <2> QED BY <2>2, <2>3
<1>5. ASSUME F!Quit(s) PROVE Follows
  <2>1. /\ copies' = [copies EXCEPT ![s] = F!NoCopy] /\ host' = [host EXCEPT ![s] = Bare] /\ worn' = worn
    BY <1>5 DEF F!Quit
  <2>2. rows' \in [Saved -> Rows] /\ \A a \in Saved : SameFields(rows'[a], rows[a])
    <3>1. CASE ~F!In(s)
      BY <1>5, <3>1 DEF F!Quit, Profiles, SameFields
    <3>2. CASE F!In(s)
      <4> DEFINE a == copies[s].acct
                 h == F!LastHost(s)
                 r == [rows[a] EXCEPT !.lastHost = h]
      <4>1. copies[s] \in Copies /\ a \in Saved
        BY <3>2, InIs DEF Copies
      <4>2. h \in Texts
        BY <4>1 DEF F!LastHost, Profiles, Copies
      <4>3. rows' = [rows EXCEPT ![a] = r]
        BY <1>5, <3>2 DEF F!Quit
      <4> HIDE DEF h, a
      <4>4. r \in Rows /\ SameFields(r, rows[a])
        BY <4>1, <4>2 DEF Profiles, Rows, SameFields
      <4> HIDE DEF r
      <4> QED BY <4>1, <4>3, <4>4 DEF Profiles, SameFields
    <3> QED BY <3>1, <3>2
  <2>3. Profiles'
    BY <2>1, <2>2 DEF Profiles, Texts
  <2>4. \A t \in Copied : copies'[t] = copies[t] \/ copies'[t] = F!NoCopy
    BY <2>1 DEF Profiles
  <2> QED BY <2>2, <2>3, <2>4, ReadsFollow
<1> QED BY <1>3, <1>4, <1>5

LEMMA VerifyStep ==
  ASSUME Profiles, NEW a \in Saved, NEW on \in BOOLEAN, F!Verify(a, on)
  PROVE  Follows
<1> DEFINE at == {s \in Copied : F!In(s) /\ Owned[worn[s]] = a}
           fresh == [F!Read(a) EXCEPT !.verified = on]
           r == [rows[a] EXCEPT !.verified = on]
<1>1. /\ rows' = [rows EXCEPT ![a] = r] /\ worn' = worn
      /\ copies' = [s \in Copied |-> IF s \in at THEN fresh ELSE copies[s]]
      /\ host' = [s \in Copied |-> IF s \in at /\ on THEN F!Cloaked(fresh, host[s]) ELSE host[s]]
  BY DEF F!Verify
<1>2. rows[a] \in Rows /\ r \in Rows
  BY DEF Profiles, Rows
<1>3. fresh \in Copies /\ fresh.acct = a
  BY <1>2 DEF F!Read, Rows, Copies
<1>4. \A f \in F!Fields : fresh[f] = r[f]
  BY <1>2 DEF F!Read, F!Fields, Rows
<1> HIDE DEF fresh, r, at
<1>5. \A s \in Copied : F!Cloaked(fresh, host[s]) \in Texts
  BY <1>3, CloakedIs DEF Profiles
<1>6. rows' \in [Saved -> Rows] /\ copies' \in [Copied -> Copies \cup {F!NoCopy}]
      /\ rows'[a] = r
  BY <1>1, <1>2, <1>3 DEF Profiles
<1>7. host' \in [Copied -> Texts]
  BY <1>1, <1>5 DEF Profiles
<1>8. ASSUME NEW s \in Copied PROVE TakesRow(s)
  <2>1. copies'[s] = IF s \in at THEN fresh ELSE copies[s]
    BY <1>1
  <2> QED BY <1>3, <1>4, <1>6, <2>1 DEF TakesRow
<1> QED BY <1>1, <1>6, <1>7, <1>8 DEF Follows, Profiles

\* What changes in a session's copy of its account is what the row has, for any
\* sessions, nicknames and cloaks, whichever statement fails and whoever else
\* writes the row (the setters of nickname.c, VERIFY, CLOAKSTRING, identify_user).
THEOREM CopiesFollowRows ==
  ASSUME OwnedAreSaved
  PROVE  F!Spec => F!CopyIsRow
<1>1. F!Init => Profiles
  BY ProfileInit
<1>2. Profiles /\ F!Next => Follows
  BY CloakSteps, SessionSteps, VerifyStep DEF F!Next
<1>3. Profiles /\ [F!Next]_F!vars => Profiles'
  <2>1. CASE UNCHANGED F!vars
    BY <2>1 DEF F!vars, Profiles
  <2> QED BY <1>2, <2>1 DEF Follows
<1>4. Profiles /\ [F!Next]_F!vars
        => [\A s \in Copied : F!In(s) /\ copies'[s] # F!NoCopy =>
              \A f \in F!Fields : copies'[s].acct = copies[s].acct /\ copies'[s][f] # copies[s][f]
                                    => copies'[s][f] = rows'[copies[s].acct][f]]_F!vars
  BY <1>2 DEF Follows, TakesRow
<1> QED BY <1>1, <1>3, <1>4, PTL DEF F!Spec, F!CopyIsRow

-----------------------------------------------------------------------------
(***************************************************************************)
(* Database                                                                *)
(***************************************************************************)

\* Statements are counted, and no value is one of the two words for a row that is
\* not there.
DatabaseAssumption == QUERY_COUNT \in Nat /\ "none" \notin Values /\ "gone" \notin Values

Ends(f) == Len(D!Script[f])
Nested == "nickname_forbid"

\* What every script is like: the value of an id is used by a later statement,
\* a find may skip one statement, only nickname_forbid calls, and only
\* nickname_reset_pass goes on after a failure.
Scripted(f) ==
  /\ D!Script[f] \in Seq({"id", "assert", "write", "read", "find", "late", "delete"})
  /\ \A pc \in 1 .. Ends(f) :
       /\ D!Script[f][pc] \in {"id", "assert"} => pc < Ends(f)
       /\ D!Script[f][pc] = "find" => pc = 1 /\ Ends(f) = 3 /\ f # "nickname_delete"
       /\ D!Script[f][pc] = "delete" => f = Nested
       /\ D!Script[f][pc] = "late" <=> f = "nickname_reset_pass"
  /\ Ends(f) > 0
  /\ f = Nested => Ends(f) = 3 /\ D!Script[f][1] = "find" /\ D!Script[f][2] = "delete"
                   /\ D!Script[f][3] = "write"
  /\ f = "nickname_delete" => Ends(f) = 5

LEMMA HandlersScripted == ASSUME NEW f \in D!Handlers PROVE Scripted(f)
<1> DEFINE F0 == {"nickname_register", "nickname_delete", "nickname_forbid", "nickname_link",
         "nickname_unlink", "nickname_save", "nickname_reset_pass", "group_register",
         "dbchannel_register", "dbchannel_forbid"}
<1>0. D!Handlers = F0
  BY DEF D!Handlers, D!Script
<1>1. CASE f = "nickname_register"
  <2>1. D!Script[f] = <<"id", "write", "id", "write", "assert", "write">>
    BY <1>1 DEF D!Script, D!nickname_register
  <2> QED BY <1>1, <2>1 DEF Scripted, Ends, Nested
<1>2. CASE f = "nickname_delete"
  <2>1. D!Script[f] = <<"read", "write", "write", "write", "write">>
    BY <1>2 DEF D!Script, D!nickname_delete
  <2> QED BY <1>2, <2>1 DEF Scripted, Ends, Nested
<1>3. CASE f = "nickname_forbid"
  <2>1. D!Script[f] = <<"find", "delete", "write">>
    BY <1>3 DEF D!Script, D!nickname_forbid
  <2> QED BY <1>3, <2>1 DEF Scripted, Ends, Nested
<1>4. CASE f = "nickname_link"
  <2>1. D!Script[f] = <<"write", "write", "write", "write">>
    BY <1>4 DEF D!Script, D!nickname_link
  <2> QED BY <1>4, <2>1 DEF Scripted, Ends, Nested
<1>5. CASE f = "nickname_unlink"
  <2>1. D!Script[f] = <<"write", "id", "read", "write", "write", "write">>
    BY <1>5 DEF D!Script, D!nickname_unlink
  <2> QED BY <1>5, <2>1 DEF Scripted, Ends, Nested
<1>6. CASE f = "nickname_save"
  <2>1. D!Script[f] = <<"write", "write">>
    BY <1>6 DEF D!Script, D!nickname_save
  <2> QED BY <1>6, <2>1 DEF Scripted, Ends, Nested
<1>7. CASE f = "nickname_reset_pass"
  <2>1. D!Script[f] = <<"late", "late">>
    BY <1>7 DEF D!Script, D!nickname_reset_pass
  <2> QED BY <1>7, <2>1 DEF Scripted, Ends, Nested
<1>8. CASE f \in {"group_register", "dbchannel_register"}
  <2>1. D!Script[f] = <<"write", "id", "write">>
    BY <1>8 DEF D!Script, D!group_register, D!dbchannel_register
  <2> QED BY <1>8, <2>1 DEF Scripted, Ends, Nested
<1>9. CASE f = "dbchannel_forbid"
  <2>1. D!Script[f] = <<"find", "write", "write">>
    BY <1>9 DEF D!Script, D!dbchannel_forbid
  <2> QED BY <1>9, <2>1 DEF Scripted, Ends, Nested
<1> QED BY <1>0, <1>1, <1>2, <1>3, <1>4, <1>5, <1>6, <1>7, <1>8, <1>9

-----------------------------------------------------------------------------
\* Prepared statements, and the copy of a column.

\* The id db_prepare returns next.
NextId == IF last_index = 0 THEN QUERY_COUNT ELSE last_index

Statements ==
  /\ conn \in [up : BOOLEAN, ok : BOOLEAN, armed : BOOLEAN]
  /\ last_index \in Nat /\ NextId >= QUERY_COUNT /\ handed \in Seq(Nat)
  /\ \A i \in 1 .. Len(handed) : handed[i] \in QUERY_COUNT .. (NextId - 1)
  /\ \A i, j \in 1 .. Len(handed) : handed[i] = handed[j] => i = j
  /\ conn.up => prepared = D!Builtin \cup D!Handed

ColumnCopied ==
  /\ shown \in Values /\ column \in {"none", "gone"} \cup Values
  /\ column \in {"none", "gone"} \/ unsure \/ shown = column

\* Most steps only use the session or lose it.
LEMMA SameStatements ==
  ASSUME Statements, UNCHANGED <<last_index, handed>>,
         conn' \in [up : BOOLEAN, ok : BOOLEAN, armed : BOOLEAN],
         \/ ~conn'.up
         \/ conn.up /\ prepared' = prepared
         \/ prepared' = D!Builtin \cup D!Handed
  PROVE  Statements'
<1>1. D!Handed' = D!Handed /\ D!Builtin' = D!Builtin /\ NextId' = NextId
  BY DEF D!Handed, D!Builtin, NextId
<1> QED BY <1>1 DEF Statements

LEMMA StatementsPrepare ==
  ASSUME QUERY_COUNT \in Nat, Statements, D!db_prepare
  PROVE  Statements'
<1> DEFINE id == NextId
<1>1. id \in Nat /\ id >= QUERY_COUNT /\ handed \in Seq(Nat)
  BY DEF Statements, NextId
<1>2. CASE /\ conn.up
           /\ last_index' = id + 1 /\ handed' = Append(handed, id)
           /\ prepared' = prepared \cup {id} /\ UNCHANGED conn
  <2> HIDE DEF id
  <2>1. NextId' = id + 1 /\ last_index' \in Nat
    BY <1>1, <1>2 DEF NextId
  <2>2. /\ handed' \in Seq(Nat) /\ Len(handed') = Len(handed) + 1 /\ Len(handed) \in Nat
        /\ handed'[Len(handed) + 1] = id
        /\ \A i \in 1 .. Len(handed) : handed'[i] = handed[i]
    BY <1>1, <1>2
  <2>3. \A i \in 1 .. Len(handed) : handed[i] \in QUERY_COUNT .. (id - 1) /\ handed[i] # id
    BY <1>1 DEF Statements, id
  <2> DEFINE l == Len(handed)
  <2>8. \A i \in 1 .. Len(handed') : i \in 1 .. l \/ i = l + 1
    BY <2>2
  <2> HIDE DEF l
  <2>4. ASSUME NEW i \in 1 .. Len(handed') PROVE handed'[i] \in QUERY_COUNT .. (NextId' - 1)
    <3>1. CASE i \in 1 .. l
      <4>1. handed'[i] = handed[i] /\ handed[i] \in QUERY_COUNT .. (id - 1)
        BY <2>2, <2>3, <3>1 DEF l
      <4> QED BY <1>1, <2>1, <4>1
    <3>2. CASE i = l + 1
      BY <1>1, <2>1, <2>2, <3>2 DEF l
    <3> QED BY <2>8, <3>1, <3>2
  <2>5. ASSUME NEW i \in 1 .. Len(handed'), NEW j \in 1 .. Len(handed'), handed'[i] = handed'[j]
        PROVE  i = j
    <3>1. CASE i \in 1 .. l /\ j \in 1 .. l
      <4>1. handed[i] = handed[j]
        BY <2>2, <2>5, <3>1 DEF l
      <4> QED BY <3>1, <4>1 DEF Statements, l
    <3>2. CASE i = l + 1 \/ j = l + 1
      BY <2>2, <2>3, <2>5, <2>8, <3>2 DEF l
    <3> QED BY <2>8, <3>1, <3>2
  <2>6. D!Handed' = D!Handed \cup {id}
    <3>1. DOMAIN handed = 1 .. Len(handed) /\ DOMAIN handed' = 1 .. Len(handed')
      BY <1>1, <2>2
    <3>2. DOMAIN handed' = DOMAIN handed \cup {Len(handed) + 1}
      BY <2>2, <3>1
    <3> QED BY <2>2, <3>1, <3>2 DEF D!Handed
  <2>7. prepared' = D!Builtin \cup D!Handed'
    BY <1>2, <2>6 DEF Statements
  <2> QED BY <1>1, <1>2, <2>1, <2>2, <2>4, <2>5, <2>7 DEF Statements, D!Builtin
<1>3. CASE /\ last_index' = id /\ UNCHANGED <<handed, prepared>>
           /\ conn' = [conn EXCEPT !.ok = conn.ok /\ conn.up]
  <2>1. NextId' = id /\ last_index' \in Nat
    BY <1>1, <1>3 DEF NextId
  <2>2. conn' \in [up : BOOLEAN, ok : BOOLEAN, armed : BOOLEAN] /\ conn'.up = conn.up
    BY <1>3 DEF Statements
  <2>3. D!Handed' = D!Handed
    BY <1>3 DEF D!Handed
  <2> QED BY <1>1, <1>3, <2>1, <2>2, <2>3 DEF Statements, D!Builtin
<1> QED BY <1>2, <1>3 DEF D!db_prepare, NextId

\* What the ways of a statement do to the connection.
LEMMA StatementsUsed ==
  ASSUME Statements, NEW ws, UNCHANGED <<last_index, handed>>,
         D!Done(ws) \/ D!Refused \/ D!Unsent \/ D!Unanswered(ws)
  PROVE  Statements'
<1>1. CASE D!Done(ws) \/ D!Refused
  BY <1>1, SameStatements DEF D!Done, D!Refused, Statements
<1>2. CASE D!Unsent
  <2>1. conn' = [conn EXCEPT !.ok = FALSE] /\ ~conn.up
    BY <1>2 DEF D!Unsent
  <2>2. conn' \in [up : BOOLEAN, ok : BOOLEAN, armed : BOOLEAN] /\ ~conn'.up
    BY <2>1 DEF Statements
  <2> QED BY <2>2, SameStatements
<1>3. CASE D!Unanswered(ws)
  <2>1. conn' = [conn EXCEPT !.up = FALSE, !.ok = FALSE]
    BY <1>3 DEF D!Unanswered
  <2>2. conn' \in [up : BOOLEAN, ok : BOOLEAN, armed : BOOLEAN] /\ ~conn'.up
    BY <2>1 DEF Statements
  <2> QED BY <2>2, SameStatements
<1> QED BY <1>1, <1>2, <1>3

LEMMA StatementsNext ==
  ASSUME QUERY_COUNT \in Nat, Statements, D!Next
  PROVE  Statements'
<1>1. CASE D!db_prepare
  BY <1>1, StatementsPrepare
<1>2. CASE D!Lose \/ D!consumeInput
  <2>1. /\ UNCHANGED <<last_index, handed>>
        /\ \/ conn' = [conn EXCEPT !.up = FALSE]
           \/ conn' = [conn EXCEPT !.ok = conn.up, !.armed = FALSE] /\ prepared' = prepared
    BY <1>2 DEF D!Lose, D!consumeInput, D!dynamic
  <2>2. /\ conn' \in [up : BOOLEAN, ok : BOOLEAN, armed : BOOLEAN]
        /\ ~conn'.up \/ (conn'.up = conn.up /\ prepared' = prepared)
    BY <2>1 DEF Statements
  <2> QED BY <2>1, <2>2, SameStatements
<1>3. CASE D!db_try_reconnect
  <2>1. UNCHANGED <<last_index, handed>>
    BY <1>3 DEF D!db_try_reconnect, D!dynamic
  <2>2. CASE D!pg_connect
    <3>1. /\ prepared' = D!Builtin \cup D!Handed
          /\ conn' \in [up : BOOLEAN, ok : BOOLEAN, armed : BOOLEAN]
      BY <2>2 DEF D!pg_connect
    <3> QED BY <2>1, <3>1, SameStatements
  <2>3. CASE UNCHANGED <<conn, prepared>>
    BY <2>1, <2>3, SameStatements DEF Statements
  <2> QED BY <1>3, <2>2, <2>3 DEF D!db_try_reconnect
<1>4. CASE D!db_begin_transaction \/ D!Step \/ D!db_commit_transaction \/ D!db_rollback_transaction
  <2>1. UNCHANGED <<last_index, handed>>
    BY <1>4 DEF D!db_begin_transaction, D!Step, D!db_commit_transaction,
                D!db_rollback_transaction, D!dynamic
  <2>2. \/ UNCHANGED <<conn, prepared>>
        \/ \E ws : D!Done(ws) \/ D!Refused \/ D!Unsent \/ D!Unanswered(ws)
    BY <1>4 DEF D!db_begin_transaction, D!Step, D!db_commit_transaction, D!db_rollback_transaction
  <2>3. CASE UNCHANGED <<conn, prepared>>
    BY <2>1, <2>3, SameStatements DEF Statements
  <2> QED BY <2>1, <2>2, <2>3, StatementsUsed
<1>5. ASSUME NEW v \in Values, D!Update(v) PROVE Statements'
  <2>1. /\ UNCHANGED <<last_index, handed>>
        /\ \/ UNCHANGED <<conn, prepared>>
           \/ ~conn.up /\ conn' = [conn EXCEPT !.ok = FALSE]
           \/ conn' = [conn EXCEPT !.up = FALSE, !.ok = FALSE]
    BY <1>5 DEF D!Update, D!dynamic
  <2>2. /\ conn' \in [up : BOOLEAN, ok : BOOLEAN, armed : BOOLEAN]
        /\ ~conn'.up \/ UNCHANGED <<conn, prepared>>
    BY <2>1 DEF Statements
  <2> QED BY <2>1, <2>2, SameStatements
<1>6. CASE \/ \E f \in D!Handlers : D!Start(f)
           \/ \E v \in Values : D!Prepare(v)
           \/ D!InsertRow \/ D!DropRow
  <2>1. UNCHANGED <<last_index, handed, conn, prepared>>
    BY <1>6 DEF D!Start, D!Prepare, D!InsertRow, D!DropRow, D!session, D!dynamic
  <2> QED BY <2>1, SameStatements DEF Statements
<1> QED BY <1>1, <1>2, <1>3, <1>4, <1>5, <1>6
         DEF D!Next, D!SetNickname, D!SetDBChannel, D!SetGroup

LEMMA ColumnNext ==
  ASSUME DatabaseAssumption, ColumnCopied, D!Next
  PROVE  ColumnCopied'
<1>1. ASSUME NEW v \in Values, D!Update(v) \/ D!Prepare(v) PROVE ColumnCopied'
  BY <1>1 DEF ColumnCopied, DatabaseAssumption, D!Update, D!Prepare, D!column
<1>2. CASE D!InsertRow \/ D!DropRow
  BY <1>2 DEF ColumnCopied, D!InsertRow, D!DropRow
<1>3. CASE UNCHANGED <<column, shown, unsure>>
  BY <1>3 DEF ColumnCopied
<1>4. CASE \/ D!Lose \/ D!consumeInput \/ D!db_try_reconnect \/ D!db_prepare
           \/ \E f \in D!Handlers : D!Start(f)
           \/ D!db_begin_transaction \/ D!Step \/ D!db_commit_transaction \/ D!db_rollback_transaction
  BY <1>3, <1>4 DEF D!Lose, D!consumeInput, D!db_try_reconnect, D!db_prepare, D!Start, D!column,
     D!db_begin_transaction, D!Step, D!db_commit_transaction, D!db_rollback_transaction
<1> QED BY <1>1, <1>2, <1>4 DEF D!Next, D!SetNickname, D!SetDBChannel, D!SetGroup

-----------------------------------------------------------------------------
\* Calls and their transactions.

Frames == [f : D!Handlers, pc : Nat, bad : BOOLEAN]

\* Only nickname_forbid calls another function of these, nickname_delete.
Stacked ==
  /\ call \in Seq(Frames) /\ Len(call) <= 2
  /\ Len(call) = 2 => /\ call[1].f = Nested /\ call[1].pc = 2
                      /\ call[2].f = "nickname_delete"

\* Without a connection there is no transaction, and without a transaction
\* nothing waits for its COMMIT.
Sessioned ==
  /\ conn \in [up : BOOLEAN, ok : BOOLEAN, armed : BOOLEAN] /\ (conn.up => conn.ok)
  /\ tx \in {"idle", "open", "aborted"} /\ broken \in BOOLEAN
  /\ ~conn.up => tx = "idle"
  /\ tx # "open" => unwritten = {}
  /\ call = <<>> => tx = "idle"

\* Where the writes of a call are while its connection holds: the frame r, which
\* another one has called if "deep", with the transaction x that waits for w,
\* the kept writes k and the done ones d.
Kept(r, deep, x, w, k, d) ==
  /\ k \subseteq d
  /\ x = "open" => w = d /\ k = {}
  /\ x = "aborted" => k = {}
  /\ r.bad => x # "open"
  /\ x = "aborted" /\ ~r.bad => r.f # "nickname_reset_pass" /\ r.pc \in 1 .. Ends(r.f)
  /\ r.f # Nested =>
       /\ k = {} /\ \A y \in d : y[1] = r.f
       /\ r.pc = 0 => d = {} /\ (x = IF deep THEN "open" ELSE "idle") /\ ~r.bad
       /\ r.pc > 0 /\ x = "idle" => r.bad /\ r.pc > Ends(r.f)
  /\ r.f = Nested =>
       /\ ~deep
       /\ D!Inner(k) \in {{}, D!Inner(d)} /\ \A y \in d : y[1] \in {Nested, "nickname_delete"}
       /\ r.pc = 0 => d = {} /\ x = "idle" /\ ~r.bad
       /\ r.pc \in {1, 2} => d = {} /\ x = "open" /\ ~r.bad

\* CallsAreWhole, of a call that has returned.
Whole(t, k, d) ==
  CASE Nested \in {y[1] : y \in d} \/ D!Inner(d) # {} -> D!Inner(k) \in {{}, D!Inner(d)}
    [] "nickname_reset_pass" \in {y[1] : y \in d} -> k \in {{}, d} /\ (t = "no" => k = {})
    [] OTHER -> k = IF t = "yes" THEN d ELSE {}

Calls ==
  /\ Stacked /\ Sessioned
  /\ ~broken /\ call # <<>> =>
       /\ (D!Top.pc > 0 \/ Len(call) = 2) => conn.up
       /\ Kept(D!Top, Len(call) = 2, tx, unwritten, kept, done)
  /\ ~broken /\ call = <<>> /\ told # "none" => Whole(told, kept, done)

LEMMA CallsMean ==
  ASSUME DatabaseAssumption, Calls, Statements, ColumnCopied
  PROVE  D!TransactionsHold
<1>1. D!CallsAreWhole
  BY DEF Calls, Sessioned, D!CallsAreWhole, Whole, Nested
<1>2. D!StatementsStayPrepared
  <2>1. DOMAIN handed = 1 .. Len(handed)
    BY DEF Statements
  <2>2. D!Handed \cap D!Builtin = {}
    <3>1. \A i \in DOMAIN handed : handed[i] \in Nat /\ handed[i] >= QUERY_COUNT
      BY <2>1 DEF Statements, DatabaseAssumption, NextId
    <3>2. \A n \in D!Builtin : n < QUERY_COUNT
      BY DEF D!Builtin, DatabaseAssumption
    <3> QED BY <3>1, <3>2 DEF D!Handed, DatabaseAssumption
  <2> QED BY <2>1, <2>2 DEF D!StatementsStayPrepared, Statements
<1>3. D!CopiesAgree
  BY DEF D!CopiesAgree, ColumnCopied
<1> QED BY <1>1, <1>2, <1>3 DEF D!TransactionsHold

\* A statement that is executed.
LEMMA DoneKept ==
  ASSUME NEW r \in Frames, NEW deep \in BOOLEAN, NEW x \in {"idle", "open"}, NEW w, NEW k, NEW d,
         Kept(r, deep, x, w, k, d), x # "open" => w = {},
         r.pc \in 1 .. Ends(r.f), NEW ws \in SUBSET {<<r.f, r.pc>>},
         NEW q \in Frames, q.f = r.f, q.bad = r.bad, q.pc > r.pc,
         r.f = Nested /\ r.pc = 1 => ws = {} /\ q.pc \in {2, 3},
         r.f = Nested => r.pc # 2
  PROVE  Kept(q, deep, x, IF x = "idle" THEN w ELSE w \cup ws,
              IF x = "idle" THEN k \cup ws ELSE k, d \cup ws)
<1>1. r.pc \in Nat /\ Scripted(r.f) /\ Ends(r.f) \in Nat /\ q.pc \in Nat
  <2>1. r.f \in D!Handlers /\ r.pc \in Nat /\ q.pc \in Nat
    BY DEF Frames
  <2> QED BY <2>1, HandlersScripted DEF Scripted, Ends
<1>2. CASE r.f # Nested
  <2>1. x = "open"
    BY <1>1, <1>2 DEF Kept
  <2>2. \A y \in d \cup ws : y[1] = r.f
    BY <1>2 DEF Kept
  <2>3. w = d /\ k = {} /\ ~r.bad
    BY <2>1 DEF Kept
  <2> QED BY <1>1, <1>2, <2>1, <2>2, <2>3 DEF Kept
<1>3. CASE r.f = Nested
  <2>1. D!Inner(ws) = {}
    BY <1>3 DEF D!Inner, Nested
  <2>2. D!Inner(d \cup ws) = D!Inner(d) /\ D!Inner(k \cup ws) = D!Inner(k)
    BY <2>1 DEF D!Inner
  <2>3. \A y \in d \cup ws : y[1] \in {Nested, "nickname_delete"}
    BY <1>3 DEF Kept
  <2>4. CASE r.pc = 1
    BY <1>1, <1>3, <2>4 DEF Kept
  <2>5. CASE r.pc # 1
    <3>1. r.pc > 2 /\ q.pc > 3 /\ Ends(r.f) = 3
      BY <1>1, <1>3, <2>5 DEF Scripted
    <3>2. CASE x = "idle"
      BY <1>3, <2>2, <2>3, <3>1, <3>2 DEF Kept
    <3>3. CASE x = "open"
      BY <1>3, <2>2, <2>3, <3>1, <3>3 DEF Kept
    <3> QED BY <3>2, <3>3
  <2> QED BY <2>4, <2>5
<1> QED BY <1>2, <1>3

\* A statement that is refused, and goes to failure or on.
LEMMA RefusedKept ==
  ASSUME NEW r \in Frames, NEW deep \in BOOLEAN, NEW x \in {"idle", "open", "aborted"},
         NEW w, NEW k, NEW d,
         Kept(r, deep, x, w, k, d), r.pc \in 1 .. Ends(r.f),
         NEW q \in Frames, q.f = r.f,
         \/ q.pc = Ends(r.f) + 1 /\ q.bad
         \/ q.pc \in (r.pc + 1) .. Ends(r.f) /\ q.bad = r.bad /\ r.f # "nickname_reset_pass"
            /\ (r.f = Nested => q.pc = 3)
         \/ r.f = "nickname_reset_pass" /\ q.pc = r.pc + 1 /\ q.bad,
         r.f = Nested => r.pc # 2
  PROVE  Kept(q, deep, IF x = "idle" THEN "idle" ELSE "aborted", {}, k, d)
<1>1. r.pc \in Nat /\ Scripted(r.f) /\ Ends(r.f) \in Nat /\ q.pc \in Nat
  <2>1. r.f \in D!Handlers /\ r.pc \in Nat /\ q.pc \in Nat
    BY DEF Frames
  <2> QED BY <2>1, HandlersScripted DEF Scripted, Ends
<1>2. CASE r.f # Nested
  <2>1. x # "idle"
    BY <1>1, <1>2 DEF Kept
  <2> QED BY <1>1, <1>2, <2>1 DEF Kept, Nested
<1>3. CASE r.f = Nested
  <2>1. Ends(r.f) = 3 /\ r.pc \in {1, 3} /\ q.pc \in {3, 4}
    BY <1>1, <1>3 DEF Scripted, Nested
  <2>2. r.f # "nickname_reset_pass"
    BY <1>3 DEF Nested
  <2>3. r.pc = 1 => x = "open"
    BY <1>3 DEF Kept
  <2>4. q.pc = 4 => q.bad
    BY <2>1, <2>2
  <2> QED BY <1>3, <2>1, <2>2, <2>3, <2>4 DEF Kept
<1> QED BY <1>2, <1>3

LEMMA TopIs ==
  ASSUME Stacked, call # <<>>
  PROVE  /\ Len(call) \in {1, 2} /\ D!Top \in Frames /\ D!Top = call[Len(call)]
         /\ DOMAIN call = 1 .. Len(call)
         /\ Len(call) = 2 => D!Top.f = "nickname_delete"
<1>1. call \in Seq(Frames) /\ Len(call) <= 2
  BY DEF Stacked
<1>2. Len(call) \in Nat /\ Len(call) # 0 /\ DOMAIN call = 1 .. Len(call)
  BY <1>1
<1> QED BY <1>1, <1>2 DEF D!Top, Stacked

\* Go and Fail: another frame of the same function.
LEMMA FrameSet ==
  ASSUME Stacked, call # <<>>, NEW r \in Frames, r.f = D!Top.f,
         call' = [call EXCEPT ![Len(call)] = r]
  PROVE  Stacked' /\ Len(call') = Len(call) /\ D!Top' = r /\ call' # <<>>
<1>1. Len(call) \in {1, 2} /\ DOMAIN call = 1 .. Len(call) /\ call \in Seq(Frames)
  BY TopIs DEF Stacked
<1>2. call' \in Seq(Frames) /\ Len(call') = Len(call) /\ call'[Len(call)] = r
  BY <1>1
<1>3. Len(call) = 2 => call'[1] = call[1]
  BY <1>1
<1> QED BY <1>1, <1>2, <1>3 DEF Stacked, D!Top

LEMMA Going ==
  ASSUME Stacked, call # <<>>, NEW pc \in Nat, D!Go(pc)
  PROVE  \E r \in Frames : /\ r.f = D!Top.f /\ r.pc = pc /\ r.bad = D!Top.bad
                           /\ call' = [call EXCEPT ![Len(call)] = r]
<1> DEFINE r == [D!Top EXCEPT !.pc = pc]
<1>1. r \in Frames /\ r.f = D!Top.f /\ r.pc = pc /\ r.bad = D!Top.bad
  BY TopIs DEF Frames
<1>2. call' = [call EXCEPT ![Len(call)] = r]
  BY DEF D!Go, D!Top
<1> QED BY <1>1, <1>2

LEMMA Failing ==
  ASSUME Stacked, call # <<>>, NEW pc \in Nat,
         call' = [call EXCEPT ![Len(call)] = [@ EXCEPT !.pc = pc, !.bad = TRUE]]
  PROVE  \E r \in Frames : /\ r.f = D!Top.f /\ r.pc = pc /\ r.bad
                           /\ call' = [call EXCEPT ![Len(call)] = r]
<1> DEFINE r == [D!Top EXCEPT !.pc = pc, !.bad = TRUE]
<1>1. r \in Frames /\ r.f = D!Top.f /\ r.pc = pc /\ r.bad
  BY TopIs DEF Frames
<1>2. call' = [call EXCEPT ![Len(call)] = r]
  BY DEF D!Top
<1> QED BY <1>1, <1>2

LEMMA OnlyFrameReplaced ==
  ASSUME NEW q \in Seq(Frames), Len(q) = 1, NEW r \in Frames, NEW x, x = [q EXCEPT ![1] = r]
  PROVE  x \in Seq(Frames) /\ Len(x) = 1 /\ x[1] = r
<1>1. 1 \in 1 .. Len(q)
  OBVIOUS
<1> HIDE DEF Frames
<1>2. /\ [q EXCEPT ![1] = r] \in Seq(Frames)
      /\ Len([q EXCEPT ![1] = r]) = Len(q)
      /\ \A j \in 1 .. Len(q) : [q EXCEPT ![1] = r][j] = IF j = 1 THEN r ELSE q[j]
  BY <1>1, SMTT(30)
<1> QED BY <1>1, <1>2

LEMMA Returning ==
  ASSUME Stacked, call # <<>>, NEW result, D!Return(result)
  PROVE  /\ Stacked'
         /\ Len(call) = 1 => call' = <<>> /\ told' = result
         /\ Len(call) = 2 => /\ told' = told /\ Len(call') = 1 /\ call' # <<>>
                             /\ D!Top'.f = Nested /\ D!Top'.pc = 3
<1>1. Len(call) \in {1, 2} /\ call \in Seq(Frames)
  BY TopIs DEF Stacked
<1>2. CASE Len(call) = 1
  <2>1. call' = <<>> /\ told' = result
    BY <1>2 DEF D!Return
  <2> QED BY <1>2, <2>1 DEF Stacked
<1>3. CASE Len(call) = 2
  <2> DEFINE r == [call[1] EXCEPT !.pc = @ + 1]
             below == SubSeq(call, 1, 1)
  <2>1. call[1] \in Frames /\ call[1].f = Nested /\ call[1].pc = 2
    BY <1>1, <1>3 DEF Stacked
  <2>2. r \in Frames /\ r.f = Nested /\ r.pc = 3
    BY <2>1 DEF Frames
  <2>3. below \in Seq(Frames) /\ Len(below) = 1 /\ below[1] = call[1]
    BY <1>1, <1>3
  <2>4. call' = [below EXCEPT ![1].pc = @ + 1] /\ told' = told
    BY <1>3 DEF D!Return
  <2> HIDE DEF below
  <2>5. call' = [below EXCEPT ![1] = r]
    BY <2>3, <2>4
  <2> HIDE DEF r
  <2>6. call' \in Seq(Frames) /\ Len(call') = 1 /\ call'[1] = r
    <3>1. below \in Seq(Frames) /\ Len(below) = 1 /\ r \in Frames
      BY <2>2, <2>3
    <3> QED BY <2>5, <3>1, OnlyFrameReplaced
  <2>7. call' # <<>>
    BY <2>6
  <2>8. D!Top' = r
    BY <2>6 DEF D!Top
  <2>9. Stacked'
    BY <2>6 DEF Stacked
  <2> QED BY <1>3, <2>2, <2>4, <2>6, <2>7, <2>8, <2>9
<1> QED BY <1>1, <1>2, <1>3

LEMMA CallsInit == D!Init => Calls
<1> SUFFICES ASSUME D!Init PROVE Calls
  OBVIOUS
<1>1. Stacked /\ call = <<>>
  BY DEF D!Init, Stacked
<1>2. Sessioned
  BY DEF D!Init, Sessioned
<1> QED BY <1>1, <1>2 DEF Calls, D!Init

\* BEGIN is sent to a session that may be gone.
LEMMA BeginStep ==
  ASSUME Calls, D!db_begin_transaction
  PROVE  Calls'
<1>1. Stacked /\ Sessioned /\ call # <<>> /\ D!Top.pc = 0 /\ D!Go(1) /\ UNCHANGED told
  BY DEF Calls, D!db_begin_transaction, D!Goes
<1>2. PICK r \in Frames : /\ r.f = D!Top.f /\ r.pc = 1 /\ r.bad = D!Top.bad
                          /\ call' = [call EXCEPT ![Len(call)] = r]
  BY <1>1, Going
<1>3. Stacked' /\ Len(call') = Len(call) /\ D!Top' = r /\ call' # <<>>
  BY <1>1, <1>2, FrameSet
<1>4. CASE /\ conn.up /\ tx' = (IF tx = "idle" THEN "open" ELSE tx)
           /\ UNCHANGED <<conn, unwritten, prepared, kept, done, broken>>
  <2>1. Sessioned'
    BY <1>1, <1>3, <1>4 DEF Sessioned
  <2>2. ASSUME ~broken PROVE Kept(r, Len(call) = 2, tx', unwritten, kept, done)
    <3>1. Kept(D!Top, Len(call) = 2, tx, unwritten, kept, done)
      BY <1>1, <2>2 DEF Calls
    <3>2. Ends(r.f) \in Nat /\ Ends(r.f) > 0
      BY HandlersScripted DEF Scripted, Ends, Frames
    <3>3. tx' = "open" /\ kept = {} /\ done = {} /\ ~r.bad /\ unwritten = {}
      BY <1>1, <1>2, <1>4, <3>1 DEF Kept, Sessioned
    <3>4. D!Inner({}) = {} /\ (r.f = Nested => Len(call) # 2)
      BY <1>2, <3>1 DEF D!Inner, Kept
    <3> QED BY <1>2, <3>2, <3>3, <3>4 DEF Kept
  <2> QED BY <1>3, <1>4, <2>1, <2>2 DEF Calls
<1>5. CASE D!Unsent
  <2>1. Sessioned'
    BY <1>1, <1>3, <1>5 DEF Sessioned, D!Unsent
  <2> QED BY <1>3, <1>5, <2>1 DEF Calls, D!Unsent
<1> QED BY <1>4, <1>5 DEF D!db_begin_transaction

\* A statement of the top function: it is executed, it fails one way or the
\* other, or it is the call of nickname_delete.
LEMMA ExecutedStep ==
  ASSUME Calls, D!Goes, NEW ws \in SUBSET {<<D!Top.f, D!Top.pc>>}, D!Done(ws), UNCHANGED told,
         D!Top.pc \in 1 .. Ends(D!Top.f), NEW pc \in Nat, D!Go(pc), pc > D!Top.pc,
         D!Top.f = Nested => D!Top.pc # 2 /\ (D!Top.pc = 1 => ws = {} /\ pc \in {2, 3})
  PROVE  Calls'
<1>1. Stacked /\ Sessioned /\ call # <<>> /\ conn.up
  BY DEF Calls, D!Goes, D!Done
<1>2. PICK r \in Frames : /\ r.f = D!Top.f /\ r.pc = pc /\ r.bad = D!Top.bad
                          /\ call' = [call EXCEPT ![Len(call)] = r]
  BY <1>1, Going
<1>3. Stacked' /\ Len(call') = Len(call) /\ D!Top' = r /\ call' # <<>> /\ D!Top \in Frames
  BY <1>1, <1>2, FrameSet, TopIs
<1>4. Sessioned'
  BY <1>1, <1>3 DEF Sessioned, D!Done
<1>5. tx \in {"idle", "open"} /\ (tx # "open" => unwritten = {})
  BY <1>1 DEF Sessioned, D!Done
<1>6. ASSUME ~broken PROVE Kept(r, Len(call) = 2, tx', unwritten', kept', done')
  <2>1. Kept(D!Top, Len(call) = 2, tx, unwritten, kept, done)
    BY <1>1, <1>6 DEF Calls
  <2>2. Kept(r, Len(call) = 2, tx, IF tx = "idle" THEN unwritten ELSE unwritten \cup ws,
             IF tx = "idle" THEN kept \cup ws ELSE kept, done \cup ws)
    BY <1>2, <1>3, <1>5, <2>1, DoneKept
  <2> QED BY <2>2 DEF D!Done
<1> QED BY <1>1, <1>3, <1>4, <1>6 DEF Calls, D!Done

LEMMA BrokenStep ==
  ASSUME Calls, D!Goes, NEW ws, D!Refused \/ D!Unsent \/ D!Unanswered(ws), UNCHANGED told,
         D!Top.pc \in 1 .. Ends(D!Top.f), D!Top.f = Nested => D!Top.pc # 2,
         NEW r \in Frames, r.f = D!Top.f, call' = [call EXCEPT ![Len(call)] = r],
         \/ r.pc = Ends(r.f) + 1 /\ r.bad
         \/ r.pc \in (D!Top.pc + 1) .. Ends(r.f) /\ r.bad = D!Top.bad /\ r.f # "nickname_reset_pass"
            /\ (r.f = Nested => r.pc = 3)
         \/ r.f = "nickname_reset_pass" /\ r.pc = D!Top.pc + 1 /\ r.bad
  PROVE  Calls'
<1>1. Stacked /\ Sessioned /\ call # <<>>
  BY DEF Calls, D!Goes
<1>2. Stacked' /\ Len(call') = Len(call) /\ D!Top' = r /\ call' # <<>> /\ D!Top \in Frames
  BY <1>1, FrameSet, TopIs
<1>3. CASE D!Refused
  <2>1. Sessioned'
    BY <1>1, <1>2, <1>3 DEF Sessioned, D!Refused
  <2>2. ASSUME ~broken PROVE Kept(r, Len(call) = 2, tx', unwritten', kept', done')
    <3>1. Kept(D!Top, Len(call) = 2, tx, unwritten, kept, done) /\ tx \in {"idle", "open", "aborted"}
      BY <1>1, <2>2 DEF Calls, Sessioned
    <3>2. Kept(r, Len(call) = 2, IF tx = "idle" THEN "idle" ELSE "aborted", {}, kept, done)
      BY <1>2, <3>1, RefusedKept
    <3> QED BY <1>3, <3>2 DEF D!Refused
  <2> QED BY <1>2, <1>3, <2>1, <2>2 DEF Calls, D!Refused
<1>4. CASE D!Unsent \/ D!Unanswered(ws)
  <2>1. Sessioned' /\ broken'
    BY <1>1, <1>2, <1>4 DEF Sessioned, D!Unsent, D!Unanswered
  <2> QED BY <1>2, <2>1 DEF Calls
<1> QED BY <1>3, <1>4

LEMMA Pushing ==
  ASSUME NEW S, NEW c \in Seq(S), Len(c) = 1, NEW e \in S, NEW t, t = Append(c, e)
  PROVE  t \in Seq(S) /\ Len(t) = 2 /\ t[1] = c[1] /\ t[2] = e
<1>1. t \in Seq(S) /\ Len(t) = Len(c) + 1
  BY AppendProperties
<1>2. \A i \in 1 .. Len(c) : t[i] = c[i]
  BY AppendProperties
<1>3. t[Len(c) + 1] = e
  BY AppendProperties
<1> QED BY <1>1, <1>2, <1>3

LEMMA CalledStep ==
  ASSUME Calls, D!Goes, D!Top.pc \in 1 .. Ends(D!Top.f), D!Top.f = Nested, D!Top.pc = 2,
         call' = Append(call, D!Frame("nickname_delete")),
         UNCHANGED <<conn, tx, unwritten, prepared, kept, done, broken, told>>
  PROVE  Calls'
<1> DEFINE r == D!Frame("nickname_delete")
<1>1. Stacked /\ Sessioned /\ call # <<>> /\ Len(call) \in {1, 2} /\ call \in Seq(Frames)
  BY TopIs DEF Calls, D!Goes, Stacked
<1>2. Len(call) = 1
  BY <1>1 DEF Stacked, Nested, D!Top
<1>3. r \in Frames /\ r.f = "nickname_delete" /\ r.pc = 0 /\ ~r.bad
  BY DEF Frames, D!Frame, D!Handlers, D!Script
<1>4. r.f # Nested
  BY <1>3 DEF Nested
<1> HIDE DEF r
<1>5. call' \in Seq(Frames) /\ Len(call') = 2 /\ call'[1] = call[1] /\ call'[2] = r
  <2>1. call' = Append(call, r)
    BY DEF r
  <2> HIDE DEF Frames
  <2> QED BY <1>1, <1>2, <1>3, <2>1, Pushing
<1>6. call' # <<>> /\ D!Top' = r
  BY <1>5 DEF D!Top
<1>7. ASSUME ~broken
      PROVE  conn.up /\ Kept(D!Top, Len(call) = 2, tx, unwritten, kept, done)
  BY <1>1, <1>7 DEF Calls
<1>8. ASSUME ~broken PROVE ~D!Top.bad /\ tx = "open" /\ done = {} /\ kept = {}
  BY <1>7, <1>8 DEF Kept
<1>9. Stacked'
  <2>1. call[1] = D!Top /\ D!Top.pc = 2
    BY <1>2 DEF D!Top
  <2> QED BY <1>3, <1>5, <2>1 DEF Stacked
<1>10. Sessioned'
  BY <1>1, <1>6 DEF Sessioned
<1>11. ASSUME ~broken PROVE Kept(r, TRUE, tx, unwritten, kept, done)
  BY <1>3, <1>4, <1>7, <1>8, <1>11 DEF Kept
<1> QED BY <1>5, <1>6, <1>7, <1>9, <1>10, <1>11 DEF Calls

LEMMA StatementStep ==
  ASSUME Calls, D!Step
  PROVE  Calls'
<1> DEFINE f == D!Top.f
           pc == D!Top.pc
           kind == D!Script[f][pc]
           ws == IF kind \in {"write", "late"} THEN {<<f, pc>>} ELSE {}
<1>1. D!Goes /\ Stacked /\ call # <<>> /\ UNCHANGED told
  BY DEF D!Step, D!Goes, Calls
<1>2. D!Top \in Frames /\ Scripted(f)
  BY <1>1, TopIs, HandlersScripted DEF Frames
<1>3. pc \in 1 .. Ends(f) /\ pc \in Nat /\ Ends(f) \in Nat
  <2>1. D!Script[f] \in Seq({"id", "assert", "write", "read", "find", "late", "delete"}) /\ pc \in Nat
    BY <1>2 DEF Scripted, Frames
  <2>2. pc \in DOMAIN D!Script[f]
    BY DEF D!Step
  <2> HIDE DEF pc, f
  <2> QED BY <2>1, <2>2 DEF Ends
<1>4. /\ kind \in {"id", "assert"} => pc < Ends(f)
      /\ kind = "find" => pc = 1 /\ Ends(f) = 3
      /\ kind = "delete" => f = Nested
      /\ kind = "late" <=> f = "nickname_reset_pass"
  BY <1>2, <1>3 DEF Scripted
<1>5. f = Nested => /\ pc = 1 => kind = "find"
                    /\ pc = 2 => kind = "delete"
                    /\ pc = 3 => kind = "write"
                    /\ Ends(f) = 3
  BY <1>2, <1>3 DEF Scripted
<1>6. f = "nickname_delete" => f # Nested /\ Ends(f) = 5
  BY <1>2 DEF Scripted, Nested
<1>7. ws \in SUBSET {<<f, pc>>}
  OBVIOUS
<1>8. \/ /\ kind # "delete" /\ D!Done(ws)
         /\ \/ D!Go(pc + 1)
            \/ kind = "find" /\ D!Go(pc + 2)
            \/ f = "nickname_delete" /\ pc < 5 /\ D!Go(6)
      \/ kind \in {"write", "read"} /\ D!Fail
         /\ (D!Refused \/ D!Unsent \/ D!Unanswered(IF tx = "idle" THEN ws ELSE {}))
      \/ kind \in D!Ids /\ D!Go(pc + 1)
         /\ (D!Refused \/ D!Unsent \/ D!Unanswered(IF tx = "idle" THEN ws ELSE {}))
      \/ kind = "find" /\ D!Go(pc + 2)
         /\ (D!Refused \/ D!Unsent \/ D!Unanswered(IF tx = "idle" THEN ws ELSE {}))
      \/ /\ kind = "late" /\ call' = [call EXCEPT ![Len(call)] = [@ EXCEPT !.pc = pc + 1, !.bad = TRUE]]
         /\ (D!Refused \/ D!Unsent \/ D!Unanswered(IF tx = "idle" THEN ws ELSE {}))
      \/ /\ kind = "delete" /\ call' = Append(call, D!Frame("nickname_delete"))
         /\ UNCHANGED <<conn, tx, unwritten, prepared, kept, done, broken>>
  BY DEF D!Step
<1> DEFINE lost == IF tx = "idle" THEN ws ELSE {}
           Broken == D!Refused \/ D!Unsent \/ D!Unanswered(lost)
<1>9. kind = "late" \/ kind = "find" \/ kind = "delete" => kind \notin {"write", "read"} \cup D!Ids
  BY DEF D!Ids
<1>10. f = Nested => f # "nickname_reset_pass"
  BY DEF Nested
<1> HIDE DEF f, pc, kind, ws, lost
<1>11. CASE /\ kind # "delete" /\ D!Done(ws)
            /\ \/ D!Go(pc + 1)
               \/ kind = "find" /\ D!Go(pc + 2)
               \/ f = "nickname_delete" /\ pc < 5 /\ D!Go(6)
  <2>1. kind # "delete" /\ D!Done(ws)
    BY <1>11
  <2>2. f = Nested => pc # 2 /\ (pc = 1 => ws = {})
    BY <1>5, <2>1 DEF ws
  <2>3. PICK n \in Nat : /\ D!Go(n) /\ n > pc
                         /\ f = Nested /\ pc = 1 => n \in {2, 3}
    <3>1. CASE D!Go(pc + 1)
      BY <1>3, <3>1
    <3>2. CASE kind = "find" /\ D!Go(pc + 2)
      BY <1>3, <1>4, <3>2
    <3>3. CASE f = "nickname_delete" /\ pc < 5 /\ D!Go(6)
      BY <1>3, <1>6, <3>3
    <3> QED BY <1>11, <3>1, <3>2, <3>3
  <2> QED BY <1>1, <1>3, <1>7, <2>1, <2>2, <2>3, ExecutedStep DEF f, pc
<1>12. ASSUME NEW r \in Frames, r.f = f, call' = [call EXCEPT ![Len(call)] = r], Broken,
              f = Nested => pc # 2,
              \/ r.pc = Ends(f) + 1 /\ r.bad
              \/ r.pc \in (pc + 1) .. Ends(f) /\ r.bad = D!Top.bad /\ f # "nickname_reset_pass"
                 /\ (f = Nested => r.pc = 3)
              \/ f = "nickname_reset_pass" /\ r.pc = pc + 1 /\ r.bad
       PROVE  Calls'
  BY <1>1, <1>3, <1>12, BrokenStep DEF f, pc
<1>13. CASE kind \in {"write", "read"} /\ D!Fail /\ Broken
  <2>1. call' = [call EXCEPT ![Len(call)] = [@ EXCEPT !.pc = Ends(f) + 1, !.bad = TRUE]]
    BY <1>13 DEF D!Fail, Ends, f
  <2>4. Ends(f) + 1 \in Nat
    BY <1>3
  <2>2. PICK r \in Frames : /\ r.f = D!Top.f /\ r.pc = Ends(f) + 1 /\ r.bad
                            /\ call' = [call EXCEPT ![Len(call)] = r]
    BY <1>1, <2>1, <2>4, Failing
  <2>3. f = Nested => pc # 2
    BY <1>5, <1>9, <1>13
  <2> QED BY <1>12, <1>13, <2>2, <2>3 DEF f
<1>14. CASE kind \in D!Ids /\ D!Go(pc + 1) /\ Broken
  <2>1. kind \in {"id", "assert"} /\ f # Nested /\ f # "nickname_reset_pass" /\ pc + 1 \in Nat
    BY <1>3, <1>4, <1>5, <1>14 DEF D!Ids
  <2>2. PICK r \in Frames : /\ r.f = D!Top.f /\ r.pc = pc + 1 /\ r.bad = D!Top.bad
                            /\ call' = [call EXCEPT ![Len(call)] = r]
    BY <1>1, <1>14, <2>1, Going
  <2>3. r.pc \in (pc + 1) .. Ends(f)
    BY <1>3, <1>4, <2>1, <2>2
  <2> QED BY <1>12, <1>14, <2>1, <2>2, <2>3 DEF f
<1>15. CASE kind = "find" /\ D!Go(pc + 2) /\ Broken
  <2>1. pc = 1 /\ Ends(f) = 3 /\ f # "nickname_reset_pass" /\ pc + 2 \in Nat
    BY <1>3, <1>4, <1>15
  <2>2. PICK r \in Frames : /\ r.f = D!Top.f /\ r.pc = pc + 2 /\ r.bad = D!Top.bad
                            /\ call' = [call EXCEPT ![Len(call)] = r]
    BY <1>1, <1>15, <2>1, Going
  <2>3. r.pc = 3 /\ r.pc \in (pc + 1) .. Ends(f)
    BY <2>1, <2>2
  <2>4. f = Nested => pc # 2 /\ r.pc = 3
    BY <2>1, <2>3
  <2> QED BY <1>12, <1>15, <2>1, <2>2, <2>3, <2>4 DEF f
<1>16. CASE kind = "late" /\ call' = [call EXCEPT ![Len(call)] = [@ EXCEPT !.pc = pc + 1, !.bad = TRUE]]
            /\ Broken
  <2>1. pc + 1 \in Nat
    BY <1>3
  <2>2. PICK r \in Frames : /\ r.f = D!Top.f /\ r.pc = pc + 1 /\ r.bad
                            /\ call' = [call EXCEPT ![Len(call)] = r]
    BY <1>1, <1>16, <2>1, Failing
  <2>3. f = "nickname_reset_pass" /\ f # Nested
    BY <1>4, <1>10, <1>16
  <2> QED BY <1>12, <1>16, <2>2, <2>3 DEF f, pc
<1>17. CASE /\ kind = "delete" /\ call' = Append(call, D!Frame("nickname_delete"))
            /\ UNCHANGED <<conn, tx, unwritten, prepared, kept, done, broken>>
  <2>1. f = Nested /\ Ends(f) = 3
    BY <1>4, <1>5, <1>17
  <2>2. pc = 2
    BY <1>3, <1>5, <1>17, <2>1
  <2> QED BY <1>1, <1>3, <1>17, <2>1, <2>2, CalledStep DEF f, pc
<1> QED BY <1>8, <1>11, <1>13, <1>14, <1>15, <1>16, <1>17 DEF lost

\* A function other than nickname_forbid returns.
LEMMA PlainWhole ==
  ASSUME NEW t, NEW f, NEW k, NEW d, f # Nested, \A y \in d : y[1] = f,
         k \in {{}, d}, t = "no" => k = {}, t = "yes" /\ f # "nickname_reset_pass" => k = d,
         t \in {"yes", "no"}
  PROVE  Whole(t, k, d)
<1>1. Nested \notin {y[1] : y \in d}
  OBVIOUS
<1>2. D!Inner(k) \in {{}, D!Inner(d)}
  BY DEF D!Inner
<1>3. "nickname_reset_pass" \in {y[1] : y \in d} => f = "nickname_reset_pass"
  OBVIOUS
<1>4. f = "nickname_reset_pass" /\ "nickname_reset_pass" \notin {y[1] : y \in d} => d = {}
  <2> SUFFICES ASSUME f = "nickname_reset_pass", NEW y \in d
               PROVE  "nickname_reset_pass" \in {z[1] : z \in d}
    OBVIOUS
  <2> QED OBVIOUS
<1>5. t = "yes" /\ "nickname_reset_pass" \notin {y[1] : y \in d} => k = d
  BY <1>4
<1> QED BY <1>1, <1>2, <1>5 DEF Whole

\* nickname_forbid returns.
LEMMA NestedWhole ==
  ASSUME NEW t, NEW k, NEW d, k \subseteq d, D!Inner(k) \in {{}, D!Inner(d)},
         \A y \in d : y[1] \in {Nested, "nickname_delete"}
  PROVE  Whole(t, k, d)
<1>1. ASSUME Nested \notin {y[1] : y \in d}, D!Inner(d) = {} PROVE d = {}
  <2> SUFFICES ASSUME NEW y \in d PROVE FALSE
    OBVIOUS
  <2>1. y[1] # Nested
    BY <1>1
  <2>2. y \in D!Inner(d)
    BY <2>1 DEF D!Inner
  <2> QED BY <1>1, <2>2
<1>2. CASE Nested \in {y[1] : y \in d} \/ D!Inner(d) # {}
  <2>1. "nickname_reset_pass" \notin {y[1] : y \in d}
    BY DEF Nested
  <2> QED BY <1>2, <2>1 DEF Whole
<1>3. CASE ~(Nested \in {y[1] : y \in d} \/ D!Inner(d) # {})
  <2>1. d = {} /\ k = {}
    BY <1>1, <1>3
  <2>2. "nickname_reset_pass" \notin {y[1] : y \in d}
    BY <2>1
  <2> QED BY <1>3, <2>1, <2>2 DEF Whole
<1> QED BY <1>2, <1>3

\* The way back from a transaction that has ended with the session there.
LEMMA ReturnKept ==
  ASSUME Calls, call # <<>>, NEW t \in {"yes", "no"}, D!Return(t),
         tx' = "idle", unwritten' = {}, UNCHANGED <<conn, done>>, conn.up, broken' = broken,
         ~broken => /\ kept' \subseteq done
                    /\ D!Top.f # Nested => /\ kept' \in {{}, done} /\ (t = "no" => kept' = {})
                                           /\ t = "yes" /\ D!Top.f # "nickname_reset_pass" => kept' = done
                    /\ D!Top.f = Nested => D!Inner(kept') \in {{}, D!Inner(done)}
  PROVE  Calls'
<1>1. Stacked /\ Sessioned /\ Len(call) \in {1, 2}
  BY TopIs DEF Calls
<1>2. /\ Stacked'
      /\ Len(call) = 1 => call' = <<>> /\ told' = t
      /\ Len(call) = 2 => /\ told' = told /\ Len(call') = 1 /\ call' # <<>>
                          /\ D!Top'.f = Nested /\ D!Top'.pc = 3
  BY <1>1, Returning
<1>3. Sessioned'
  BY <1>1 DEF Sessioned
<1>4. ASSUME ~broken
      PROVE  /\ D!Top.f # Nested => \A y \in done : y[1] = D!Top.f
             /\ D!Top.f = Nested => \A y \in done : y[1] \in {Nested, "nickname_delete"}
  <2>1. Kept(D!Top, Len(call) = 2, tx, unwritten, kept, done)
    BY <1>1, <1>4 DEF Calls
  <2> QED BY <2>1 DEF Kept
<1>5. CASE Len(call) = 1
  <2>1. ASSUME ~broken PROVE Whole(t, kept', done')
    <3>1. CASE D!Top.f # Nested
      BY <1>4, <2>1, <3>1, PlainWhole
    <3>2. CASE D!Top.f = Nested
      BY <1>4, <2>1, <3>2, NestedWhole
    <3> QED BY <3>1, <3>2
  <2> QED BY <1>2, <1>3, <1>5, <2>1 DEF Calls
<1>6. CASE Len(call) = 2
  <2>1. D!Top.f = "nickname_delete" /\ D!Top.f # Nested
    BY <1>1, <1>6, TopIs DEF Nested
  <2>2. ASSUME ~broken PROVE Kept(D!Top', FALSE, "idle", {}, kept', done)
    <3>1. kept' \in {{}, done} /\ \A y \in done : y[1] = "nickname_delete"
      BY <1>4, <2>1, <2>2
    <3>2. D!Inner(kept') \in {{}, D!Inner(done)}
      BY <3>1 DEF D!Inner
    <3> QED BY <1>2, <1>6, <3>1, <3>2 DEF Kept
  <2> QED BY <1>2, <1>3, <1>6, <2>2 DEF Calls
<1> QED BY <1>1, <1>5, <1>6

\* COMMIT and ROLLBACK to a session that is lost, or is lost then.
LEMMA LostEnd ==
  ASSUME Calls, call # <<>>, NEW ws, D!Unsent \/ D!Unanswered(ws), Stacked'
  PROVE  Calls'
<1>1. Sessioned' /\ broken'
  BY DEF Calls, Sessioned, D!Unsent, D!Unanswered
<1> QED BY <1>1 DEF Calls

LEMMA CommitStep ==
  ASSUME Calls, D!db_commit_transaction
  PROVE  Calls'
<1> DEFINE f == D!Top.f
           result(t) == IF f = "nickname_reset_pass" THEN "yes" ELSE t
           checked == f \in {"nickname_register", "group_register"}
<1>1. /\ Stacked /\ Sessioned /\ call # <<>> /\ D!Top.pc = Ends(f) + 1 /\ ~D!Top.bad
      /\ D!Top \in Frames /\ Ends(f) \in Nat /\ Ends(f) > 0
  <2>1. Stacked /\ Sessioned /\ call # <<>> /\ D!Top.pc = Ends(f) + 1 /\ ~D!Top.bad
    BY DEF Calls, D!db_commit_transaction, D!Goes, Ends
  <2>2. D!Top \in Frames
    BY <2>1, TopIs
  <2>3. Scripted(f)
    BY <2>2, HandlersScripted DEF Frames
  <2> QED BY <2>1, <2>2, <2>3 DEF Scripted, Ends
<1>2. ASSUME ~broken
      PROVE  /\ tx # "aborted" /\ kept \subseteq done
             /\ f # Nested => tx = "open" /\ \A y \in done : y[1] = f
             /\ f = Nested => D!Inner(kept) \in {{}, D!Inner(done)}
             /\ tx = "open" => unwritten = done /\ kept = {}
             /\ tx = "idle" => unwritten = {}
  <2>1. Kept(D!Top, Len(call) = 2, tx, unwritten, kept, done)
    BY <1>1, <1>2 DEF Calls
  <2>2. tx \in {"idle", "open", "aborted"} /\ (tx # "open" => unwritten = {})
    BY <1>1 DEF Sessioned
  <2>3. D!Top.pc > 0 /\ D!Top.pc \notin 1 .. Ends(D!Top.f)
    BY <1>1
  <2>4. tx # "aborted"
    BY <1>1, <2>1, <2>3 DEF Kept
  <2>5. f # Nested => tx = "open" /\ \A y \in done : y[1] = f
    BY <1>1, <2>1, <2>2, <2>3, <2>4 DEF Kept
  <2> QED BY <2>1, <2>2, <2>4, <2>5 DEF Kept
<1>3. ASSUME NEW t \in {"yes", "no"}, D!Return(result(t)) PROVE Stacked'
  BY <1>1, <1>3, Returning
<1>4. ASSUME D!Fail
      PROVE  \E r \in Frames : /\ r.f = f /\ r.pc = Ends(f) + 1 /\ r.bad
                               /\ call' = [call EXCEPT ![Len(call)] = r]
  <2>1. call' = [call EXCEPT ![Len(call)] = [@ EXCEPT !.pc = Ends(f) + 1, !.bad = TRUE]]
    BY <1>4 DEF D!Fail, Ends
  <2>2. Ends(f) + 1 \in Nat
    BY <1>1
  <2> HIDE DEF f
  <2> QED BY <1>1, <2>1, <2>2, Failing DEF f
<1>5. \/ /\ conn.up /\ D!Return(result("yes"))
         /\ kept' = kept \cup unwritten /\ tx' = "idle" /\ unwritten' = {}
         /\ UNCHANGED <<conn, prepared, broken, done>>
      \/ /\ conn.up /\ tx = "open" /\ tx' = "idle" /\ unwritten' = {}
         /\ IF checked THEN D!Fail /\ UNCHANGED told ELSE D!Return(result("no"))
         /\ UNCHANGED <<conn, prepared, broken, kept, done>>
      \/ /\ D!Unsent \/ D!Unanswered(unwritten)
         /\ IF checked THEN D!Fail /\ UNCHANGED told ELSE D!Return(result("no"))
  BY DEF D!db_commit_transaction
<1> HIDE DEF f
<1>6. CASE /\ conn.up /\ D!Return(result("yes"))
           /\ kept' = kept \cup unwritten /\ tx' = "idle" /\ unwritten' = {}
           /\ UNCHANGED <<conn, prepared, broken, done>>
  <2>1. D!Return("yes")
    BY <1>6
  <2>2. ASSUME ~broken
        PROVE  /\ kept' \subseteq done
               /\ f # Nested => kept' = done
               /\ f = Nested => D!Inner(kept') \in {{}, D!Inner(done)}
    <3>1. kept' = kept \cup unwritten
      BY <1>6
    <3>2. CASE tx = "open"
      <4>1. kept' = done
        BY <1>2, <2>2, <3>1, <3>2
      <4> QED BY <4>1
    <3>3. CASE tx = "idle"
      <4>1. kept' = kept /\ f = Nested
        BY <1>2, <2>2, <3>1, <3>3
      <4> QED BY <1>2, <2>2, <4>1
    <3> QED BY <1>1, <1>2, <2>2, <3>2, <3>3 DEF Sessioned
  <2> QED BY <1>1, <1>6, <2>1, <2>2, ReturnKept DEF f
<1>7. CASE /\ conn.up /\ tx = "open" /\ tx' = "idle" /\ unwritten' = {}
           /\ IF checked THEN D!Fail /\ UNCHANGED told ELSE D!Return(result("no"))
           /\ UNCHANGED <<conn, prepared, broken, kept, done>>
  <2>1. CASE checked
    <3>1. PICK r \in Frames : /\ r.f = f /\ r.pc = Ends(f) + 1 /\ r.bad
                              /\ call' = [call EXCEPT ![Len(call)] = r]
      BY <1>4, <1>7, <2>1
    <3>2. Stacked' /\ Len(call') = Len(call) /\ D!Top' = r /\ call' # <<>>
      BY <1>1, <3>1, FrameSet DEF f
    <3>3. Sessioned'
      BY <1>1, <1>7, <3>2 DEF Sessioned
    <3>4. f # Nested
      BY <2>1 DEF Nested
    <3>5. ASSUME ~broken PROVE Kept(r, Len(call) = 2, "idle", {}, kept, done)
      BY <1>1, <1>2, <1>7, <3>1, <3>4, <3>5 DEF Kept
    <3> QED BY <1>7, <3>2, <3>3, <3>5 DEF Calls
  <2>2. CASE ~checked
    <3>1. D!Return(result("no")) /\ result("no") \in {"yes", "no"}
      BY <1>7, <2>2
    <3>2. ASSUME ~broken PROVE kept' = {}
      BY <1>2, <1>7, <3>2
    <3>3. D!Inner({}) = {}
      BY DEF D!Inner
    <3>4. result("no") = "yes" => f = "nickname_reset_pass"
      OBVIOUS
    <3> HIDE DEF result
    <3> QED BY <1>1, <1>7, <3>1, <3>2, <3>3, <3>4, ReturnKept DEF f
  <2> QED BY <2>1, <2>2
<1>8. CASE /\ D!Unsent \/ D!Unanswered(unwritten)
           /\ IF checked THEN D!Fail /\ UNCHANGED told ELSE D!Return(result("no"))
  <2>1. CASE checked
    <3>1. PICK r \in Frames : /\ r.f = f /\ r.pc = Ends(f) + 1 /\ r.bad
                              /\ call' = [call EXCEPT ![Len(call)] = r]
      BY <1>4, <1>8, <2>1
    <3>2. Stacked'
      BY <1>1, <3>1, FrameSet DEF f
    <3> QED BY <1>1, <1>8, <3>2, LostEnd
  <2>2. CASE ~checked
    <3>1. Stacked'
      BY <1>3, <1>8, <2>2
    <3> QED BY <1>1, <1>8, <3>1, LostEnd
  <2> QED BY <2>1, <2>2
<1> QED BY <1>5, <1>6, <1>7, <1>8

LEMMA RollbackStep ==
  ASSUME Calls, D!db_rollback_transaction
  PROVE  Calls'
<1>1. Stacked /\ Sessioned /\ call # <<>> /\ D!Return("no") /\ D!Top.bad
  BY DEF Calls, D!db_rollback_transaction, D!Goes
<1>2. Stacked'
  BY <1>1, Returning
<1>3. CASE /\ conn.up /\ tx' = "idle" /\ unwritten' = {}
           /\ UNCHANGED <<conn, prepared, broken, kept, done>>
  <2>1. ASSUME ~broken
        PROVE  /\ kept \subseteq done /\ (D!Top.f # Nested => kept = {})
               /\ D!Top.f = Nested => D!Inner(kept) \in {{}, D!Inner(done)}
    <3>1. Kept(D!Top, Len(call) = 2, tx, unwritten, kept, done)
      BY <1>1, <2>1 DEF Calls
    <3> QED BY <3>1 DEF Kept
  <2> QED BY <1>1, <1>3, <2>1, ReturnKept
<1>4. CASE D!Unsent
  BY <1>1, <1>2, <1>4, LostEnd
<1> QED BY <1>3, <1>4 DEF D!db_rollback_transaction

\* What else happens: the session is lost or comes back, a call begins, and
\* statements outside of calls.
LEMMA OtherSteps ==
  ASSUME Calls,
         \/ D!Lose \/ D!consumeInput \/ D!db_try_reconnect \/ D!db_prepare
         \/ \E f \in D!Handlers : D!Start(f)
         \/ \E v \in Values : D!Update(v) \/ D!Prepare(v)
         \/ D!InsertRow \/ D!DropRow
  PROVE  Calls'
<1>1. Stacked /\ Sessioned
  BY DEF Calls
<1>2. ASSUME UNCHANGED <<call, kept, done, told, broken, tx, unwritten>>,
             conn' \in [up : BOOLEAN, ok : BOOLEAN, armed : BOOLEAN], conn'.up => conn'.ok,
             conn'.up = conn.up
      PROVE  Calls'
  <2>1. Stacked' /\ Sessioned' /\ D!Top' = D!Top
    BY <1>1, <1>2 DEF Stacked, Sessioned, D!Top
  <2> QED BY <1>2, <2>1 DEF Calls
<1>3. ASSUME call = <<>>, tx' = "idle", unwritten' = {}, UNCHANGED <<call, kept, done, told, broken>>,
             conn' \in [up : BOOLEAN, ok : BOOLEAN, armed : BOOLEAN], conn'.up => conn'.ok
      PROVE  Calls'
  <2>1. Stacked' /\ Sessioned'
    BY <1>1, <1>3 DEF Stacked, Sessioned
  <2> QED BY <1>3, <2>1 DEF Calls
<1>4. ASSUME tx' = "idle", unwritten' = {}, UNCHANGED call, broken' = TRUE,
             conn' \in [up : BOOLEAN, ok : BOOLEAN, armed : BOOLEAN], conn'.up => conn'.ok
      PROVE  Calls'
  <2>1. Stacked' /\ Sessioned'
    BY <1>1, <1>4 DEF Stacked, Sessioned
  <2> QED BY <1>4, <2>1 DEF Calls
<1>5. CASE D!Lose
  <2>1. conn' = [conn EXCEPT !.up = FALSE] /\ tx' = "idle" /\ unwritten' = {} /\ UNCHANGED <<call, kept, done, told>>
        /\ broken' = (broken \/ call # <<>>)
    BY <1>5 DEF D!Lose
  <2>2. conn' \in [up : BOOLEAN, ok : BOOLEAN, armed : BOOLEAN] /\ ~conn'.up
    BY <1>1, <2>1 DEF Sessioned
  <2>3. CASE call = <<>> /\ broken' = broken
    BY <1>3, <2>1, <2>2, <2>3
  <2>4. CASE broken' = TRUE
    BY <1>4, <2>1, <2>2, <2>4
  <2>5. (call = <<>> /\ broken' = broken) \/ broken' = TRUE
    BY <1>1, <2>1 DEF Sessioned
  <2> QED BY <2>3, <2>4, <2>5
<1>6. CASE D!consumeInput
  <2>1. conn' = [conn EXCEPT !.ok = conn.up, !.armed = FALSE] /\ UNCHANGED <<call, kept, done, told, broken, tx, unwritten>>
    BY <1>6 DEF D!consumeInput
  <2>2. conn' \in [up : BOOLEAN, ok : BOOLEAN, armed : BOOLEAN] /\ conn'.up = conn.up /\ conn'.ok = conn.up
    BY <1>1, <2>1 DEF Sessioned
  <2> QED BY <1>2, <2>1, <2>2
<1>7. CASE D!db_try_reconnect
  <2>1. ~conn.ok /\ ~conn.up /\ tx = "idle" /\ unwritten = {} /\ UNCHANGED <<call, kept, done, told, broken>>
    BY <1>1, <1>7 DEF D!db_try_reconnect, Sessioned
  <2>2. CASE UNCHANGED <<conn, tx, unwritten>>
    BY <1>1, <1>2, <2>1, <2>2 DEF Sessioned
  <2>3. CASE D!pg_connect
    <3>1. conn' = [up |-> TRUE, ok |-> TRUE, armed |-> TRUE] /\ tx' = "idle" /\ unwritten' = {}
      BY <2>3 DEF D!pg_connect
    <3>2. Stacked' /\ D!Top' = D!Top
      BY <1>1, <2>1 DEF Stacked, D!Top
    <3>3. Sessioned'
      BY <1>1, <2>1, <3>1 DEF Sessioned
    <3> QED BY <2>1, <3>1, <3>2, <3>3 DEF Calls
  <2> QED BY <1>7, <2>2, <2>3 DEF D!db_try_reconnect
<1>8. CASE D!db_prepare
  <2>1. /\ UNCHANGED <<call, kept, done, told, broken, tx, unwritten>>
        /\ conn' = conn \/ conn' = [conn EXCEPT !.ok = conn.ok /\ conn.up]
    BY <1>8 DEF D!db_prepare
  <2>2. conn' \in [up : BOOLEAN, ok : BOOLEAN, armed : BOOLEAN] /\ conn'.up = conn.up /\ (conn'.up => conn'.ok)
    BY <1>1, <2>1 DEF Sessioned
  <2> QED BY <1>2, <2>1, <2>2
<1>9. ASSUME NEW f \in D!Handlers, D!Start(f) PROVE Calls'
  <2> DEFINE r == D!Frame(f)
  <2>1. /\ call = <<>> /\ call' = <<r>> /\ kept' = {} /\ done' = {} /\ ~broken'
        /\ UNCHANGED <<conn, tx, unwritten>>
    BY <1>9 DEF D!Start, D!session
  <2>2. r \in Frames /\ r.f = f /\ r.pc = 0 /\ ~r.bad
    BY DEF D!Frame, Frames
  <2> HIDE DEF r
  <2>3. call' \in Seq(Frames) /\ Len(call') = 1 /\ call'[1] = r
    BY <2>1, <2>2
  <2>4. Stacked' /\ D!Top' = r /\ call' # <<>>
    BY <2>3 DEF Stacked, D!Top
  <2>9. broken' \in BOOLEAN
    BY <1>9 DEF D!Start
  <2>5. Sessioned' /\ tx = "idle" /\ unwritten = {}
    BY <1>1, <2>1, <2>4, <2>9 DEF Sessioned
  <2>6. D!Inner({}) = {}
    BY DEF D!Inner
  <2>7. Kept(r, FALSE, tx, unwritten, {}, {})
    BY <2>2, <2>5, <2>6 DEF Kept
  <2>8. (Len(call') = 2) = FALSE /\ ~(r.pc > 0)
    BY <2>2, <2>3
  <2> QED BY <2>1, <2>4, <2>5, <2>7, <2>8 DEF Calls
<1>10. ASSUME NEW v \in Values, D!Update(v) PROVE Calls'
  <2>1. /\ call = <<>> /\ UNCHANGED <<call, kept, done, told, broken, tx, unwritten>>
        /\ \/ conn' = conn
           \/ ~conn.up /\ conn' = [conn EXCEPT !.ok = FALSE]
           \/ conn' = [conn EXCEPT !.up = FALSE, !.ok = FALSE]
    BY <1>10 DEF D!Update
  <2>2. conn' \in [up : BOOLEAN, ok : BOOLEAN, armed : BOOLEAN] /\ (conn'.up => conn'.ok)
    BY <1>1, <2>1 DEF Sessioned
  <2>3. tx' = "idle" /\ unwritten' = {}
    BY <1>1, <2>1 DEF Sessioned
  <2> QED BY <1>3, <2>1, <2>2, <2>3
<1>11. CASE D!InsertRow \/ D!DropRow \/ \E v \in Values : D!Prepare(v)
  <2>1. UNCHANGED <<call, kept, done, told, broken, tx, unwritten, conn>>
    BY <1>11 DEF D!InsertRow, D!DropRow, D!Prepare, D!session
  <2> QED BY <1>1, <1>2, <2>1 DEF Sessioned
<1> QED BY <1>5, <1>6, <1>7, <1>8, <1>9, <1>10, <1>11

LEMMA CallsNext == ASSUME Calls, [D!Next]_D!vars PROVE Calls'
<1>1. CASE D!Next
  BY <1>1, BeginStep, StatementStep, CommitStep, RollbackStep, OtherSteps
     DEF D!Next, D!SetNickname, D!SetDBChannel, D!SetGroup
<1>2. CASE UNCHANGED D!vars
  BY <1>2 DEF D!vars, Calls, Stacked, Sessioned, D!Top
<1> QED BY <1>1, <1>2

\* For any ids, statements of scripts and values, and whichever statement fails:
\* a function that runs a transaction leaves all of its writes or none, as it
\* says, and no transaction open; what scripts prepared stays prepared under an
\* id of its own; a struct's copy of a column is the row's. (dbm.c, pgsql.c and
\* the transactions of nickname.c, group.c and dbchannel.c)
THEOREM DatabaseHolds ==
  ASSUME DatabaseAssumption
  PROVE  D!Spec => []D!TransactionsHold
<1> DEFINE Holds == Calls /\ Statements /\ ColumnCopied
<1>1. D!Init => Holds
  <2> SUFFICES ASSUME D!Init PROVE Holds
    OBVIOUS
  <2>1. Statements
    <3>1. handed = <<>> /\ last_index = 0 /\ prepared = D!Builtin
          /\ conn = [up |-> TRUE, ok |-> TRUE, armed |-> TRUE]
      BY DEF D!Init
    <3>2. D!Handed = {} /\ handed \in Seq(Nat) /\ Len(handed) = 0
      BY <3>1 DEF D!Handed
    <3> QED BY <3>1, <3>2 DEF Statements, NextId, DatabaseAssumption
  <2>2. ColumnCopied
    BY DEF D!Init, ColumnCopied
  <2> QED BY <2>1, <2>2, CallsInit
<1>2. Holds /\ [D!Next]_D!vars => Holds'
  <2> SUFFICES ASSUME Holds, [D!Next]_D!vars PROVE Holds'
    OBVIOUS
  <2>1. Calls'
    BY CallsNext
  <2>2. CASE D!Next
    BY <2>1, <2>2, StatementsNext, ColumnNext DEF DatabaseAssumption
  <2>3. CASE UNCHANGED D!vars
    <3>1. UNCHANGED <<conn, last_index, handed, prepared, column, shown, unsure>>
      BY <2>3 DEF D!vars
    <3>2. Statements'
      BY <3>1, SameStatements DEF Statements
    <3> QED BY <2>1, <3>1, <3>2 DEF ColumnCopied
  <2> QED BY <2>2, <2>3
<1>3. Holds => D!TransactionsHold
  BY CallsMean
<1> QED BY <1>1, <1>2, <1>3, PTL DEF D!Spec

-----------------------------------------------------------------------------
(***************************************************************************)
(* Together                                                                *)
(***************************************************************************)

\* Whichever part moves, each of them behaves as its module says.
LEMMA PartsBehave == MCSpec => P!Spec /\ F!Spec /\ A!Spec /\ D!Spec /\ R!Spec
<1>1. MCInit => P!Init /\ F!Init /\ A!Init /\ D!Init /\ R!Init
  BY DEF MCInit
<1>2. [MCNext]_<<part, vars, pvars, fvars, avars, dvars, rvars>>
        => [P!Next]_P!vars /\ [F!Next]_F!vars /\ [A!Next]_A!vars
           /\ [D!Next]_D!vars /\ [R!Next]_R!vars
  BY DEF MCNext, pvars, fvars, avars, dvars, rvars, P!vars, F!vars, A!vars, D!vars, R!vars
<1> QED BY <1>1, <1>2, PTL DEF MCSpec, P!Spec, F!Spec, A!Spec, D!Spec, R!Spec

\* Passwords and mailed codes, together.
THEOREM PasswordsWork == MCSpec => []PasswordWorks
BY PartsBehave, OwnersCanIdentify, CodesWorkOnce, PTL DEF PasswordWorks

\* Access of operators and recognition of users, together.
THEOREM GroundsAreHad ==
  ASSUME OwnersAreAccounts, NoneIsNothing
  PROVE  MCSpec => []AccessHasGrounds
BY PartsBehave, AccessNeedsGrounds, RecognitionNeedsGrounds, PTL DEF AccessHasGrounds

\* The copies that sessions have of accounts, among the other parts.
THEOREM CopiesAreRows == ASSUME OwnedAreSaved PROVE MCSpec => CopyIsRow
BY PartsBehave, CopiesFollowRows, PTL DEF CopyIsRow

\* The database layer, among the other parts.
THEOREM TransactionsAreWhole == ASSUME DatabaseAssumption PROVE MCSpec => []TransactionsHold
BY PartsBehave, DatabaseHolds, PTL DEF TransactionsHold
=============================================================================
