---------------------------- MODULE Accounts_proofs ----------------------------
(***************************************************************************)
(* The tables of accounts and nicknames stay sound for any number of        *)
(* clients, nicknames and certificates, whatever copies of rows the clients *)
(* hold: a predicate on tables that every transaction keeps, whichever      *)
(* account and nickname it is given.                                        *)
(***************************************************************************)
EXTENDS Accounts, FiniteSetTheorems, TLAPS

-----------------------------------------------------------------------------
(* What is kept, of tables whose ids are la and ln at most.                *)

\* The three tables, with rows of their types; ids come from the sequences.
Rows(t, la, ln) ==
  /\ t = [accounts |-> t.accounts, nicks |-> t.nicks, certs |-> t.certs]
  /\ DOMAIN t.accounts \subseteq 1 .. la
  /\ \A a \in DOMAIN t.accounts : t.accounts[a] \in AccountRow
  /\ DOMAIN t.nicks \subseteq 1 .. ln
  /\ \A i \in DOMAIN t.nicks : t.nicks[i] \in NickRow
  /\ t.certs \subseteq CertRow

\* What the rows say of each other.
References(t) ==
  /\ \A a \in DOMAIN t.accounts : t.accounts[a].pri \in Links(t, a)
  /\ \A i \in DOMAIN t.nicks : t.nicks[i].acc \in DOMAIN t.accounts
  /\ \A i, j \in DOMAIN t.nicks : t.nicks[i].nick = t.nicks[j].nick => i = j
  /\ \A r \in t.certs :
       r.acc \in DOMAIN t.accounts /\ (r.nid # 0 => r.nid \in Links(t, r.acc))

Sound(t, la, ln) == Rows(t, la, ln) /\ References(t)

\* The rest of the state.
Copies ==
  /\ last_acc \in 0 .. MaxAccounts /\ last_nid \in 0 .. MaxNickIds
  /\ name \in [Sessions -> Names \cup {Other}]
  /\ copy \in [Sessions -> Nickname \cup {NoCopy}]
  /\ identified \subseteq Sessions /\ access \subseteq Sessions

Inv == Copies /\ Sound(tables, last_acc, last_nid)

-----------------------------------------------------------------------------
(* The statements.                                                         *)

\* A nickname that is found comes with its row and that of its account; one
\* that is not found has no row.
LEMMA FoundRow ==
  ASSUME NEW la \in 0 .. MaxAccounts, NEW ln \in 0 .. MaxNickIds,
         NEW t, Sound(t, la, ln), NEW n
  PROVE  /\ Find(t, n) = NoCopy => IdsOf(t, n) = {}
         /\ Find(t, n) # NoCopy =>
              /\ Find(t, n) \in Nickname
              /\ Find(t, n).nid \in Links(t, Find(t, n).acc)
              /\ Find(t, n).acc \in DOMAIN t.accounts
<1>1. CASE IdsOf(t, n) = {}
  BY <1>1 DEF Find
<1>2. CASE IdsOf(t, n) # {}
  <2> DEFINE i == CHOOSE j \in IdsOf(t, n) : TRUE
             a == t.nicks[i].acc
  <2>1. i \in DOMAIN t.nicks /\ t.nicks[i].nick = n
    BY <1>2 DEF IdsOf
  <2>2. a \in DOMAIN t.accounts /\ t.nicks[i] \in NickRow
    BY <2>1 DEF Sound, Rows, References
  <2>3. Find(t, n) = [acc |-> a, nid |-> i, pri |-> t.accounts[a].pri, nick |-> n]
    BY <1>2 DEF Find
  <2>4. i \in NickIds /\ a \in AccIds /\ n \in Names
    BY <2>1, <2>2, AccountsAssumption DEF Sound, Rows, NickRow, NickIds
  <2>5. t.accounts[a].pri \in NickIds
    BY <2>2 DEF Sound, Rows, AccountRow
  <2> HIDE DEF i, a
  <2>6. Find(t, n) \in Nickname
    BY <2>3, <2>4, <2>5 DEF Nickname
  <2>7. i \in Links(t, a)
    BY <2>1 DEF Links, a
  <2> QED BY <2>2, <2>3, <2>6, <2>7, NoCopyAssumption
<1> QED BY <1>1, <1>2

\* What is left when a nickname's row is deleted.
LEMMA DeletedNickRow ==
  ASSUME NEW t, t = [accounts |-> t.accounts, nicks |-> t.nicks, certs |-> t.certs], NEW i
  PROVE  LET u == DeleteNickRow(t, i) IN
         /\ u = [accounts |-> u.accounts, nicks |-> u.nicks, certs |-> u.certs]
         /\ u.accounts = t.accounts
         /\ u.nicks = Without(t.nicks, i)
         /\ u.certs = {IF r.nid = i THEN [r EXCEPT !.nid = 0] ELSE r : r \in t.certs}
<1> DEFINE u == DeleteNickRow(t, i)
           A == t.accounts
           N == Without(t.nicks, i)
           C == {IF r.nid = i THEN [r EXCEPT !.nid = 0] ELSE r : r \in t.certs}
<1>1. u = [[t EXCEPT !.nicks = N] EXCEPT !.certs = C]
  BY DEF DeleteNickRow
<1>2. t = [accounts |-> A, nicks |-> t.nicks, certs |-> t.certs]
  OBVIOUS
<1> HIDE DEF A, N, C, u
<1>3. [t EXCEPT !.nicks = N] = [accounts |-> A, nicks |-> N, certs |-> t.certs]
  BY <1>2
<1>4. u = [accounts |-> A, nicks |-> N, certs |-> C]
  BY <1>1, <1>3
<1> QED BY <1>4 DEF A, N, C, u

\* What is left when an account's row is deleted.
LEMMA DeletedAccountRow ==
  ASSUME NEW t, t = [accounts |-> t.accounts, nicks |-> t.nicks, certs |-> t.certs], NEW a
  PROVE  LET u == DeleteAccountRow(t, a) IN
         /\ u = [accounts |-> u.accounts, nicks |-> u.nicks, certs |-> u.certs]
         /\ u.accounts = Without(t.accounts, a)
         /\ u.nicks = Restrict(t.nicks, DOMAIN t.nicks \ Links(t, a))
         /\ u.certs = {r \in t.certs : r.acc # a}
<1> DEFINE u == DeleteAccountRow(t, a)
           A == Without(t.accounts, a)
           N == Restrict(t.nicks, DOMAIN t.nicks \ Links(t, a))
           C == {r \in t.certs : r.acc # a}
<1>1. u = [t EXCEPT !.accounts = A, !.nicks = N, !.certs = C]
  BY DEF DeleteAccountRow
<1> HIDE DEF A, N, C, u
<1>2. u = [accounts |-> A, nicks |-> N, certs |-> C]
  BY <1>1
<1> QED BY <1>2 DEF A, N, C, u

\* DELETE FROM nickname, once COMMIT accepts it: the nickname was nobody's primary.
LEMMA NickRowDeleted ==
  ASSUME NEW la, NEW ln, NEW t, Sound(t, la, ln),
         NEW i, Commits(DeleteNickRow(t, i))
  PROVE  Sound(DeleteNickRow(t, i), la, ln)
<1> DEFINE u == DeleteNickRow(t, i)
<1>1. /\ u = [accounts |-> u.accounts, nicks |-> u.nicks, certs |-> u.certs]
      /\ u.accounts = t.accounts
      /\ u.nicks = Without(t.nicks, i)
      /\ u.certs = {IF r.nid = i THEN [r EXCEPT !.nid = 0] ELSE r : r \in t.certs}
  BY DeletedNickRow DEF Sound, Rows
<1>2. /\ DOMAIN u.nicks = DOMAIN t.nicks \ {i}
      /\ \A j \in DOMAIN u.nicks : u.nicks[j] = t.nicks[j]
  BY <1>1 DEF Without, Restrict
<1>3. \A a : Links(u, a) = Links(t, a) \ {i}
  BY <1>2 DEF Links
<1>4. 0 \in 0 .. MaxNickIds
  BY AccountsAssumption
<1>5. ASSUME NEW r \in u.certs
      PROVE  /\ r \in CertRow /\ r.acc \in DOMAIN u.accounts
             /\ r.nid # 0 => r.nid \in Links(u, r.acc)
  <2>1. PICK q \in t.certs : r = IF q.nid = i THEN [q EXCEPT !.nid = 0] ELSE q
    BY <1>1
  <2>2. q \in CertRow /\ q.acc \in DOMAIN t.accounts /\ (q.nid # 0 => q.nid \in Links(t, q.acc))
    BY DEF Sound, Rows, References
  <2>3. CASE q.nid = i
    <3>1. r = [acc |-> q.acc, fp |-> q.fp, nid |-> 0]
      BY <2>1, <2>2, <2>3 DEF CertRow
    <3> QED BY <1>1, <1>4, <2>2, <3>1 DEF CertRow
  <2>4. CASE q.nid # i
    BY <1>1, <1>3, <2>1, <2>2, <2>4
  <2> QED BY <2>3, <2>4
<1>6. \A a \in DOMAIN u.accounts : u.accounts[a].pri \in DOMAIN u.nicks
  BY DEF Commits
<1> HIDE DEF u
<1>7. Rows(u, la, ln)
  BY <1>1, <1>2, <1>5 DEF Sound, Rows
<1>8. \A a \in DOMAIN u.accounts : u.accounts[a].pri \in Links(u, a)
  BY <1>1, <1>2, <1>3, <1>6 DEF Sound, References
<1>9. References(u)
  BY <1>1, <1>2, <1>5, <1>8 DEF Sound, References
<1> QED BY <1>7, <1>9 DEF Sound, u

\* DELETE FROM account with nothing left to ask for: its nicknames and certificates
\* go with it, and no other row refers to them.
LEMMA AccountRowDeleted ==
  ASSUME NEW la, NEW ln, NEW t, Sound(t, la, ln), NEW a
  PROVE  Sound(DeleteAccountRow(t, a), la, ln)
<1> DEFINE u == DeleteAccountRow(t, a)
<1>1. /\ u = [accounts |-> u.accounts, nicks |-> u.nicks, certs |-> u.certs]
      /\ u.accounts = Without(t.accounts, a)
      /\ u.nicks = Restrict(t.nicks, DOMAIN t.nicks \ Links(t, a))
      /\ u.certs = {r \in t.certs : r.acc # a}
  BY DeletedAccountRow DEF Sound, Rows
<1> HIDE DEF u
<1>2. /\ DOMAIN u.accounts = DOMAIN t.accounts \ {a}
      /\ \A b \in DOMAIN u.accounts : u.accounts[b] = t.accounts[b]
  BY <1>1 DEF Without, Restrict
<1>3. /\ DOMAIN u.nicks = DOMAIN t.nicks \ Links(t, a)
      /\ \A j \in DOMAIN u.nicks : u.nicks[j] = t.nicks[j]
  BY <1>1 DEF Restrict
<1>4. \A b : b # a => Links(u, b) = Links(t, b)
  BY <1>3 DEF Links
<1>5. Rows(u, la, ln)
  BY <1>1, <1>2, <1>3 DEF Sound, Rows
<1>6. \A i \in DOMAIN u.nicks : u.nicks[i].acc \in DOMAIN u.accounts
  BY <1>2, <1>3 DEF Sound, References, Links
<1>7. References(u)
  BY <1>1, <1>2, <1>3, <1>4, <1>6 DEF Sound, References
<1> QED BY <1>5, <1>7 DEF Sound, u

\* SET_NICK_PRIMARY with one of the account's own nicknames.
LEMMA PrimaryRowSet ==
  ASSUME NEW la, NEW ln, NEW t, Sound(t, la, ln),
         NEW a, NEW i \in Links(t, a), i \in NickIds, NEW u \in SetPrimaryRow(t, a, i)
  PROVE  Sound(u, la, ln) /\ u.nicks = t.nicks
<1>1. CASE a \notin DOMAIN t.accounts
  BY <1>1 DEF SetPrimaryRow
<1>2. CASE a \in DOMAIN t.accounts
  <2>1. u = [t EXCEPT !.accounts[a].pri = i]
    BY <1>2 DEF SetPrimaryRow
  <2> DEFINE A == t.accounts  N == t.nicks  C == t.certs
  <2>2. t = [accounts |-> A, nicks |-> N, certs |-> C]
    BY DEF Sound, Rows
  <2> HIDE DEF A, N, C
  <2>3. u = [accounts |-> [A EXCEPT ![a].pri = i], nicks |-> N, certs |-> C]
    BY <2>1, <2>2
  <2>4. u = [accounts |-> u.accounts, nicks |-> u.nicks, certs |-> u.certs]
        /\ u.nicks = t.nicks /\ u.certs = t.certs /\ u.accounts = [A EXCEPT ![a].pri = i]
    BY <2>2, <2>3
  <2>5. A[a] \in AccountRow
    BY <1>2 DEF Sound, Rows, A
  <2>6. [A[a] EXCEPT !.pri = i] = [pri |-> i]
    BY <2>5 DEF AccountRow
  <2>7. u.accounts = [A EXCEPT ![a] = [pri |-> i]]
    BY <2>4, <2>6
  <2>8. /\ DOMAIN u.accounts = DOMAIN t.accounts
        /\ u.accounts[a] = [pri |-> i]
        /\ \A b \in DOMAIN t.accounts \ {a} : u.accounts[b] = t.accounts[b]
    BY <1>2, <2>7 DEF A
  <2>9. \A b : Links(u, b) = Links(t, b)
    BY <2>4 DEF Links
  <2>10. \A b \in DOMAIN u.accounts : u.accounts[b] \in AccountRow
    BY <2>8 DEF Sound, Rows, AccountRow
  <2>11. Rows(u, la, ln)
    BY <2>4, <2>8, <2>10 DEF Sound, Rows
  <2>12. \A b \in DOMAIN u.accounts : u.accounts[b].pri \in Links(u, b)
    BY <2>8, <2>9 DEF Sound, References
  <2>13. References(u)
    BY <2>4, <2>8, <2>9, <2>12 DEF Sound, References
  <2> QED BY <2>4, <2>11, <2>13 DEF Sound
<1> QED BY <1>1, <1>2

\* DELETE FROM nickname and then from account, of the account c.acc whose only
\* nickname, if it has one, is c.nid; c.nid may by now be of another account.
LEMMA LastNickDeleted ==
  ASSUME NEW la, NEW ln, NEW t, Sound(t, la, ln), NEW a, NEW i, Links(t, a) \ {i} = {},
         Commits(DeleteAccountRow(DeleteNickRow(t, i), a))
  PROVE  Sound(DeleteAccountRow(DeleteNickRow(t, i), a), la, ln)
<1> DEFINE v == DeleteNickRow(t, i)
           w == DeleteAccountRow(v, a)
<1>1. /\ v = [accounts |-> v.accounts, nicks |-> v.nicks, certs |-> v.certs]
      /\ v.accounts = t.accounts
      /\ v.nicks = Without(t.nicks, i)
      /\ v.certs = {IF r.nid = i THEN [r EXCEPT !.nid = 0] ELSE r : r \in t.certs}
  BY DeletedNickRow DEF Sound, Rows
<1>2. /\ w = [accounts |-> w.accounts, nicks |-> w.nicks, certs |-> w.certs]
      /\ w.accounts = Without(v.accounts, a)
      /\ w.nicks = Restrict(v.nicks, DOMAIN v.nicks \ Links(v, a))
      /\ w.certs = {r \in v.certs : r.acc # a}
  <2> DEFINE P(y) == y = [accounts |-> y.accounts, nicks |-> y.nicks, certs |-> y.certs]
             Q(y, x) == /\ P(x)
                        /\ x.accounts = Without(y.accounts, a)
                        /\ x.nicks = Restrict(y.nicks, DOMAIN y.nicks \ Links(y, a))
                        /\ x.certs = {r \in y.certs : r.acc # a}
  <2>1. \A y : P(y) => Q(y, DeleteAccountRow(y, a))
    BY DeletedAccountRow
  <2>2. P(v)
    BY <1>1
  <2> HIDE DEF P, Q, v
  <2>3. Q(v, w)
    BY <2>1, <2>2
  <2> QED BY <2>3 DEF P, Q
<1> HIDE DEF v, w
<1>3. CASE i \in Links(t, a)
  <2> DEFINE x == DeleteAccountRow(t, a)
  <2>1. /\ x = [accounts |-> x.accounts, nicks |-> x.nicks, certs |-> x.certs]
        /\ x.accounts = Without(t.accounts, a)
        /\ x.nicks = Restrict(t.nicks, DOMAIN t.nicks \ Links(t, a))
        /\ x.certs = {r \in t.certs : r.acc # a}
    BY DeletedAccountRow DEF Sound, Rows
  <2> HIDE DEF x
  <2>2. Links(t, a) = {i} /\ Links(v, a) = {}
    BY <1>1, <1>3 DEF Links, Without, Restrict
  <2>3. w.nicks = x.nicks
    BY <1>1, <1>2, <2>1, <2>2 DEF Without, Restrict
  <2>4. i # 0
    BY <1>3 DEF Links, Sound, Rows
  <2>5. ASSUME NEW q \in t.certs PROVE q.nid = i => q.acc = a
    <3>1. q.nid # 0 => q.nid \in Links(t, q.acc)
      BY DEF Sound, References
    <3> QED BY <1>3, <2>4, <3>1 DEF Links
  <2>6. \A q \in t.certs : q \in CertRow
    BY DEF Sound, Rows
  <2>7. \A q \in t.certs : q.nid = i => [q EXCEPT !.nid = 0].acc = q.acc
    BY <2>6 DEF CertRow
  <2>8. w.certs = x.certs
    <3>1. ASSUME NEW r \in w.certs PROVE r \in x.certs
      <4>1. PICK q \in t.certs : r = IF q.nid = i THEN [q EXCEPT !.nid = 0] ELSE q
        BY <1>1, <1>2
      <4>2. r.acc # a
        BY <1>2
      <4> QED BY <2>1, <2>5, <2>7, <4>1, <4>2
    <3>2. ASSUME NEW r \in x.certs PROVE r \in w.certs
      <4>1. r \in t.certs /\ r.acc # a /\ r.nid # i
        BY <2>1, <2>5
      <4> QED BY <1>1, <1>2, <4>1
    <3> QED BY <3>1, <3>2
  <2>9. w = x
    BY <1>1, <1>2, <2>1, <2>3, <2>8
  <2> QED BY <2>9, AccountRowDeleted DEF v, w, x
<1>4. CASE i \notin Links(t, a)
  <2>1. a \notin DOMAIN t.accounts
    BY <1>4 DEF Sound, References
  <2>2. DOMAIN w.accounts = DOMAIN v.accounts
        /\ (\A b \in DOMAIN w.accounts : w.accounts[b] = v.accounts[b])
        /\ DOMAIN w.nicks \subseteq DOMAIN v.nicks
    BY <1>1, <1>2, <2>1 DEF Without, Restrict
  <2>3. Commits(v)
    BY <2>2 DEF Commits, v, w
  <2>4. Sound(v, la, ln)
    BY <2>3, NickRowDeleted DEF v
  <2> QED BY <2>4, AccountRowDeleted DEF w, v
<1> QED BY <1>3, <1>4 DEF v, w

-----------------------------------------------------------------------------
(* The transactions, for copies of any age.                                *)

\* nickname_delete, whatever row the copy c names: COMMIT refuses to leave an
\* account without its primary nickname.
LEMMA DeleteKeepsSound ==
  ASSUME NEW la, NEW ln, ln \in 0 .. MaxNickIds, NEW t, Sound(t, la, ln),
         NEW c, NEW u \in DeleteTx(t, c)
  PROVE  Sound(u, la, ln)
<1> DEFINE others == Links(t, c.acc) \ {c.nid}
<1>1. CASE c.nid # c.pri
  <2>1. u \in Commit(DeleteNickRow(t, c.nid))
    BY <1>1 DEF DeleteTx
  <2>2. u = DeleteNickRow(t, c.nid) /\ Commits(u)
    BY <2>1 DEF Commit
  <2> QED BY <2>2, NickRowDeleted
<1>2. CASE c.nid = c.pri /\ others = {}
  <2> DEFINE v == DeleteNickRow(t, c.nid)
             w == DeleteAccountRow(v, c.acc)
  <2>1. u \in Commit(w)
    BY <1>2 DEF DeleteTx
  <2>2. u = w /\ Commits(w)
    BY <2>1 DEF Commit
  <2> QED BY <1>2, <2>2, LastNickDeleted
<1>3. CASE c.nid = c.pri /\ others # {}
  <2>1. u \in UNION {Commit(DeleteNickRow(v, c.nid)) :
                       v \in UNION {SetPrimaryRow(t, c.acc, i) : i \in others}}
    BY <1>3 DEF DeleteTx
  <2>2. PICK i \in others : \E v \in SetPrimaryRow(t, c.acc, i) : u \in Commit(DeleteNickRow(v, c.nid))
    BY <2>1
  <2>3. PICK v \in SetPrimaryRow(t, c.acc, i) : u \in Commit(DeleteNickRow(v, c.nid))
    BY <2>2
  <2>4. i \in Links(t, c.acc) /\ i \in NickIds
    BY <2>2, AccountsAssumption DEF Links, Sound, Rows, NickIds
  <2>5. Sound(v, la, ln)
    BY <2>3, <2>4, PrimaryRowSet
  <2>6. u = DeleteNickRow(v, c.nid) /\ Commits(u)
    BY <2>3 DEF Commit
  <2> QED BY <2>5, <2>6, NickRowDeleted
<1> QED BY <1>1, <1>2, <1>3

\* nickname_link into the account of the copy m, from that of the copy c: the
\* nicknames go over before the account is deleted.
LEMMA LinkKeepsSound ==
  ASSUME NEW la \in 0 .. MaxAccounts, NEW ln, NEW t, Sound(t, la, ln),
         NEW m, NEW c, m.acc # c.acc, NEW u \in LinkTx(t, m, c)
  PROVE  Sound(u, la, ln)
<1> DEFINE v == Relinked(t, m, c)
           N == [i \in DOMAIN t.nicks |->
                  IF t.nicks[i].acc = c.acc THEN [t.nicks[i] EXCEPT !.acc = m.acc] ELSE t.nicks[i]]
<1>1. v = [t EXCEPT !.nicks = N]
  BY DEF Relinked
<1>2. t = [accounts |-> t.accounts, nicks |-> t.nicks, certs |-> t.certs]
  BY DEF Sound, Rows
<1> HIDE DEF v, N
<1>3. /\ v = [accounts |-> v.accounts, nicks |-> v.nicks, certs |-> v.certs]
      /\ v.accounts = t.accounts /\ v.certs = t.certs /\ v.nicks = N
  BY <1>1, <1>2
<1>4. u = DeleteAccountRow(v, c.acc) /\ (Links(t, c.acc) = {} \/ m.acc \in DOMAIN t.accounts)
  BY DEF LinkTx, Commit, v
<1>5. DOMAIN v.nicks = DOMAIN t.nicks
  BY <1>3 DEF N
<1>6. ASSUME NEW i \in DOMAIN t.nicks
      PROVE  /\ v.nicks[i] \in NickRow
             /\ v.nicks[i].nick = t.nicks[i].nick
             /\ v.nicks[i].acc = IF t.nicks[i].acc = c.acc THEN m.acc ELSE t.nicks[i].acc
  <2>1. t.nicks[i] \in NickRow
    BY DEF Sound, Rows
  <2>2. CASE t.nicks[i].acc = c.acc
    <3>1. m.acc \in AccIds
      BY <1>4, <2>2, AccountsAssumption DEF Links, Sound, Rows, AccIds
    <3>2. v.nicks[i] = [t.nicks[i] EXCEPT !.acc = m.acc]
      BY <1>3, <2>2 DEF N
    <3> QED BY <2>1, <2>2, <3>1, <3>2 DEF NickRow
  <2>3. CASE t.nicks[i].acc # c.acc
    BY <1>3, <2>1, <2>3 DEF N
  <2> QED BY <2>2, <2>3
<1>7. /\ u = [accounts |-> u.accounts, nicks |-> u.nicks, certs |-> u.certs]
      /\ u.accounts = Without(v.accounts, c.acc)
      /\ u.nicks = Restrict(v.nicks, DOMAIN v.nicks \ Links(v, c.acc))
      /\ u.certs = {r \in v.certs : r.acc # c.acc}
  <2> DEFINE P(y) == y = [accounts |-> y.accounts, nicks |-> y.nicks, certs |-> y.certs]
             Q(y, x) == /\ P(x)
                        /\ x.accounts = Without(y.accounts, c.acc)
                        /\ x.nicks = Restrict(y.nicks, DOMAIN y.nicks \ Links(y, c.acc))
                        /\ x.certs = {r \in y.certs : r.acc # c.acc}
  <2>1. \A y : P(y) => Q(y, DeleteAccountRow(y, c.acc))
    BY DeletedAccountRow, ZenonT(60)
  <2>2. P(v)
    BY <1>3
  <2> HIDE DEF P, Q
  <2>3. Q(v, u)
    BY <1>4, <2>1, <2>2
  <2> QED BY <2>3 DEF P, Q
<1>8. Links(v, c.acc) = {}
  BY <1>5, <1>6 DEF Links
<1>9. DOMAIN u.nicks = DOMAIN t.nicks /\ \A i \in DOMAIN u.nicks : u.nicks[i] = v.nicks[i]
  BY <1>5, <1>7, <1>8 DEF Restrict
<1>10. /\ DOMAIN u.accounts = DOMAIN t.accounts \ {c.acc}
       /\ \A a \in DOMAIN u.accounts : u.accounts[a] = t.accounts[a]
  BY <1>3, <1>7 DEF Without, Restrict
<1>11. \A a : a # c.acc => Links(t, a) \subseteq Links(u, a)
  BY <1>6, <1>9 DEF Links
<1>12. u.certs \subseteq t.certs /\ \A r \in u.certs : r.acc # c.acc
  BY <1>3, <1>7
<1>13. Rows(u, la, ln)
  BY <1>6, <1>7, <1>9, <1>10, <1>12 DEF Sound, Rows
<1>14. \A i \in DOMAIN u.nicks : u.nicks[i].acc \in DOMAIN u.accounts
  BY <1>4, <1>6, <1>9, <1>10 DEF Sound, References, Links
<1>15. References(u)
  <2>1. \A a \in DOMAIN u.accounts : u.accounts[a].pri \in Links(u, a)
    BY <1>10, <1>11 DEF Sound, References
  <2>2. \A i, j \in DOMAIN u.nicks : u.nicks[i].nick = u.nicks[j].nick => i = j
    BY <1>6, <1>9 DEF Sound, References
  <2>3. \A r \in u.certs :
          r.acc \in DOMAIN u.accounts /\ (r.nid # 0 => r.nid \in Links(u, r.acc))
    BY <1>10, <1>11, <1>12 DEF Sound, References
  <2> QED BY <1>14, <2>1, <2>2, <2>3 DEF References
<1> QED BY <1>13, <1>15 DEF Sound

\* nickname_register of a nickname that has no row, with the next ids.
LEMMA RegisterKeepsSound ==
  ASSUME NEW la \in Nat, NEW ln \in Nat, la < MaxAccounts, ln < MaxNickIds,
         NEW t, Sound(t, la, ln), NEW n \in Names, IdsOf(t, n) = {},
         NEW u \in RegisterTx(t, n, la + 1, ln + 1)
  PROVE  Sound(u, la + 1, ln + 1)
<1> DEFINE A == Put(t.accounts, la + 1, [pri |-> ln + 1])
           N == Put(t.nicks, ln + 1, [nick |-> n, acc |-> la + 1])
<1>1. u = [t EXCEPT !.accounts = A, !.nicks = N]
  BY DEF RegisterTx, Commit
<1>2. t = [accounts |-> t.accounts, nicks |-> t.nicks, certs |-> t.certs]
  BY DEF Sound, Rows
<1>3. /\ u = [accounts |-> u.accounts, nicks |-> u.nicks, certs |-> u.certs]
      /\ u.accounts = A /\ u.nicks = N /\ u.certs = t.certs
  <2> HIDE DEF A, N
  <2>1. u = [[t EXCEPT !.accounts = A] EXCEPT !.nicks = N]
    BY <1>1
  <2>2. [t EXCEPT !.accounts = A] = [accounts |-> A, nicks |-> t.nicks, certs |-> t.certs]
    BY <1>2
  <2>3. u = [accounts |-> A, nicks |-> N, certs |-> t.certs]
    BY <2>1, <2>2
  <2> QED BY <2>3
<1>4. la + 1 \notin DOMAIN t.accounts /\ ln + 1 \notin DOMAIN t.nicks
  BY DEF Sound, Rows
<1>5. /\ DOMAIN u.accounts = DOMAIN t.accounts \cup {la + 1}
      /\ u.accounts[la + 1] = [pri |-> ln + 1]
      /\ \A a \in DOMAIN t.accounts : u.accounts[a] = t.accounts[a]
  BY <1>3, <1>4 DEF Put
<1>6. /\ DOMAIN u.nicks = DOMAIN t.nicks \cup {ln + 1}
      /\ u.nicks[ln + 1] = [nick |-> n, acc |-> la + 1]
      /\ \A i \in DOMAIN t.nicks : u.nicks[i] = t.nicks[i]
  BY <1>3, <1>4 DEF Put
<1>7. la + 1 \in AccIds /\ ln + 1 \in NickIds
  BY AccountsAssumption DEF AccIds, NickIds
<1>8. DOMAIN u.accounts \subseteq 1 .. la + 1 /\ DOMAIN u.nicks \subseteq 1 .. ln + 1
  BY <1>5, <1>6 DEF Sound, Rows
<1> HIDE DEF A, N
<1>9. Rows(u, la + 1, ln + 1)
  BY <1>3, <1>5, <1>6, <1>7, <1>8 DEF Sound, Rows, AccountRow, NickRow
<1>10. /\ \A a : Links(t, a) \subseteq Links(u, a)
       /\ ln + 1 \in Links(u, la + 1)
  BY <1>6 DEF Links
<1>11. \A a \in DOMAIN u.accounts : u.accounts[a].pri \in Links(u, a)
  BY <1>5, <1>10 DEF Sound, References
<1>12. \A i \in DOMAIN u.nicks : u.nicks[i].acc \in DOMAIN u.accounts
  BY <1>5, <1>6 DEF Sound, References
<1>13. \A i, j \in DOMAIN u.nicks : u.nicks[i].nick = u.nicks[j].nick => i = j
  BY <1>6 DEF Sound, References, IdsOf
<1>14. \A r \in u.certs :
         r.acc \in DOMAIN u.accounts /\ (r.nid # 0 => r.nid \in Links(u, r.acc))
  BY <1>3, <1>5, <1>10 DEF Sound, References
<1> QED BY <1>9, <1>11, <1>12, <1>13, <1>14 DEF Sound, References

\* INSERT and DELETE of account_fingerprint.
LEMMA CertsKeepSound ==
  ASSUME NEW la, NEW ln, NEW t, Sound(t, la, ln), NEW C \in SUBSET CertRow,
         \A r \in C : r.acc \in DOMAIN t.accounts /\ (r.nid # 0 => r.nid \in Links(t, r.acc))
  PROVE  Sound([t EXCEPT !.certs = C], la, ln)
<1> DEFINE u == [t EXCEPT !.certs = C]
<1>1. t = [accounts |-> t.accounts, nicks |-> t.nicks, certs |-> t.certs]
  BY DEF Sound, Rows
<1>2. /\ u = [accounts |-> u.accounts, nicks |-> u.nicks, certs |-> u.certs]
      /\ u.accounts = t.accounts /\ u.nicks = t.nicks /\ u.certs = C
  BY <1>1
<1> HIDE DEF u
<1>3. \A a : Links(u, a) = Links(t, a)
  BY <1>2 DEF Links
<1>4. Rows(u, la, ln) /\ References(u)
  BY <1>2, <1>3 DEF Sound, Rows, References
<1> QED BY <1>4 DEF Sound, u

-----------------------------------------------------------------------------
(* The handlers.                                                           *)

\* The step of a handler that runs m_drop keeps the tables and copies.
LEMMA DropKeeps ==
  ASSUME Inv, NEW s \in Sessions, NEW c, DropAs(s, c)
  PROVE  Inv'
<1>1. /\ Sound(tables, last_acc, last_nid)'
      /\ UNCHANGED <<last_acc, last_nid, name>>
  BY DeleteKeepsSound DEF DropAs, Inv, Copies
<1>2. Copies'
  BY <1>1 DEF DropAs, Inv, Copies, Forgotten, session
<1> QED BY <1>1, <1>2 DEF Inv

\* The handlers that only read the tables keep the copies in their types.
LEMMA ReadersKeep ==
  ASSUME Inv, UNCHANGED db,
         \/ \E s \in Sessions :
              \/ CertFp(s) \/ Quit(s) \/ VerifiedNotify(s)
              \/ \E n \in Names \cup {Other} : NickChange(s, n)
              \/ \E n \in Names : Identify(s, n)
         \/ \E n \in Names : Verify(n)
  PROVE  Inv'
<1>1. Copies /\ Sound(tables, last_acc, last_nid)
  BY DEF Inv
<1>2. \A n : Find(tables, n) \in Nickname \cup {NoCopy}
  BY <1>1, FoundRow DEF Copies
<1>3. Sound(tables, last_acc, last_nid)' /\ UNCHANGED <<tables, last_acc, last_nid>>
  BY <1>1 DEF db
<1> SUFFICES Copies'
  BY <1>3 DEF Inv
<1> USE <1>1, <1>2, <1>3 DEF Copies
<1>4. ASSUME NEW s \in Sessions, CertFp(s) PROVE Copies'
  BY <1>4 DEF CertFp, IdentifyUser, HandleNickChange
<1>5. ASSUME NEW s \in Sessions, Quit(s) PROVE Copies'
  BY <1>5 DEF Quit, Forgotten
<1>6. ASSUME NEW s \in Sessions, VerifiedNotify(s) PROVE Copies'
  BY <1>6 DEF VerifiedNotify
<1>7. ASSUME NEW s \in Sessions, NEW n \in Names \cup {Other}, NickChange(s, n) PROVE Copies'
  <2>1. copy' \in [Sessions -> Nickname \cup {NoCopy}]
    BY <1>7 DEF NickChange
  <2>2. identified' \subseteq Sessions /\ access' \subseteq Sessions
        /\ name' \in [Sessions -> Names \cup {Other}]
    BY <1>7 DEF NickChange, IdentifyUser
  <2> QED BY <2>1, <2>2
<1>8. ASSUME NEW s \in Sessions, NEW n \in Names, Identify(s, n) PROVE Copies'
  BY <1>8 DEF Identify, IdentifyUser, HandleNickChange
<1>9. ASSUME NEW n \in Names, Verify(n) PROVE Copies'
  BY <1>9 DEF Verify
<1> QED BY <1>4, <1>5, <1>6, <1>7, <1>8, <1>9

\* Every step keeps the invariant, as long as no client whose account was linked
\* away gives UNLINK.
LEMMA StepKeeps ==
  ASSUME ~StaleUnlink, Inv, [Next]_vars
  PROVE  Inv'
<1>1. Copies /\ Sound(tables, last_acc, last_nid)
  BY DEF Inv
<1>2. \A n : Find(tables, n) \in Nickname \cup {NoCopy}
  BY <1>1, FoundRow DEF Copies
<1>3. ASSUME NEW n, Find(tables, n) # NoCopy
      PROVE  /\ Find(tables, n).nid \in Links(tables, Find(tables, n).acc)
             /\ Find(tables, n).nid \in NickIds /\ Find(tables, n).acc \in DOMAIN tables.accounts
  BY <1>1, <1>3, FoundRow DEF Copies, Nickname
<1>4. ASSUME Sound(tables', last_acc', last_nid'), last_acc' \in 0 .. MaxAccounts,
             last_nid' \in 0 .. MaxNickIds
      PROVE  \A n : Find(tables', n) \in Nickname \cup {NoCopy}
  BY <1>4, FoundRow
<1>5. ASSUME NEW s \in Sessions, Register(s) PROVE Inv'
  <2>1. Sound(tables', last_acc', last_nid')
    <3>1. name[s] \in Names /\ IdsOf(tables, name[s]) = {}
      BY <1>1, <1>5, FoundRow DEF Register, Copies
    <3>2. /\ last_acc \in Nat /\ last_nid \in Nat /\ last_acc < MaxAccounts /\ last_nid < MaxNickIds
          /\ last_acc' = last_acc + 1 /\ last_nid' = last_nid + 1
          /\ tables' \in RegisterTx(tables, name[s], last_acc + 1, last_nid + 1)
      BY <1>1, <1>5 DEF Register, Copies
    <3> QED BY <1>1, <3>1, <3>2, RegisterKeepsSound
  <2>2. last_acc' \in 0 .. MaxAccounts /\ last_nid' \in 0 .. MaxNickIds
    BY <1>1, <1>5, AccountsAssumption DEF Register, Copies
  <2>3. Find(tables', name[s]) \in Nickname \cup {NoCopy}
    BY <1>4, <2>1, <2>2
  <2>4. Copies'
    BY <1>1, <1>5, <2>2, <2>3 DEF Register, IdentifyUser, Copies
  <2> QED BY <2>1, <2>4 DEF Inv
<1>6. ASSUME NEW s \in Sessions, Drop(s) PROVE Inv'
  BY <1>6, DropKeeps DEF Drop
<1>7. ASSUME NEW s \in Sessions, NEW n \in Names, DropNick(s, n) PROVE Inv'
  BY <1>7, DropKeeps DEF DropNick
<1>8. ASSUME NEW s \in Sessions, Unlink(s) PROVE Inv'
  <2>1. Exists(tables, copy[s]) /\ tables' = tables
    BY <1>8 DEF Unlink, UnlinkTx
  <2> QED BY <1>1, <1>2, <1>8, <2>1 DEF Unlink, Copies, Inv
<1>9. ASSUME NEW s \in Sessions, NEW n \in Names, Link(s, n) PROVE Inv'
  <2>1. Sound(tables', last_acc', last_nid')
    BY <1>1, <1>9, LinkKeepsSound DEF Link, Copies
  <2>2. Find(tables', n) \in Nickname \cup {NoCopy}
    BY <1>1, <1>4, <1>9, <2>1 DEF Link, Copies
  <2> QED BY <1>1, <1>9, <2>1, <2>2 DEF Link, Copies, Inv
<1>10. ASSUME NEW s \in Sessions, NEW n \in Names, Group(s, n) PROVE Inv'
  <2>1. Sound(tables', last_acc', last_nid')
    BY <1>1, <1>10, LinkKeepsSound DEF Group, Copies
  <2>2. Find(tables', copy[s].nick) \in Nickname \cup {NoCopy}
    BY <1>1, <1>4, <1>10, <2>1 DEF Group, Copies
  <2> QED BY <1>1, <1>10, <2>1, <2>2 DEF Group, Copies, Inv
<1>11. ASSUME NEW s \in Sessions, NEW n \in Names, SetPrimary(s, n) PROVE Inv'
  <2> DEFINE i == Find(tables, n)
  <2>1. PICK u \in SetPrimaryRow(tables, copy[s].acc, i.nid) : tables' = u
    BY <1>11 DEF SetPrimary, Commit
  <2>2. i.nid \in Links(tables, copy[s].acc) /\ i.nid \in NickIds
    BY <1>3, <1>11 DEF SetPrimary
  <2>3. Sound(tables', last_acc, last_nid)
    BY <1>1, <2>1, <2>2, PrimaryRowSet
  <2> QED BY <1>1, <1>11, <2>3 DEF SetPrimary, session, Copies, Inv
<1>12. ASSUME NEW s \in Sessions, NEW fp \in Certs, CertDel(s, fp) PROVE Inv'
  <2> DEFINE C == {r \in tables.certs : ~(r.acc = copy[s].acc /\ r.fp = fp)}
  <2>1. tables' = [tables EXCEPT !.certs = C]
    BY <1>12 DEF CertDel
  <2>2. C \in SUBSET CertRow
        /\ \A r \in C : r.acc \in DOMAIN tables.accounts /\ (r.nid # 0 => r.nid \in Links(tables, r.acc))
    BY <1>1 DEF Sound, Rows, References
  <2> HIDE DEF C
  <2>3. Sound(tables', last_acc, last_nid)
    BY <1>1, <2>1, <2>2, CertsKeepSound
  <2> QED BY <1>1, <1>12, <2>3 DEF CertDel, session, Copies, Inv
<1>13. ASSUME NEW s \in Sessions, NEW fp \in Certs, NEW n \in Names \cup {Other}, CertAdd(s, fp, n)
       PROVE  Inv'
  <2> DEFINE i == IF n = Other THEN 0 ELSE Find(tables, n).nid
             new == [acc |-> copy[s].acc, fp |-> fp, nid |-> i]
             C == tables.certs \cup {new}
  <2>1. tables' = [tables EXCEPT !.certs = C]
    BY <1>13 DEF CertAdd
  <2>2. copy[s].acc \in DOMAIN tables.accounts /\ copy[s].acc \in AccIds
    BY <1>1, <1>13, NoCopyAssumption DEF CertAdd, Exists, Copies, Nickname
  <2>3. i \in 0 .. MaxNickIds /\ (i # 0 => i \in Links(tables, copy[s].acc))
    <3>1. CASE n = Other
      BY <3>1, AccountsAssumption
    <3>2. CASE n # Other
      BY <1>3, <1>13, <3>2, AccountsAssumption DEF CertAdd, NickIds
    <3> QED BY <3>1, <3>2
  <2> HIDE DEF i
  <2>4. new \in CertRow /\ new.acc = copy[s].acc /\ new.nid = i
    BY <2>2, <2>3 DEF CertRow
  <2>5. C \in SUBSET CertRow
        /\ \A r \in C : r.acc \in DOMAIN tables.accounts /\ (r.nid # 0 => r.nid \in Links(tables, r.acc))
    BY <1>1, <2>2, <2>3, <2>4 DEF Sound, Rows, References
  <2> HIDE DEF C
  <2>6. Sound(tables', last_acc, last_nid)
    BY <1>1, <2>1, <2>5, CertsKeepSound
  <2> QED BY <1>1, <1>13, <2>6 DEF CertAdd, session, Copies, Inv
<1>14. ASSUME NEW n \in Names, Forbid(n) PROVE Inv'
  <2>1. Sound(tables', last_acc, last_nid)
    BY <1>1, <1>14, DeleteKeepsSound DEF Forbid, Copies
  <2> QED BY <1>1, <1>14, <2>1 DEF Forbid, session, Copies, Inv
<1>15. CASE UNCHANGED vars
  BY <1>15 DEF vars, Inv, Copies
<1>16. ASSUME NEW s \in Sessions, CertFp(s) \/ Quit(s) \/ VerifiedNotify(s) PROVE Inv'
  BY <1>16, ReadersKeep DEF CertFp, Quit, VerifiedNotify, db
<1>17. ASSUME NEW s \in Sessions, NEW n \in Names \cup {Other}, NickChange(s, n) PROVE Inv'
  BY <1>17, ReadersKeep DEF NickChange
<1>18. ASSUME NEW s \in Sessions, NEW n \in Names, Identify(s, n) PROVE Inv'
  BY <1>18, ReadersKeep DEF Identify, db
<1>19. ASSUME NEW n \in Names, Verify(n) PROVE Inv'
  BY <1>19, ReadersKeep DEF Verify, db
<1> QED
  BY <1>5, <1>6, <1>7, <1>8, <1>9, <1>10, <1>11, <1>12, <1>13, <1>14, <1>15, <1>16, <1>17,
     <1>18, <1>19 DEF Next

\* The invariant says what the properties ask for.
LEMMA InvSuffices == ASSUME Inv PROVE AccountsAreSound
<1>1. TypeOK
  BY AccountsAssumption DEF Inv, Copies, Sound, Rows, TypeOK, AccIds, NickIds
<1>2. AccountsHaveNicks
  <2>1. ASSUME NEW n \in Names PROVE Cardinality(IdsOf(tables, n)) <= 1
    <3>1. CASE IdsOf(tables, n) = {}
      BY <3>1, FS_EmptySet
    <3>2. ASSUME NEW i \in IdsOf(tables, n) PROVE Cardinality(IdsOf(tables, n)) <= 1
      <4>1. IdsOf(tables, n) = {i}
        BY <3>2 DEF IdsOf, Inv, Sound, References
      <4>2. Cardinality({i}) = 1
        BY FS_Singleton
      <4> QED BY <4>1, <4>2
    <3> QED BY <3>1, <3>2
  <2> QED BY <2>1 DEF AccountsHaveNicks, Inv, Sound, References
<1>3. PrimaryOwned /\ CertNickOwned
  BY DEF PrimaryOwned, CertNickOwned, Inv, Sound, References
<1> QED BY <1>1, <1>2, <1>3 DEF AccountsAreSound

\* As long as nobody whose account was linked away by another client gives
\* UNLINK, accounts, nicknames, primary nicknames and certificates agree in every
\* reachable state, for any number of clients with copies of any age: what COMMIT
\* checks, and the order of the statements in nickname.c, are enough.
THEOREM TablesStaySound ==
  ASSUME ~StaleUnlink
  PROVE  Spec => []AccountsAreSound
<1>1. Init => Inv
  <2> SUFFICES ASSUME Init PROVE Inv
    OBVIOUS
  <2>1. /\ tables = [accounts |-> tables.accounts, nicks |-> tables.nicks, certs |-> tables.certs]
        /\ DOMAIN tables.accounts = {} /\ DOMAIN tables.nicks = {} /\ tables.certs = {}
    BY DEF Init
  <2>2. Sound(tables, last_acc, last_nid)
    BY <2>1 DEF Sound, Rows, References
  <2> QED BY <2>2, AccountsAssumption DEF Init, Inv, Copies
<1>2. Inv /\ [Next]_vars => Inv'
  BY StepKeeps
<1>3. Inv => AccountsAreSound
  BY InvSuffices
<1> QED BY <1>1, <1>2, <1>3, PTL DEF Spec
=============================================================================
