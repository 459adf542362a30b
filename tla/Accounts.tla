------------------------------ MODULE Accounts ------------------------------
(***************************************************************************)
(* Accounts and nicknames: the tables account, nickname and                 *)
(* account_fingerprint, the transactions of nickname.c on them, and the *)
(* Nickname that every identified client holds, a copy of the row as it was *)
(* when the client identified.  Several clients may hold copies of one      *)
(* account, and a handler refreshes at most the copy of its own client.     *)
(*                                                                         *)
(* A statement the database refuses ends its transaction: the tables are    *)
(* then as they were.  A handler that would abort services (an assertion,   *)
(* a NULL nickname) has no step here.                                       *)
(***************************************************************************)
EXTENDS Integers, FiniteSets, Functions

CONSTANTS
  Sessions,     \* clients that talk to NickServ
  Opers,        \* the clients that are operators
  Names,        \* nicknames that are used on the network
  Other,        \* any nickname that is not in Names
  Certs,        \* certificate fingerprints
  NoCert,       \* the empty certfp
  CertOf,       \* client->certfp
  NoCopy,       \* the NULL Nickname
  MaxAccounts,  \* bound on the account ids that are given out
  MaxNickIds,   \* bound on the nickname ids that are given out
  StaleUnlink   \* whether a client whose account was linked away may UNLINK

ASSUME AccountsAssumption ==
  /\ Opers \subseteq Sessions
  /\ Other \notin Names /\ NoCert \notin Certs
  /\ CertOf \in [Sessions -> Certs \cup {NoCert}]
  /\ {MaxAccounts, MaxNickIds} \subseteq Nat
  /\ StaleUnlink \in BOOLEAN

VARIABLES
  tables,      \* what is committed
  last_acc,    \* the sequence of account.id
  last_nid,    \* the sequence of nickname.id
  name,        \* client->name
  copy,        \* client->nickname
  identified,  \* clients with umode +R
  access       \* clients with client->access of IDENTIFIED_FLAG or above

vars == <<tables, last_acc, last_nid, name, copy, identified, access>>
db      == <<tables, last_acc, last_nid>>
session == <<copy, identified, access>>

AccIds == 1 .. MaxAccounts
NickIds == 1 .. MaxNickIds
\* A row of account; its other columns (password, flags) are left open.
AccountRow == [pri : NickIds]
NickRow    == [nick : Names, acc : AccIds]
\* nid is 0 where account_fingerprint.nickname_id is NULL.
CertRow    == [acc : AccIds, fp : Certs, nid : 0 .. MaxNickIds]
Nickname   == [acc : AccIds, nid : NickIds, pri : NickIds, nick : Names]

ASSUME NoCopyAssumption == NoCopy \notin Nickname

Init ==
  /\ tables = [accounts |-> <<>>, nicks |-> <<>>, certs |-> {}]
  /\ last_acc = 0 /\ last_nid = 0
  /\ name = [s \in Sessions |-> Other]
  /\ copy = [s \in Sessions |-> NoCopy]
  /\ identified = {} /\ access = {}

-----------------------------------------------------------------------------
(* Queries.                                                                *)

Put(f, k, v)  == [x \in DOMAIN f \cup {k} |-> IF x = k THEN v ELSE f[x]]
Without(f, k) == Restrict(f, DOMAIN f \ {k})

Links(t, a)   == {i \in DOMAIN t.nicks : t.nicks[i].acc = a}
IdsOf(t, n)   == {i \in DOMAIN t.nicks : t.nicks[i].nick = n}
Exists(t, c)  == c # NoCopy /\ c.acc \in DOMAIN t.accounts

\* nickname_find: the row of a nickname with that of its account.
Find(t, n) ==
  IF IdsOf(t, n) = {} THEN NoCopy
  ELSE LET i == CHOOSE j \in IdsOf(t, n) : TRUE
           a == t.nicks[i].acc
       IN [acc |-> a, nid |-> i, pri |-> t.accounts[a].pri, nick |-> n]

\* nickname_cert_check
CertCheck(t, c, fp) == \E r \in t.certs : r.acc = c.acc /\ r.fp = fp

\* COMMIT: the foreign keys that are checked then.  primary_nick refers to a
\* nickname and is DEFERRABLE INITIALLY DEFERRED.
Commits(t) == \A a \in DOMAIN t.accounts : t.accounts[a].pri \in DOMAIN t.nicks

-----------------------------------------------------------------------------
(* The statements and transactions of nickname.c: the set of the tables     *)
(* that may be committed, empty when the database refuses.                  *)

Commit(t) == IF Commits(t) THEN {t} ELSE {}

\* DELETE FROM nickname; the fingerprints of the nickname lose it.
DeleteNickRow(t, i) ==
  [t EXCEPT !.nicks = Without(@, i),
            !.certs = {IF r.nid = i THEN [r EXCEPT !.nid = 0] ELSE r : r \in @}]

\* DELETE FROM account; its nicknames and fingerprints go with it.
DeleteAccountRow(t, a) ==
  [t EXCEPT !.accounts = Without(@, a),
            !.nicks = Restrict(@, DOMAIN @ \ Links(t, a)),
            !.certs = {r \in @ : r.acc # a}]

\* SET_NICK_PRIMARY: account_primary_nick_idx is unique, not deferrable.
SetPrimaryRow(t, a, i) ==
  IF a \notin DOMAIN t.accounts THEN {t}
  ELSE IF \E b \in DOMAIN t.accounts \ {a} : t.accounts[b].pri = i THEN {}
  ELSE {[t EXCEPT !.accounts[a].pri = i]}

\* nickname_register: account a gets nickname i.
RegisterTx(t, n, a, i) ==
  Commit([t EXCEPT
    !.accounts = Put(@, a, [pri |-> i]),
    !.nicks = Put(@, i, [nick |-> n, acc |-> a])])

\* nickname_delete of the nickname that the copy c names.  GET_NEW_LINK
\* returns any other nickname of the account.
DeleteTx(t, c) ==
  LET others == Links(t, c.acc) \ {c.nid}
  IN IF c.nid # c.pri THEN Commit(DeleteNickRow(t, c.nid))
     ELSE IF others = {}
     THEN Commit(DeleteAccountRow(DeleteNickRow(t, c.nid), c.acc))
     ELSE UNION {Commit(DeleteNickRow(u, c.nid)) :
                   u \in UNION {SetPrimaryRow(t, c.acc, i) : i \in others}}

\* SET_NICK_LINK: every nickname of the child goes to the master's account.
Relinked(t, master, child) ==
  [t EXCEPT !.nicks = [i \in DOMAIN @ |->
     IF @[i].acc = child.acc THEN [@[i] EXCEPT !.acc = master.acc] ELSE @[i]]]

\* Mutant: the child's account is not deleted.
LinkTxKeepsAccount(t, master, child) ==
  IF Links(t, child.acc) # {} /\ master.acc \notin DOMAIN t.accounts THEN {}
  ELSE Commit(Relinked(t, master, child))

\* nickname_link: account_id refers to an account, so the master's exists; the
\* child's is deleted.
LinkTx(t, master, child) ==
  IF Links(t, child.acc) # {} /\ master.acc \notin DOMAIN t.accounts THEN {}
  ELSE Commit(DeleteAccountRow(Relinked(t, master, child), child.acc))

\* nickname_unlink.  INSERT_NICK_CLONE copies primary_nick, so the unique index
\* refuses it when the account exists.  When it does not, nothing is inserted,
\* db_insertid gives the account that was inserted last, whosever it is, and
\* the other statements work on that one.
UnlinkTx(t, c, last) ==
  IF Exists(t, c) THEN {} ELSE UNION {Commit(u) : u \in SetPrimaryRow(t, last, c.nid)}

-----------------------------------------------------------------------------
(* Clients.                                                                *)

\* identify_user(s), and SetIdentified of the protocol module's callback.
IdentifyUser(s) == identified' = identified \cup {s} /\ access' = access \cup {s}

\* handle_nick_change(s, n): a client that is on n already is identified at
\* once; any other is sent the new nickname, and keeps its access until then.
HandleNickChange(s, n) ==
  IF name[s] = n THEN IdentifyUser(s)
  ELSE identified' = identified \cup {s} /\ UNCHANGED access

\* A client that was dropped: ClearIdentified, no Nickname, USER_FLAG.
Forgotten(cs) ==
  /\ copy' = [s \in Sessions |-> IF s \in cs THEN NoCopy ELSE copy[s]]
  /\ identified' = identified \ cs
  /\ access' = access \ cs

\* check_nick_pass succeeds, by certificate or password: the user may know any.
CheckPass(s, n) == Find(tables, n) # NoCopy

\* REGISTER; one that is refused changes nothing but the sequences.
Register(s) ==
  /\ name[s] # Other
  /\ copy[s] = NoCopy /\ Find(tables, name[s]) = NoCopy
  /\ last_acc < MaxAccounts /\ last_nid < MaxNickIds
  /\ last_acc' = last_acc + 1 /\ last_nid' = last_nid + 1
  /\ tables' \in RegisterTx(tables, name[s], last_acc', last_nid')
  /\ copy' = [copy EXCEPT ![s] = Find(tables', name[s])]
  /\ IdentifyUser(s)
  /\ UNCHANGED <<name>>

\* IDENTIFY, with or without a nickname, and REGAIN, which differ in the reply.
Identify(s, n) ==
  /\ CheckPass(s, n)
  /\ copy' = [copy EXCEPT ![s] = Find(tables, n)]
  /\ HandleNickChange(s, n)
  /\ UNCHANGED <<db, name>>

\* ns_on_certfp: the uplink names the certificate of a client on a nickname it
\* did not identify for.
CertFp(s) ==
  LET c == Find(tables, name[s])
  IN /\ c # NoCopy /\ ~(copy[s] # NoCopy /\ copy[s].nid = c.nid)
     /\ \E r \in tables.certs :
          /\ r.acc = c.acc /\ r.fp = CertOf[s]
          /\ copy' = [copy EXCEPT ![s] = c]
          /\ IF r.nid = 0 THEN IdentifyUser(s)
             ELSE HandleNickChange(s, tables.nicks[r.nid].nick)
     /\ UNCHANGED <<db, name>>

\* A client changes its nickname (ns_on_nick_change); the server has it that no
\* other client is on it.  On a nickname of the same account it is identified
\* again, and its certificate or hostmask may identify it for any other.
\* Whether n is forbidden, and with it copy[s] kept, is left open.
NickChange(s, n) ==
  LET c == Find(tables, n)
      was == s \in identified
      same == was /\ copy[s] # NoCopy /\ c # NoCopy /\ copy[s].acc = c.acc
      byCert == c # NoCopy /\ CertCheck(tables, c, CertOf[s])
      kept == IF was THEN NoCopy ELSE copy[s]
  IN /\ n # name[s] /\ \A o \in Sessions : n # Other => name[o] # n
     /\ name' = [name EXCEPT ![s] = n]
     /\ \/ /\ c # NoCopy
           /\ copy' = [copy EXCEPT ![s] = c]
           /\ IdentifyUser(s)
        \/ /\ \E forbidden \in BOOLEAN :
                /\ ~forbidden => ~same /\ ~byCert
                /\ copy' = [copy EXCEPT ![s] =
                              IF c = NoCopy /\ ~forbidden THEN NoCopy ELSE kept]
           /\ identified' = identified \ {s}
           /\ access' = IF was THEN access \ {s} ELSE access
     /\ UNCHANGED db

\* A client quits; its structure is used for another client later.
Quit(s) ==
  /\ name' = [name EXCEPT ![s] = Other]
  /\ Forgotten({s})
  /\ UNCHANGED <<db>>

-----------------------------------------------------------------------------
(* The commands of an identified client.                                   *)

\* The client may give commands of IDENTIFIED_FLAG that use client->nickname.
May(s) == s \in access /\ copy[s] # NoCopy

\* m_drop with client->nickname = c: the client's own nickname (with the code
\* NickServ gave it, not modelled), or another one, whose user is found by name.
DropAs(s, c) ==
  LET mine == Find(tables, name[s])
      own == c.acc = mine.acc
      users == IF own THEN {s}
               ELSE {o \in Sessions : c.nid \in DOMAIN tables.nicks
                                      /\ name[o] = tables.nicks[c.nid].nick}
  IN /\ mine # NoCopy
     /\ \/ tables' \in DeleteTx(tables, c) /\ Forgotten(users)
        \/ UNCHANGED <<tables, session>>
     /\ UNCHANGED <<last_acc, last_nid, name>>

Drop(s) == May(s) /\ DropAs(s, copy[s])

\* DROPNICK, and SUDO ... DROP: m_drop with the target's Nickname in place of
\* the operator's.  On a nickname of the operator's own account m_drop asks
\* for a code, which DROPNICK does not pass on.
DropNick(s, n) ==
  LET c == Find(tables, n)
  IN /\ s \in Opers \cap access /\ c # NoCopy
     /\ Find(tables, name[s]) # NoCopy /\ c.acc # Find(tables, name[s]).acc
     /\ DropAs(s, c)

\* LINK: the client's account goes into that of the primary n.
Link(s, n) ==
  LET p == Find(tables, n)
  IN /\ May(s) /\ CheckPass(s, n)
     /\ p.acc # copy[s].acc
     /\ tables' \in LinkTx(tables, p, copy[s])
     /\ copy' = [copy EXCEPT ![s] = Find(tables', n)]
     /\ UNCHANGED <<last_acc, last_nid, name, identified, access>>

\* GROUP: the account of n goes into the client's.
Group(s, n) ==
  LET p == Find(tables, n)
  IN /\ May(s) /\ CheckPass(s, n)
     /\ p.acc # copy[s].acc
     /\ tables' \in LinkTx(tables, copy[s], p)
     /\ Find(tables', copy[s].nick) # NoCopy
     /\ copy' = [copy EXCEPT ![s] = Find(tables', copy[s].nick)]
     /\ UNCHANGED <<last_acc, last_nid, name, identified, access>>

\* Mutant: the client keeps its copy, with the id that was returned.
UnlinkKeepsCopy(s) ==
  LET c == copy[s]
  IN /\ May(s)
     /\ Cardinality(Links(tables, c.acc)) # 1
     /\ Exists(tables, c)
     /\ copy' = [copy EXCEPT ![s].acc = -1]
     /\ UNCHANGED <<db, name, identified, access>>

\* UNLINK: nickname_unlink returns -1 when it fails, which m_unlink takes for
\* an account id, being unsigned; the client's copy is that of its name either
\* way.  link_count is -1 for an account that is gone.  Without a primary to
\* give the other links (c.nid = c.pri), atoi(NULL) ends services.
Unlink(s) ==
  LET c == copy[s]
  IN /\ May(s)
     /\ Cardinality(Links(tables, c.acc)) # 1
     /\ ~Exists(tables, c) => StaleUnlink /\ c.nid # c.pri
     /\ tables' \in IF UnlinkTx(tables, c, last_acc) = {} THEN {tables}
                    ELSE UnlinkTx(tables, c, last_acc)
     /\ copy' = [copy EXCEPT ![s] = Find(tables, name[s])]
     /\ UNCHANGED <<last_acc, last_nid, name, identified, access>>

\* Mutant: any nickname will do.
SetPrimaryAny(s, n) ==
  LET i == Find(tables, n)
  IN /\ May(s) /\ i # NoCopy
     /\ tables' \in UNION {Commit(u) : u \in SetPrimaryRow(tables, copy[s].acc, i.nid)}
     /\ UNCHANGED <<last_acc, last_nid, name, session>>

\* SET PRIMARY: pri_nickid of the client's copy stays what it was.
SetPrimary(s, n) ==
  LET i == Find(tables, n)
  IN /\ May(s) /\ i # NoCopy /\ i.acc = copy[s].acc
     /\ tables' \in UNION {Commit(u) : u \in SetPrimaryRow(tables, copy[s].acc, i.nid)}
     /\ UNCHANGED <<last_acc, last_nid, name, session>>

-----------------------------------------------------------------------------
(* CERT.                                                                   *)

\* Mutant: the nickname is not compared with the client's account.
CertAddAnyNick(s, fp, n) ==
  LET c == copy[s]
      i == IF n = Other THEN 0 ELSE Find(tables, n).nid
  IN /\ May(s) /\ Exists(tables, c)
     /\ n # Other => Find(tables, n) # NoCopy
     /\ \A r \in tables.certs : r.fp # fp
     /\ tables' = [tables EXCEPT !.certs = @ \cup {[acc |-> c.acc, fp |-> fp, nid |-> i]}]
     /\ UNCHANGED <<last_acc, last_nid, name, session>>

\* CERT ADD fp with nickname n, or without (n = Other).  The fingerprint is
\* unique, and account_id refers to an account.
CertAdd(s, fp, n) ==
  LET c == copy[s]
      i == IF n = Other THEN 0 ELSE Find(tables, n).nid
  IN /\ May(s) /\ Exists(tables, c)
     /\ n # Other => Find(tables, n) # NoCopy /\ Find(tables, n).acc = c.acc
     /\ \A r \in tables.certs : r.fp # fp
     /\ tables' = [tables EXCEPT !.certs = @ \cup {[acc |-> c.acc, fp |-> fp, nid |-> i]}]
     /\ UNCHANGED <<last_acc, last_nid, name, session>>

CertDel(s, fp) ==
  /\ May(s)
  /\ \E r \in tables.certs : r.acc = copy[s].acc /\ r.fp = fp
  /\ tables' = [tables EXCEPT !.certs = {r \in @ : ~(r.acc = copy[s].acc /\ r.fp = fp)}]
  /\ UNCHANGED <<last_acc, last_nid, name, session>>

-----------------------------------------------------------------------------
(* Operators, and the web page that verifies accounts.                     *)

\* nickname_forbid: nickname_delete begins and ends a transaction inside that of
\* nickname_forbid, so INSERT_FORBID is on its own, and whether it is refused
\* makes no difference to the nickname.
Forbid(n) ==
  /\ Find(tables, n) # NoCopy
  /\ tables' \in DeleteTx(tables, Find(tables, n))
  /\ UNCHANGED <<last_acc, last_nid, name, session>>

\* VERIFY n, YES or NO, changes flag_verified: the copies of the identified clients that are on a
\* nickname of the account are read again.
Verify(n) ==
  LET c == Find(tables, n)
      linked == {tables.nicks[i].nick : i \in Links(tables, c.acc)}
  IN /\ c # NoCopy
     /\ copy' = [s \in Sessions |-> IF s \in identified /\ name[s] \in linked
                                    THEN Find(tables, name[s]) ELSE copy[s]]
     /\ UNCHANGED <<db, name, identified, access>>

\* The web page verifies an account; NOTIFY reaches services some time later
\* (checkNotifies, ns_on_verified_notify).  client->access stays when the nickname is gone.
VerifiedNotify(s) ==
  /\ s \in identified /\ name[s] # Other
  /\ copy' = [copy EXCEPT ![s] = Find(tables, name[s])]
  /\ identified' = IF Find(tables, name[s]) = NoCopy THEN identified \ {s} ELSE identified
  /\ UNCHANGED <<access, db, name>>

Next ==
  \/ \E s \in Sessions :
       \/ Register(s) \/ CertFp(s) \/ Quit(s) \/ Drop(s) \/ Unlink(s)
       \/ VerifiedNotify(s)
       \/ \E n \in Names \cup {Other} : NickChange(s, n)
       \/ \E n \in Names :
            \/ Identify(s, n) \/ DropNick(s, n) \/ Link(s, n) \/ Group(s, n)
            \/ SetPrimary(s, n)
       \/ \E fp \in Certs :
            CertDel(s, fp) \/ \E n \in Names \cup {Other} : CertAdd(s, fp, n)
  \/ \E n \in Names :
       Forbid(n) \/ Verify(n)

Spec == Init /\ [][Next]_vars

-----------------------------------------------------------------------------
(* Properties.                                                             *)

\* The rows and copies have their types.
TypeOK ==
  /\ DOMAIN tables.accounts \subseteq AccIds
  /\ \A a \in DOMAIN tables.accounts : tables.accounts[a] \in AccountRow
  /\ DOMAIN tables.nicks \subseteq NickIds
  /\ \A i \in DOMAIN tables.nicks : tables.nicks[i] \in NickRow
  /\ tables.certs \subseteq CertRow
  /\ last_acc \in 0 .. MaxAccounts /\ last_nid \in 0 .. MaxNickIds
  /\ name \in [Sessions -> Names \cup {Other}]
  /\ \A s \in Sessions : copy[s] = NoCopy \/ copy[s] \in Nickname
  /\ identified \subseteq Sessions /\ access \subseteq Sessions

\* Whatever clients with old copies do, an account has a nickname, a nickname
\* has an account, and no two rows have one nickname: nickname_delete and
\* nickname_link keep the tables in step with each other.
AccountsHaveNicks ==
  /\ \A a \in DOMAIN tables.accounts : Links(tables, a) # {}
  /\ \A i \in DOMAIN tables.nicks : tables.nicks[i].acc \in DOMAIN tables.accounts
  /\ \A n \in Names : Cardinality(IdsOf(tables, n)) <= 1

\* The primary nickname of an account is one of its own nicknames
\* (nickname_delete and nickname_unlink find a new one).
PrimaryOwned ==
  \A a \in DOMAIN tables.accounts : tables.accounts[a].pri \in Links(tables, a)

\* A certificate brings its user to a nickname of the account it is of, for
\* all that happened to nickname and account since CERT ADD (ns_on_certfp
\* changes the nickname of the client without another look).
CertNickOwned ==
  \A r \in tables.certs :
    r.acc \in DOMAIN tables.accounts /\ (r.nid # 0 => r.nid \in Links(tables, r.acc))

\* The tables of accounts and nicknames are sound, whatever clients do with the
\* copies they have of rows that others have changed or deleted meanwhile.
AccountsAreSound == TypeOK /\ AccountsHaveNicks /\ PrimaryOwned /\ CertNickOwned

=============================================================================
