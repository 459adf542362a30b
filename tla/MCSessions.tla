----------------------------- MODULE MCSessions -----------------------------
(* What NickServ does with the sessions of users: a behaviour is one of    *)
(* the protection of nicknames, with operators at work, of passwords, of   *)
(* the copies of accounts that sessions have, of operators' access, of how *)
(* users are recognised, or of the database layer under all of it.         *)
EXTENDS NickSession, TLC

CONSTANTS
  n1, n2,                                                     \* NickSession: its Nicks
  Accounts, None,                           \* Passwords, OperAccess, Recognition
  Chosen, Random, Day, ExpireTime, MaxSalt, End,              \* Passwords
  Saved, Copied, Worn, Owned, Cloaks, Default, Bare, Unset, \* Profile
  Opers, Nicknames, Owner,                          \* OperAccess, Recognition
  QUERY_COUNT, MaxPrepared, MaxAttempts, Values,              \* Database
  Sessions, Channels, Enforced, Hosts, Reach, Prints, Fits, MaxEdits \* Recognition

VARIABLES part,
  keys, codes, used, sent, torn, salts, now,                        \* Passwords
  rows, copies, worn, host, pending,                                \* Profile
  oper, service, acct, cached, access, admin, moving, untold, wears, \* OperAccess
  conn, tx, unwritten, prepared, last_index, handed, attempts, died, call, kept,
  done, told, broken, column, shown, unsure,                        \* Database
  ses, listed, secure, hosts, certs, ajoin, vouched, edits, grounds, awaiting,
  claimed, pulled, ever                                             \* Recognition

pvars == <<keys, codes, used, sent, torn, salts, now>>
fvars == <<rows, copies, worn, host, pending>>
avars == <<oper, service, acct, cached, access, admin, moving, untold, wears>>
dvars == <<conn, tx, unwritten, prepared, last_index, handed, attempts, died, call, kept,
           done, told, broken, column, shown, unsure>>
rvars == <<ses, listed, secure, hosts, certs, ajoin, vouched, edits, grounds, awaiting,
           claimed, pulled, ever>>

P == INSTANCE Passwords WITH row <- keys
F == INSTANCE Profile WITH Accounts <- Saved, Sessions <- Copied, Nicks <- Worn, Owner <- Owned,
  row <- rows, copy <- copies, name <- worn
A == INSTANCE OperAccess WITH Sessions <- Opers, Nicks <- Nicknames, name <- wears
D == INSTANCE Database WITH pending <- unwritten, torn <- broken, row <- column, cached <- shown
R == INSTANCE Recognition WITH Nicks <- Nicknames, moving <- awaiting

\* Two accounts with a nickname each; u1 and u2 are users, e1 is the enforcer.
MCAccount == n1 :> "a1" @@ n2 :> "a2"
MCOwned == "n1" :> "a" @@ "n2" :> "a" @@ "n3" :> "unset"
MCOwner == "n1" :> "a" @@ "n2" :> "b" @@ "n3" :> "a" @@ "n4" :> "none"
MCReach == "h" :> {"s"}
MCFits == {<<"f", "f">>}
MCSymmetry == Permutations(Guests)

Some(S) == CHOOSE x \in S : TRUE

\* The parts that do not move stay in one of their initial states.
MCInit ==
  /\ part \in {"protection", "passwords", "profile", "access", "database", "recognition"}
  /\ Init /\ P!Init /\ F!Init /\ A!Init /\ D!Init /\ R!Init
  /\ part # "database" => shown = Some(Values)
  /\ part # "profile" => worn = Some(Injection(Copied, Worn))
  /\ part # "access" => /\ wears = Some(Injection(Opers, Nicknames))
                        /\ admin[Some(Accounts)]

MCNext ==
  /\ UNCHANGED part
  /\ \/ part = "protection" /\ Next /\ UNCHANGED <<pvars, fvars, avars, dvars, rvars>>
     \/ part = "passwords" /\ P!Next /\ UNCHANGED <<vars, fvars, avars, dvars, rvars>>
     \/ part = "profile" /\ F!Next /\ UNCHANGED <<vars, pvars, avars, dvars, rvars>>
     \/ part = "access" /\ A!Next /\ UNCHANGED <<vars, pvars, fvars, dvars, rvars>>
     \/ part = "database" /\ D!Next /\ UNCHANGED <<vars, pvars, fvars, avars, rvars>>
     \/ part = "recognition" /\ R!Next /\ UNCHANGED <<vars, pvars, fvars, avars, dvars>>

MCSpec == MCInit /\ [][MCNext]_<<part, vars, pvars, fvars, avars, dvars, rvars>>

\* The protection of nicknames by itself.
MCProtection == part = "protection" /\ MCSpec

-----------------------------------------------------------------------------
\* The hash and salt of an account are of one password, whatever statement of
\* SET PASSWORD, RESETPASS or SENDPASS failed, and no code that was mailed sets a
\* password twice (see Passwords).
PasswordWorks == part = "passwords" => P!PasswordWorks /\ P!CodesDie

\* What changes in a session's copy of its account is what the row has (see
\* Profile).
CopyIsRow == F!CopyIsRow

\* Nobody has an operator's or an administrator's access without what gives it
\* (see OperAccess), and nobody acts for an account, or is spared from losing its
\* nickname, without what recognises them (see Recognition).
AccessHasGrounds ==
  /\ part = "access" => A!AccessHasGrounds
  /\ part = "recognition" => R!RecognisedRightly

\* A function that runs a transaction leaves all of its writes or none of them,
\* as it says, and no transaction open; what scripts prepared stays prepared; a
\* struct's copy of a column is the row's (see Database).
TransactionsHold == part = "database" => D!TransactionsHold
=============================================================================
