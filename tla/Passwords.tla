----------------------------- MODULE Passwords -----------------------------
(***************************************************************************)
(* The password of an account: its hash and its salt in the table account, *)
(* SET PASSWORD, RESETPASS and the SENDPASS codes of modules/nickserv.c,   *)
(* with sent_mail (src/dbmail.c), which spaces the codes out.              *)
(*                                                                         *)
(* Any statement may fail.  A hash is the pair of what went into it: the   *)
(* password and the salt.  Salts are random; none comes twice.             *)
(***************************************************************************)
EXTENDS Naturals

CONSTANTS
  Accounts,
  Chosen,           \* passwords users choose
  Random,           \* what nickname_reset_pass makes up
  None,
  Day,              \* how long a SENDPASS code is taken
  ExpireTime,       \* Mail.expire_time
  MaxSalt, End      \* bounds: salts drawn, the clock

VARIABLES
  row,      \* account.password and account.salt
  codes,    \* the SENDPASS codes mailed
  used,     \* history: codes that have set a password
  sent,     \* sent_mail: when a code was last mailed to an account, or 0
  torn,     \* history: accounts with a hash that is not of their salt
  salts,    \* random salts drawn
  now       \* CurrentTime

vars == <<row, codes, used, sent, torn, salts, now>>

Hash(pw, salt) == <<pw, salt>>

Init ==
  /\ row \in [Accounts -> {[pass |-> Hash(pw, 0), salt |-> 0] : pw \in Chosen}]
  /\ codes = {} /\ used = {} /\ sent = [a \in Accounts |-> 0]
  /\ torn = {} /\ salts = 0 /\ now = 1

\* check_nick_pass, on a row that has just been read
CheckNickPass(a, pw) == row[a].pass = Hash(pw, row[a].salt)

\* make_random_string
NewSalt == salts < MaxSalt /\ salts' = salts + 1

\* How a pair of statements ends: the first fails, the second fails, both work.
Outcomes == {"none", "half", "both"}

\* set_nickname_password: the hash, then its salt, in no transaction.
SetNicknamePassword(a, pw, outcome) ==
  /\ NewSalt
  /\ row' = [row EXCEPT ![a].pass = IF outcome = "none" THEN @ ELSE Hash(pw, salts + 1),
                        ![a].salt = IF outcome = "both" THEN salts + 1 ELSE @]
  /\ torn' = CASE outcome = "half" -> torn \cup {a}
               [] outcome = "both" -> torn \ {a}
               [] OTHER -> torn

SetPassword(a, pw, outcome) ==
  /\ SetNicknamePassword(a, pw, outcome)
  /\ UNCHANGED <<codes, used, sent, now>>

\* Mutant: RESETPASS without its transaction.
ResetPassMutant(a, outcome) ==
  /\ NewSalt
  /\ row' = [row EXCEPT ![a].salt = IF outcome = "none" THEN @ ELSE salts + 1,
                        ![a].pass = IF outcome = "both" THEN Hash(Random, salts + 1) ELSE @]
  /\ torn' = IF outcome = "both" THEN torn \ {a} ELSE torn
  /\ UNCHANGED <<codes, used, sent, now>>

\* m_resetpass and nickname_reset_pass: rolled back unless both work.
ResetPass(a, outcome) ==
  /\ NewSalt
  /\ row' = IF outcome = "both"
            THEN [row EXCEPT ![a] = [pass |-> Hash(Random, salts + 1), salt |-> salts + 1]]
            ELSE row
  /\ torn' = IF outcome = "both" THEN torn \ {a} ELSE torn
  /\ UNCHANGED <<codes, used, sent, now>>

\* Mutant: the code is made of the time and the account alone.
CodeMutant(a, time) == [acct |-> a, time |-> time, pass |-> None]

\* A code is made of the time, the account and the hash of its password.
Code(a, time) == [acct |-> a, time |-> time, pass |-> row[a].pass]

\* m_sendpass with a nickname: not while sent_mail has the account, but for opers.
SendPass(a, oper) ==
  /\ oper \/ sent[a] = 0
  /\ codes' = codes \cup {Code(a, now)}
  /\ sent' = [sent EXCEPT ![a] = now]
  /\ UNCHANGED <<row, used, torn, salts, now>>

Takes(c) == c = Code(c.acct, c.time) /\ now - c.time <= Day

\* m_sendpass with a code and a password
SendPassCode(c, pw, outcome) ==
  /\ Takes(c)
  /\ SetNicknamePassword(c.acct, pw, outcome)
  /\ used' = IF outcome = "none" THEN used ELSE used \cup {c}
  /\ UNCHANGED <<codes, sent, now>>

\* dbmail_expire_sentmail
ExpireMail ==
  LET old(a) == sent[a] + ExpireTime < now
  IN  /\ \E a \in Accounts : sent[a] # 0 /\ old(a)
      /\ sent' = [a \in Accounts |-> IF old(a) THEN 0 ELSE sent[a]]
      /\ UNCHANGED <<row, codes, used, torn, salts, now>>

Tick == now < End /\ now' = now + 1 /\ UNCHANGED <<row, codes, used, sent, torn, salts>>

Next ==
  \/ \E a \in Accounts, pw \in Chosen, o \in Outcomes : SetPassword(a, pw, o)
  \/ \E a \in Accounts, o \in Outcomes : ResetPass(a, o)
  \/ \E a \in Accounts, oper \in BOOLEAN : SendPass(a, oper)
  \/ \E c \in codes, pw \in Chosen, o \in Outcomes : SendPassCode(c, pw, o)
  \/ ExpireMail \/ Tick

Spec == Init /\ [][Next]_vars

-----------------------------------------------------------------------------
\* The owner can identify: an account has the hash of a password with the salt
\* that stands beside it, whatever statements of SET PASSWORD, RESETPASS and
\* SENDPASS have failed; unless SET PASSWORD or SENDPASS failed between hash
\* and salt, which nothing undoes (set_nickname_password).
PasswordWorks ==
  \A a \in Accounts \ torn : \E pw \in Chosen \cup {Random} : CheckNickPass(a, pw)

\* A SENDPASS code sets a password once: the hash it was made of is gone.
CodesDie == \A c \in used : ~Takes(c)
=============================================================================
