----------------------------- MODULE Recognition -----------------------------
(***************************************************************************)
(* How NickServ comes to know a user: by a password, by the fingerprint of *)
(* a client certificate, by user@host on an account's access list, by the  *)
(* word of a server whose AUTH it answered; and how it forgets again.      *)
(* ns_on_newuser, ns_on_nick_change, ns_on_certfp, ns_on_auth_requested,   *)
(* m_identify, m_regain and the commands ACCESS, CERT, AJOIN and SET of    *)
(* modules/nickserv.c, with their tables in src/nickname.c.                *)
(*                                                                         *)
(* Everybody else comes and goes unseen: any nickname may be worn by       *)
(* somebody, and be free again when a session changes to it.  Who enforces *)
(* and releases nicknames is NickSession.                                  *)
(***************************************************************************)
EXTENDS Naturals, FiniteSets

CONSTANTS
  Sessions, Accounts, Channels,
  Nicks, Owner,     \* [Nicks -> Accounts \cup {None}]
  None,             \* NULL
  Enforced,         \* accounts with the ENFORCE flag
  Hosts, Reach,     \* entries of access lists; [Hosts -> SUBSET Sessions] whom match() finds
  Prints, Fits,     \* fingerprints, as users type or have them; <<entry, print>> that match()
  MaxEdits          \* bound: changes of accounts' lists and flags

VARIABLES
  ses,        \* per session, what struct Client says of it
  listed,     \* sessions on nick_enforce_list
  secure,     \* accounts with the SECURE flag
  hosts,      \* account_access: per account, its entries
  certs,      \* account_fingerprint: per account, its entries
  ajoin,      \* account_autojoin: per account, its channels
  vouched,    \* <<nickname, account>>: AUTH was answered with yes
  edits,
  grounds,    \* history: <<session, account>>: had grounds to act for it
  moving,     \* history: a nickname was asked for and has not come yet
  claimed,    \* history: a server alone says they are identified, or not
  pulled,     \* history: <<session, channel>>: SVSJOIN sent
  ever        \* history: <<account, channel>>: was on the account's list

vars == <<ses, listed, secure, hosts, certs, ajoin, vouched, edits, grounds, moving, claimed, pulled,
          ever>>
rows == <<secure, hosts, certs, ajoin, edits, ever>>

Offline == [nick |-> None, as |-> None, ident |-> FALSE, may |-> FALSE,
            onaccess |-> FALSE, sentcert |-> FALSE, certfp |-> None]

TypeOK ==
  /\ ses \in [Sessions -> [nick : Nicks \cup {None}, as : Nicks \cup {None}, ident : BOOLEAN, may : BOOLEAN,
                           onaccess : BOOLEAN, sentcert : BOOLEAN, certfp : Prints \cup {None}]]
  /\ listed \cup moving \cup claimed \subseteq Sessions /\ secure \subseteq Accounts
  /\ hosts \in [Accounts -> SUBSET Hosts] /\ ajoin \in [Accounts -> SUBSET Channels]
  /\ certs \in [Accounts -> SUBSET [value : Prints, nick : Nicks \cup {None}]]
  /\ vouched \subseteq Nicks \X Accounts /\ edits \in 0..MaxEdits
  /\ grounds \subseteq Sessions \X Accounts /\ pulled \subseteq Sessions \X Channels
  /\ ever \subseteq Accounts \X Channels

Init ==
  /\ ses = [s \in Sessions |-> Offline] /\ listed = {} /\ secure = {}
  /\ hosts = [a \in Accounts |-> {}] /\ certs = [a \in Accounts |-> {}] /\ ajoin = [a \in Accounts |-> {}]
  /\ vouched = {} /\ edits = 0 /\ grounds = {} /\ moving = {} /\ claimed = {} /\ pulled = {}
  /\ ever = {}

-----------------------------------------------------------------------------
AccountOf(r) == IF r.as = None THEN None ELSE Owner[r.as]

\* nickname_accesslist_check and nickname_cert_check
Listed(a, s) == \E h \in hosts[a] : s \in Reach[h]
Entries(a, f) == {c \in certs[a] : <<c.value, f>> \in Fits}
Certified(a, f) == f # None /\ Entries(a, f) # {}

\* Mutant: a list of hosts opens accounts that are SECURE too.
OpensMutant(a, s) == Listed(a, s)

Opens(a, s) == Listed(a, s) /\ a \notin secure

\* What speaks for a session by itself.
Seen == {g \in Sessions \X Accounts :
           LET r == ses[g[1]]
           IN  r.nick # None /\ (\/ Certified(g[2], r.certfp)
                                 \/ /\ Owner[r.nick] = g[2] /\ Listed(g[2], g[1])
                                    /\ g[2] \notin secure)}
Watch(given) == grounds' = {g \in grounds : ses'[g[1]].nick # None} \cup Seen' \cup given

\* identify_user with its callbacks: the protocol module sets the mode and
\* NickServ has the user join the channels of the account's list.
Identified(r, n) == [r EXCEPT !.as = n, !.ident = TRUE, !.may = TRUE]
Autojoin(s, a) == pulled' = pulled \cup {<<s, c>> : c \in ajoin[a]}

\* handle_nick_change for a session that is already r: it has the nickname, or
\* whoever has it is asked to go and the session is given it later.
HandleNickChange(s, r, n) ==
  /\ listed' = listed \ {s} /\ claimed' = claimed \ {s}
  /\ IF r.nick = n
     THEN ses' = [ses EXCEPT ![s] = Identified(r, r.as)] /\ Autojoin(s, AccountOf(r)) /\ moving' = moving \ {s}
     ELSE ses' = [ses EXCEPT ![s] = [r EXCEPT !.ident = TRUE]] /\ moving' = moving \cup {s} /\ UNCHANGED pulled

-----------------------------------------------------------------------------
(* What a user's nickname says when it comes *)

\* A session that was identified, or said to be, is no more when its nickname changes.
Unclaimed(s) == IF ses[s].ident THEN claimed \ {s} ELSE claimed

\* The rest of ns_on_newuser and ns_on_nick_change for a session r that wears
\* the registered nickname of a and is not known yet.
ByHost(s, r, a) ==
  LET found == [r EXCEPT !.onaccess = TRUE]
  IN  IF Opens(a, s)
      THEN /\ ses' = [ses EXCEPT ![s] = Identified(found, r.nick)] /\ Autojoin(s, a)
           /\ listed' = listed \ {s} /\ claimed' = claimed \ {s}
      ELSE /\ ses' = [ses EXCEPT ![s] = IF Listed(a, s) THEN found ELSE r]
           /\ listed' = IF ~Listed(a, s) /\ a \in Enforced THEN listed \cup {s} ELSE listed \ {s}
           /\ claimed' = Unclaimed(s) /\ UNCHANGED pulled

\* ns_on_newuser: a server introduces the session; vouched nicknames have +R,
\* and so may one that was registered when the server last heard of it.
NewUser(s, n, r) ==
  LET a == Owner[n]
      new == [Offline EXCEPT !.nick = n, !.ident = r]
  IN  /\ ses[s] = Offline
      /\ r => n \in {v[1] : v \in vouched} \/ a = None
      /\ IF a = None
         THEN /\ ses' = [ses EXCEPT ![s] = new]
              /\ claimed' = IF r THEN claimed \cup {s} ELSE claimed
              /\ UNCHANGED <<listed, pulled>>
         ELSE IF r THEN /\ ses' = [ses EXCEPT ![s] = Identified(new, n)] /\ Autojoin(s, a)
                        /\ UNCHANGED <<listed, claimed>>
         ELSE ByHost(s, new, a)
      /\ vouched' = {} /\ UNCHANGED <<rows, moving>>
      /\ Watch(IF r THEN {<<s, v[2]>> : v \in {w \in vouched : w[1] = n}} ELSE {})

\* Mutant: a certificate is looked up among those of the account before.
ByCertMutant(s, r, a, old) ==
  Certified(a, r.certfp) \/ (old # None /\ Certified(old, r.certfp))

\* The fingerprint is one of the nickname's account.
ByCert(s, r, a, old) == Certified(a, r.certfp)

\* Mutant: what the session was identified for is kept as long as its own
\* nickname is somebody's.
ForgottenMutant(r, n) ==
  IF r.ident /\ Owner[n] = None
  THEN [r EXCEPT !.nick = n, !.as = None, !.ident = FALSE, !.may = FALSE, !.sentcert = FALSE]
  ELSE [r EXCEPT !.nick = n]

\* What ns_on_nick_change leaves of a session before it looks at the nickname.
Forgotten(r, n) ==
  IF r.ident THEN [r EXCEPT !.nick = n, !.as = None, !.ident = FALSE, !.may = FALSE, !.sentcert = FALSE]
  ELSE [r EXCEPT !.nick = n]

\* ns_on_nick_change
NickChange(s, n) ==
  LET r == ses[s]
      new == Forgotten(r, n)
      old == IF r.ident THEN AccountOf(r) ELSE None
      a == Owner[n]
  IN  /\ r.nick \notin {None, n}
      /\ moving' = moving \ {s}
      /\ IF a = None
         THEN /\ ses' = [ses EXCEPT ![s] = [new EXCEPT !.as = None]]
              /\ listed' = listed \ {s} /\ claimed' = Unclaimed(s)
              /\ UNCHANGED pulled
         ELSE IF old = a \/ ByCert(s, new, a, old)
         THEN /\ ses' = [ses EXCEPT ![s] = [Identified(new, n) EXCEPT !.sentcert = old # a]]
              /\ Autojoin(s, a) /\ listed' = listed \ {s} /\ claimed' = claimed \ {s}
         ELSE ByHost(s, new, a)
      /\ UNCHANGED <<rows, vouched>> /\ Watch({})

\* m_certfp and ns_on_certfp: the fingerprint comes after the user did; an entry
\* may name another nickname of the account to give to the user.
Certfp(s, f) ==
  LET r == [ses[s] EXCEPT !.certfp = f]
      a == Owner[r.nick]
  IN  /\ r.nick # None /\ ses[s].certfp = None
      /\ IF a = None \/ r.as = r.nick \/ Entries(a, f) = {}
         THEN ses' = [ses EXCEPT ![s] = r] /\ UNCHANGED <<listed, claimed, moving, pulled>>
         ELSE \E c \in Entries(a, f) :
                LET known == [r EXCEPT !.as = r.nick, !.sentcert = TRUE]
                IN  HandleNickChange(s, known, IF c.nick = None THEN r.nick ELSE c.nick)
      /\ UNCHANGED <<rows, vouched>> /\ Watch({})

\* Mutant: the nickname asked for need not be of the account that logs in.
AuthRequestedMutant(user, n, f) ==
  /\ \E s \in Sessions : ses[s] = Offline
  /\ {Owner[user], Owner[n]} \cap {None} = {}
  /\ f # None => Certified(Owner[user], f)
  /\ vouched' = vouched \cup {<<n, Owner[user]>>}
  /\ UNCHANGED <<ses, listed, rows, grounds, moving, claimed, pulled>>

\* ns_on_auth_requested, answered with yes: the account's password (None) or the
\* fingerprint f is right, and the nickname asked for is the account's.  The server
\* asks while somebody connects.
AuthRequested(user, n, f) ==
  /\ \E s \in Sessions : ses[s] = Offline
  /\ {Owner[user], Owner[n]} \cap {None} = {} /\ Owner[user] = Owner[n]
  /\ f # None => Certified(Owner[user], f)
  /\ vouched' = vouched \cup {<<n, Owner[user]>>}
  /\ UNCHANGED <<ses, listed, rows, grounds, moving, claimed, pulled>>

\* QUIT
Quit(s) ==
  /\ ses[s] # Offline
  /\ ses' = [ses EXCEPT ![s] = Offline]
  /\ listed' = listed \ {s} /\ moving' = moving \ {s} /\ claimed' = claimed \ {s}
  /\ pulled' = {p \in pulled : p[1] # s}
  /\ UNCHANGED <<rows, vouched>> /\ Watch({})

\* m_svsmode: a server sets or clears the mode; the account stays as it is.
Svsmode(s, on) ==
  /\ ses[s].nick # None /\ ses[s].ident # on
  /\ ses' = [ses EXCEPT ![s].ident = on]
  /\ claimed' = claimed \cup {s}
  /\ UNCHANGED <<listed, rows, vouched, moving, pulled>> /\ Watch({})

-----------------------------------------------------------------------------
(* Commands *)

\* m_identify with the right password, or without one and with a certificate
\* (check_nick_pass); for the nickname worn or for another one.
Identify(s, n, byPass) ==
  LET r == [ses[s] EXCEPT !.as = n]
  IN  /\ ses[s].nick # None /\ Owner[n] # None
      /\ byPass \/ Certified(Owner[n], r.certfp)
      /\ HandleNickChange(s, r, n)
      /\ UNCHANGED <<rows, vouched>>
      /\ Watch(IF byPass THEN {<<s, Owner[n]>>} ELSE {})

\* Mutant: whoever was found on an access list regains what is SECURE as well.
RegainMutant(s, n) ==
  LET r == [ses[s] EXCEPT !.as = n]
  IN  /\ ses[s].nick # None /\ Owner[n] # None
      /\ Certified(Owner[n], r.certfp) \/ r.onaccess
      /\ HandleNickChange(s, r, n)
      /\ UNCHANGED <<rows, vouched>>
      /\ Watch(IF Owner[n] \notin secure THEN {<<s, Owner[n]>>} ELSE {})

\* m_regain without a password: the flag says that the session was found on an
\* access list, of this nickname or one before; it is taken for grounds.
Regain(s, n) ==
  LET r == [ses[s] EXCEPT !.as = n]
  IN  /\ ses[s].nick # None /\ Owner[n] # None
      /\ Certified(Owner[n], r.certfp) \/ (r.onaccess /\ Owner[n] \notin secure)
      /\ HandleNickChange(s, r, n)
      /\ UNCHANGED <<rows, vouched>>
      /\ Watch(IF Owner[n] \notin secure THEN {<<s, Owner[n]>>} ELSE {})

\* Commands about the account go by Client.access and Client.nickname.
Owns(s) == ses[s].may /\ ses[s].as # None
Edit(s) ==
  /\ Owns(s) /\ edits < MaxEdits /\ edits' = edits + 1
  /\ UNCHANGED <<ses, listed, vouched, moving, claimed, pulled>>

\* m_set_flag
SetSecure(s, on) ==
  /\ Edit(s)
  /\ secure' = IF on THEN secure \cup {AccountOf(ses[s])} ELSE secure \ {AccountOf(ses[s])}
  /\ UNCHANGED <<hosts, certs, ajoin, ever>> /\ Watch({})

\* m_access_add and m_access_del, with nickname_accesslist_add and _delete
AccessAdd(s, h) ==
  /\ Edit(s) /\ hosts' = [hosts EXCEPT ![AccountOf(ses[s])] = @ \cup {h}]
  /\ UNCHANGED <<secure, certs, ajoin, ever>> /\ Watch({})
AccessDel(s, h) ==
  /\ Edit(s) /\ hosts' = [hosts EXCEPT ![AccountOf(ses[s])] = @ \ {h}]
  /\ UNCHANGED <<secure, certs, ajoin, ever>> /\ Watch({})

\* m_cert_add and nickname_cert_add: a fingerprint no account has yet, with one of
\* the account's nicknames or none.
CertAdd(s, f, n) ==
  /\ Edit(s)
  /\ ~Certified(AccountOf(ses[s]), f)
  /\ n # None => Owner[n] = AccountOf(ses[s])
  /\ \A b \in Accounts : f \notin {c.value : c \in certs[b]}
  /\ certs' = [certs EXCEPT ![AccountOf(ses[s])] = @ \cup {[value |-> f, nick |-> n]}]
  /\ UNCHANGED <<secure, hosts, ajoin, ever>> /\ Watch({})

\* m_cert_del and nickname_cert_delete
CertDel(s, f) ==
  /\ Edit(s)
  /\ certs' = [certs EXCEPT ![AccountOf(ses[s])] = {c \in @ : c.value # f}]
  /\ UNCHANGED <<secure, hosts, ajoin, ever>> /\ Watch({})

\* m_ajoin_add and m_ajoin_del, of registered channels
AjoinAdd(s, c) ==
  /\ Edit(s) /\ ajoin' = [ajoin EXCEPT ![AccountOf(ses[s])] = @ \cup {c}]
  /\ ever' = ever \cup {<<AccountOf(ses[s]), c>>}
  /\ UNCHANGED <<secure, hosts, certs>> /\ Watch({})
AjoinDel(s, c) ==
  /\ Edit(s) /\ ajoin' = [ajoin EXCEPT ![AccountOf(ses[s])] = @ \ {c}]
  /\ UNCHANGED <<secure, hosts, certs, ever>> /\ Watch({})

\* m_status: what anybody is told of a session.  The flag of the access list is
\* never cleared.
Status(r) ==
  CASE r.sentcert -> "certificate"
    [] r.onaccess /\ ~r.sentcert -> "access list"
    [] r.ident /\ ~r.onaccess /\ ~r.sentcert -> "password"
    [] OTHER -> "not registered"

-----------------------------------------------------------------------------
Next ==
  \/ \E s \in Sessions : Quit(s) \/ \E on \in BOOLEAN : Svsmode(s, on) \/ SetSecure(s, on)
  \/ \E s \in Sessions, n \in Nicks :
       \/ NickChange(s, n) \/ Regain(s, n)
       \/ \E b \in BOOLEAN : NewUser(s, n, b) \/ Identify(s, n, b)
  \/ \E s \in Sessions, f \in Prints :
       Certfp(s, f) \/ CertDel(s, f) \/ \E n \in Nicks \cup {None} : CertAdd(s, f, n)
  \/ \E user, n \in Nicks, f \in Prints \cup {None} : AuthRequested(user, n, f)
  \/ \E s \in Sessions, h \in Hosts : AccessAdd(s, h) \/ AccessDel(s, h)
  \/ \E s \in Sessions, c \in Channels : AjoinAdd(s, c) \/ AjoinDel(s, c)

Spec == Init /\ [][Next]_vars

-----------------------------------------------------------------------------
\* A session acts for an account only if, since it came, it gave the account's
\* password, had a certificate of the account, was on its access list under one of
\* its nicknames while it was not SECURE, was vouched for, or regained it by the
\* flag of an earlier access list (see Regain); and it is made to join channels of
\* such accounts' lists only.
ActsOnGrounds ==
  /\ \A s \in Sessions : ses[s].as # None => <<s, AccountOf(ses[s])>> \in grounds
  /\ \A p \in pulled : \E a \in Accounts : <<p[1], a>> \in grounds /\ <<a, p[2]>> \in ever

\* A session acts for the account of the nickname it wears, unless it waits for
\* its nickname to be changed or a server had cleared its mode.
ActsAsItIsNamed ==
  \A s \in Sessions \ (moving \cup claimed) :
    ses[s].as # None => AccountOf(ses[s]) = Owner[ses[s].nick]

\* Who is identified has an account, unless only a server says so; and who has an
\* account is not about to lose the nickname for want of a password.
IdentifiedHaveAccounts ==
  \A s \in Sessions \ claimed :
    /\ ses[s].ident = (ses[s].as # None)
    /\ ses[s].as # None /\ AccountOf(ses[s]) = Owner[ses[s].nick] => s \notin listed

\* What STATUS says of a certificate or a password holds; a session found on an
\* access list before may be anything.
StatusIsSo ==
  \A s \in Sessions \ claimed :
    /\ Status(ses[s]) \in {"certificate", "password"} => <<s, AccountOf(ses[s])>> \in grounds
    /\ Status(ses[s]) = "not registered" => ses[s].as = None

\* The four of them.
RecognisedRightly == ActsOnGrounds /\ ActsAsItIsNamed /\ IdentifiedHaveAccounts /\ StatusIsSo
=============================================================================
