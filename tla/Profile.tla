------------------------------ MODULE Profile ------------------------------
(***************************************************************************)
(* What an account says of its owner: the row of the table account, and    *)
(* the Nickname structure of which every identified session has a copy.    *)
(* The setters of src/nickname.c write the row, then the one copy they     *)
(* were given; VERIFY and CLOAKSTRING of modules/nickserv.c are commands   *)
(* of others; do_cloak turns a copy into the host other users see, and     *)
(* identify_user and ns_on_quit keep a host for INFO to show.              *)
(***************************************************************************)
EXTENDS Naturals

CONSTANTS
  Accounts, Sessions,
  Nicks, Owner,     \* nicknames, and [Nicks -> Accounts \cup {Unset}]: Unset is unregistered
  Cloaks,           \* cloak strings
  Default,          \* ServicesInfo.default_cloak
  Bare,             \* the host a user connected with
  Unset             \* NULL, an empty string

VARIABLES
  row,      \* the table account
  copy,     \* Client.nickname of each session, or NoCopy
  name,     \* the nickname each session wears
  host,     \* Client.host of each session
  pending   \* sessions identified for a nickname they are still to be given

vars == <<row, copy, name, host, pending>>

NewRow == [verified |-> FALSE, cloakOn |-> FALSE, cloak |-> Unset, lastHost |-> Unset]
Fields == {"verified", "cloakOn", "cloak"}
NoCopy == [acct |-> Unset]
\* row_to_nickname; nobody reads a copy's last_host.
Read(a) == [acct |-> a, verified |-> row[a].verified, cloakOn |-> row[a].cloakOn, cloak |-> row[a].cloak]
In(s) == copy[s] # NoCopy

Init ==
  /\ row = [a \in Accounts |-> NewRow]
  /\ copy = [s \in Sessions |-> NoCopy]
  /\ name \in {w \in [Sessions -> Nicks] : \A s, t \in Sessions : w[s] = w[t] => s = t}
  /\ host = [s \in Sessions |-> Bare]
  /\ pending = {}

-----------------------------------------------------------------------------
(* The setters: a statement that fails leaves row and copy alone. *)

\* Mutant: the copy is written although the statement has failed.
SetMutant(s, f, v, ok) ==
  /\ row' = [row EXCEPT ![copy[s].acct][f] = IF ok THEN v ELSE @]
  /\ copy' = [copy EXCEPT ![s][f] = v]

\* nickname_set_language .. nickname_set_priv and the setters of strings.
Set(s, f, v, ok) ==
  /\ row' = [row EXCEPT ![copy[s].acct][f] = IF ok THEN v ELSE @]
  /\ copy' = [copy EXCEPT ![s][f] = IF ok THEN v ELSE @]

\* do_cloak: the host a user with copy c is given.
Cloaked(c, h) ==
  IF ~c.cloakOn THEN h
  ELSE IF c.cloak # Unset THEN c.cloak
  ELSE IF c.verified THEN Default
  ELSE h

\* Mutant: identify_user notes the host, then cloaks it.
IdentifyUserMutant(s, c) ==
  /\ host' = [host EXCEPT ![s] = Cloaked(c, @)]
  /\ row' = [row EXCEPT ![c.acct].lastHost = host[s]]
  /\ copy' = [copy EXCEPT ![s] = c]
  /\ pending' = pending \ {s}

\* identify_user
IdentifyUser(s, c) ==
  /\ host' = [host EXCEPT ![s] = Cloaked(c, @)]
  /\ row' = [row EXCEPT ![c.acct].lastHost = host'[s]]
  /\ copy' = [copy EXCEPT ![s] = c]
  /\ pending' = pending \ {s}

-----------------------------------------------------------------------------
(* Sessions *)

\* IDENTIFY for the account of the nickname worn, or of another one: then the
\* copy is there although the nickname is still to be changed (handle_nick_change).
Identify(s, n) ==
  /\ Owner[n] # Unset
  /\ IF n = name[s]
     THEN IdentifyUser(s, Read(Owner[n]))
     ELSE /\ copy' = [copy EXCEPT ![s] = Read(Owner[n])]
          /\ pending' = pending \cup {s}
          /\ UNCHANGED <<row, host>>
  /\ UNCHANGED name

\* ns_on_nick_change: another nickname of the account identifies at once.
NickChange(s, n) ==
  /\ n \notin {name[t] : t \in Sessions}
  /\ name' = [name EXCEPT ![s] = n]
  /\ IF In(s) /\ copy[s].acct = Owner[n]
     THEN IdentifyUser(s, Read(Owner[n]))
     ELSE /\ copy' = [copy EXCEPT ![s] = NoCopy]
          /\ pending' = pending \ {s}
          /\ UNCHANGED <<row, host>>

\* Mutant: ns_on_quit has the cloak only in mind when there is none.
LastHostMutant(s) == host[s]

\* What ns_on_quit leaves behind as last_host.
LastHost(s) == IF copy[s].cloakOn /\ copy[s].cloak # Unset THEN copy[s].cloak ELSE host[s]

\* ns_on_quit; another user takes the session's place.
Quit(s) ==
  /\ row' = IF In(s) THEN [row EXCEPT ![copy[s].acct].lastHost = LastHost(s)] ELSE row
  /\ copy' = [copy EXCEPT ![s] = NoCopy]
  /\ host' = [host EXCEPT ![s] = Bare]
  /\ pending' = pending \ {s}
  /\ UNCHANGED name

-----------------------------------------------------------------------------
(* Commands *)

\* Services are started anew: users keep nickname and host.
Crash ==
  /\ copy' = [s \in Sessions |-> NoCopy] /\ pending' = {}
  /\ UNCHANGED <<name, host>>

\* SET CLOAK, which cloaks only a user who wears a nickname of the account; one
\* of nobody's has no Nickname to compare with.
SetCloak(s, on, ok) ==
  LET turned == ~copy[s].cloakOn /\ on /\ ok
  IN  /\ In(s)
      /\ IF turned /\ Owner[name[s]] = Unset
         THEN row' = [row EXCEPT ![copy[s].acct].cloakOn = TRUE] /\ Crash
         ELSE /\ Set(s, "cloakOn", on, ok)
              /\ host' = IF turned /\ Owner[name[s]] = copy[s].acct
                         THEN [host EXCEPT ![s] = Cloaked(copy'[s], @)] ELSE host
              /\ UNCHANGED <<name, pending>>

\* CLOAKSTRING: the copy of who wears the nickname, of whatever account it is;
\* the row if there is none.
Wearer(n) == {s \in Sessions : name[s] = n /\ In(s)}
CloakString(n, v, ok) ==
  /\ Wearer(n) # {} \/ Owner[n] # Unset
  /\ IF Wearer(n) = {}
     THEN /\ row' = [row EXCEPT ![Owner[n]].cloak = IF ok THEN v ELSE @]
          /\ UNCHANGED <<copy, host>>
     ELSE \E s \in Wearer(n) :
            /\ Set(s, "cloak", v, ok)
            /\ host' = IF ok THEN [host EXCEPT ![s] = Cloaked(copy'[s], @)] ELSE host
  /\ UNCHANGED <<name, pending>>

\* VERIFY by an admin: who wears a nickname of the account and is
\* identified, be it for another one, gets its row.
Verify(a, on) ==
  LET fresh == [Read(a) EXCEPT !.verified = on]
      at == {s \in Sessions : In(s) /\ Owner[name[s]] = a}
  IN /\ row' = [row EXCEPT ![a].verified = on]
     /\ copy' = [s \in Sessions |-> IF s \in at THEN fresh ELSE copy[s]]
     /\ host' = [s \in Sessions |-> IF s \in at /\ on THEN Cloaked(fresh, host[s]) ELSE host[s]]
     /\ UNCHANGED <<name, pending>>

Next ==
  \/ \E s \in Sessions, n \in Nicks : Identify(s, n) \/ NickChange(s, n)
  \/ \E s \in Sessions : Quit(s)
  \/ \E s \in Sessions, on, ok \in BOOLEAN : SetCloak(s, on, ok)
  \/ \E n \in Nicks, v \in Cloaks \cup {Unset}, ok \in BOOLEAN : CloakString(n, v, ok)
  \/ \E a \in Accounts, on \in BOOLEAN : Verify(a, on)

Spec == Init /\ [][Next]_vars

-----------------------------------------------------------------------------
\* A session never takes on what the table does not say: what changes in a
\* copy is, then, what the row has (the setters of nickname.c).
CopyIsRow == [][
  \A s \in Sessions : In(s) /\ copy'[s] # NoCopy =>
    \A f \in Fields : copy'[s].acct = copy[s].acct /\ copy'[s][f] # copy[s][f]
                        => copy'[s][f] = row'[copy[s].acct][f]]_vars

\* The host a user connected with gets into last_host, which INFO shows, only
\* through a session whose copy has no cloak to show instead, or that
\* never got the nickname it identified for (identify_user, ns_on_quit).
Uncloaked(s, c) == ~c.cloakOn \/ (c.cloak = Unset /\ (~c.verified \/ s \in pending))
BareOnlyUncloaked == [][
  \A a \in Accounts : row'[a].lastHost = Bare /\ row[a].lastHost # Bare =>
    \E s \in Sessions : \/ In(s) /\ copy[s].acct = a /\ copy'[s] = NoCopy /\ Uncloaked(s, copy[s])
                        \/ copy'[s] # NoCopy /\ copy'[s].acct = a /\ Uncloaked(s, copy'[s])]_vars
=============================================================================
