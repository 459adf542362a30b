------------------------------ MODULE Dispatch ------------------------------
(***************************************************************************)
(* From the text of a PRIVMSG to the handler of a service: string_to_array,*)
(* process_privmsg and handle_services_command of src/parse.c, over the    *)
(* command tables of modules/*.c.  process_privmsg works in the array      *)
(* servpara, moving parameters about in place; handle_services_command     *)
(* decides whether the handler runs and leaves the DBChannel it looked up  *)
(* with the channel.                                                       *)
(***************************************************************************)
EXTENDS Naturals, Sequences, FiniteSets

CONSTANTS
  MaxPara,      \* IRCD_MAXPARA, 15 in the code
  MaxWords,     \* bound on the words of a line
  MaxObjects    \* bound on the DBChannel structures allocated

VARIABLES
  exists,    \* services have a struct Channel for the channel
  regchan,   \* its DBChannel, 0 for NULL
  row,       \* the channel is registered
  live,      \* DBChannel structures allocated and not freed
  failed,    \* history: make_channel could not read the row
  crashed,   \* services have dereferenced NULL
  asked,     \* the last request: command, words, user
  ran        \* what came of it: handler and parameters, or a refusal

\* A handler has a parameter and NULL after it.
ASSUME DispatchAssumption ==
  MaxPara \in Nat \ {0, 1} /\ MaxWords \in Nat /\ MaxObjects \in Nat

vars == <<exists, regchan, row, live, failed, crashed, asked, ran>>

\* A word of the text: the channel or group, a sub message, or one that begins
\* with ":" and takes the rest of the line.
Words == {"#c", "sub", ":x"}
Null == <<>>

-----------------------------------------------------------------------------
(* Messages: min and max of parameters, argument, access, sub messages *)

\* ServicesPermission, ChannelPermission and GroupPermission
Anyone == 0
Identified == 1
Oper == 2
Admin == 3
Sudo == 4
CHUSER == 0
MEMBER == 2
CHANOP == 3
MASTER == 4

NoLimit == 99    \* SFLG_NOMAXPARAM

Message(cmd, arg, min, max, access, keep, subs) ==
  [cmd |-> cmd, arg |-> arg, min |-> min, max |-> max, access |-> access, keep |-> keep, subs |-> subs]

\* modules/chanserv.c: INFO, DROP, SET with TOPIC, ACCESS with LIST, SUDO
ChanServCommands ==
  { Message("INFO", "chan", 1, 1, CHUSER, FALSE, {}),
    Message("DROP", "chan", 1, 2, MASTER, FALSE, {}),
    Message("SET", "chan", 2, 2, MASTER, TRUE, {[min |-> 1, max |-> NoLimit, access |-> CHANOP]}),
    Message("ACCESS", "chan", 2, 2, MASTER, TRUE, {[min |-> 1, max |-> 1, access |-> CHUSER]}),
    Message("SUDO", "none", 2, NoLimit, Admin, FALSE, {}) }

\* modules/groupserv.c: ACCESS with DEL
GroupServCommands ==
  { Message("GROUP ACCESS", "group", 2, 2, MASTER, TRUE, {[min |-> 2, max |-> 2, access |-> MEMBER]}) }

\* modules/nickserv.c: SET with a sub message
NickServCommands ==
  { Message("NICK SET", "none", 0, 0, Identified, FALSE, {[min |-> 0, max |-> 1, access |-> Identified]}) }

\* modules/operserv.c: AKILL with ADD
OperServCommands ==
  { Message("AKILL", "none", 2, 2, Oper, FALSE, {[min |-> 2, max |-> NoLimit, access |-> Oper]}) }

Commands == ChanServCommands \cup GroupServCommands \cup NickServCommands \cup OperServCommands

\* access, whether client->nickname is set, level in channel_access or group_access
Users ==
  { [access |-> Anyone, nickname |-> FALSE, level |-> CHUSER],
    [access |-> Oper, nickname |-> FALSE, level |-> CHUSER],
    [access |-> Sudo, nickname |-> TRUE, level |-> CHUSER] } \cup
  [access : {Identified}, nickname : {TRUE}, level : {CHUSER, MEMBER, CHANOP, MASTER}]

-----------------------------------------------------------------------------
(* Parameters are sequences of words: the last one may have several. *)

Least(S) == CHOOSE n \in S : \A m \in S : n <= m

\* string_to_array: what it returns, the count plus one, and the array parv.
StringToArray(ws) ==
  LET last == Least({i \in 1..Len(ws) : ws[i] = ":x"} \cup {MaxPara - 1, Len(ws)})
  IN  [i |-> last + 1,
       v |-> [k \in 1..(MaxPara + 1) |->
                IF k > last THEN Null
                ELSE IF k < last THEN <<ws[k]>> ELSE SubSeq(ws, k, Len(ws))]]

\* for(j = 2; j <= i; j++) servpara[j-1] = servpara[j]
Shift(v, i) == [k \in DOMAIN v |-> IF k \in 1..(i - 1) THEN v[k + 1] ELSE v[k]]
Swap(v) == [v EXCEPT ![1] = v[2], ![2] = v[1]]

NoParameters == [i |-> 0, v |-> [k \in 1..(MaxPara + 1) |-> Null]]

\* Mutant: parameters are exchanged after the sub message has been looked for.
ProcessPrivmsgMutant(m, ws) ==
  LET a == IF ws = <<>> THEN NoParameters ELSE StringToArray(ws)
      sub == m.subs # {} /\ a.v[1] # Null
      v == IF a.i > 2 /\ m.keep /\ ~sub THEN Swap(a.v) ELSE a.v
  IN  [m |-> m, sub |-> sub,
       unknown |-> sub /\ v[1] # <<"sub">>,
       n |-> IF a.i = 0 THEN 0 ELSE IF sub THEN a.i - 2 ELSE a.i - 1,
       v |-> IF sub THEN Shift(v, a.i) ELSE v]

\* process_privmsg, from the command on: the message, the number of parameters
\* and the array that handle_services_command is called with.
ProcessPrivmsg(m, ws) ==
  LET a == IF ws = <<>> THEN NoParameters ELSE StringToArray(ws)
      v == IF a.i > 2 /\ m.keep THEN Swap(a.v) ELSE a.v
      sub == m.subs # {} /\ v[1] # Null
  IN  [m |-> m, sub |-> sub,
       unknown |-> sub /\ v[1] # <<"sub">>,
       n |-> IF a.i = 0 THEN 0 ELSE IF sub THEN a.i - 2 ELSE a.i - 1,
       v |-> IF sub THEN Shift(v, a.i) ELSE v]

\* The entry of the command table the call is for.
Entry(p) == IF p.sub THEN CHOOSE e \in p.m.subs : TRUE ELSE p.m

-----------------------------------------------------------------------------
(* handle_services_command *)

TooFew(p) == p.n < Entry(p).min
TooMany(p) == p.n > Entry(p).max

\* The level of a user on the channel or group a command is for.
Level(u) == IF ~u.nickname THEN CHUSER ELSE IF u.access = Sudo THEN MASTER ELSE u.level

Refused == [handler |-> "none", ps |-> <<>>]

\* The call of the handler: it has n parameters and finds NULL after them.
Call(p) == [handler |-> IF p.sub THEN "sub" ELSE "main", ps |-> [i \in 1..(p.n + 1) |-> p.v[i]]]

\* A command about a channel looks the channel up, unless it has its DBChannel.
\* What was looked up is freed, or left with the channel; then what the channel
\* had is freed, which can only be NULL.
ChannelCommand(p, u) ==
  IF p.v[1] # <<"#c">> \/ ~row \/ Level(u) < Entry(p).access
  THEN ran' = Refused /\ UNCHANGED crashed
  ELSE /\ crashed' = (exists /\ regchan = 0)
       /\ ran' = IF crashed' THEN Refused ELSE Call(p)

\* A command about a group looks the group up and frees it.
GroupCommand(p, u) ==
  /\ ran' = IF p.v[1] # <<"#c">> \/ Level(u) < Entry(p).access THEN Refused ELSE Call(p)
  /\ UNCHANGED crashed

HandleServicesCommand(p, u) ==
  IF p.unknown \/ TooFew(p) \/ TooMany(p) THEN ran' = Refused /\ UNCHANGED crashed
  ELSE CASE p.m.arg = "chan" -> ChannelCommand(p, u)
         [] p.m.arg = "group" -> GroupCommand(p, u)
         [] OTHER -> /\ ran' = IF u.access < Entry(p).access THEN Refused ELSE Call(p)
                     /\ UNCHANGED crashed

NotAsked == <<>>

\* A PRIVMSG to a service.
Privmsg(m, ws, u) ==
  /\ ~crashed /\ asked = NotAsked
  /\ asked' = [m |-> m, ws |-> ws, u |-> u]
  /\ HandleServicesCommand(ProcessPrivmsg(m, ws), u)
  /\ UNCHANGED <<exists, regchan, row, live, failed>>

\* The handler returns.
Return ==
  /\ asked # NotAsked /\ ~crashed
  /\ asked' = NotAsked /\ ran' = Refused
  /\ UNCHANGED <<exists, regchan, row, live, failed, crashed>>

-----------------------------------------------------------------------------
(* The channel comes and goes *)

\* A structure that is not allocated.
New == LET free == (1..MaxObjects) \ live IN {n \in free : \A m \in free : n <= m}

Between == ~crashed /\ asked = NotAsked /\ UNCHANGED <<crashed, asked, ran>>

\* make_channel, whose dbchannel_find may fail
MakeChannel(ok) ==
  /\ Between /\ ~exists
  /\ exists' = TRUE
  /\ IF row /\ ok THEN \E new \in New : regchan' = new /\ live' = live \cup {new}
     ELSE UNCHANGED <<regchan, live>>
  /\ failed' = (failed \/ (row /\ ~ok))
  /\ UNCHANGED row

\* Mutant: the DBChannel stays when its channel goes.
DestroyChannelMutant ==
  /\ Between /\ exists
  /\ exists' = FALSE /\ regchan' = 0 /\ live' = live
  /\ UNCHANGED <<row, failed>>

\* destroy_channel
DestroyChannel ==
  /\ Between /\ exists
  /\ exists' = FALSE /\ regchan' = 0 /\ live' = live \ {regchan}
  /\ UNCHANGED <<row, failed>>

\* REGISTER, which is not a CHANARG command: if the row is there after all the
\* INSERT fails and the new structure is left.
Register ==
  /\ Between /\ exists /\ regchan = 0
  /\ \E new \in New : live' = live \cup {new} /\ regchan' = IF row THEN 0 ELSE new
  /\ row' = TRUE
  /\ UNCHANGED <<exists, failed>>

\* m_drop: without a channel it looks the row up and frees it.
Drop ==
  /\ ran.handler = "main" /\ asked.m.cmd = "DROP"
  /\ row' = FALSE /\ regchan' = 0 /\ live' = live \ {regchan}
  /\ asked' = NotAsked /\ ran' = Refused
  /\ UNCHANGED <<exists, failed, crashed>>

Init ==
  /\ exists = FALSE /\ regchan = 0 /\ row \in BOOLEAN /\ live = {}
  /\ failed = FALSE /\ crashed = FALSE
  /\ asked = NotAsked /\ ran = Refused

Lines == UNION {[1..n -> Words] : n \in 0..MaxWords}

Next ==
  \/ \E m \in Commands, ws \in Lines, u \in Users : Privmsg(m, ws, u)
  \/ Return
  \/ \E ok \in BOOLEAN : MakeChannel(ok)
  \/ DestroyChannel
  \/ Register
  \/ Drop

Spec == Init /\ [][Next]_vars

-----------------------------------------------------------------------------
(* What a user means by a line, without arrays *)

\* A line's parameters: one word each, the last may have more.
Parameters(ws) ==
  LET last == Least({i \in 1..Len(ws) : ws[i] = ":x"} \cup {MaxPara - 1, Len(ws)})
  IN  [i \in 1..last |-> IF i < last THEN <<ws[i]>> ELSE SubSeq(ws, i, Len(ws))]

\* "SET #channel TOPIC x" is for TOPIC with "#channel x", and "SET EMAIL x" of
\* a service whose commands have no target for EMAIL with "x".
Meant(m, ws) ==
  LET ps == Parameters(ws)
      at == IF m.keep /\ Len(ps) > 1 THEN 2 ELSE 1
  IN  IF m.subs = {} \/ ps = <<>> THEN [handler |-> "main", ps |-> ps]
      ELSE IF ps[at] # <<"sub">> THEN [handler |-> "none", ps |-> <<>>]
      ELSE [handler |-> "sub", ps |-> SubSeq(ps, 1, at - 1) \o SubSeq(ps, at + 1, Len(ps))]

\* Who may have what: the users of a service by access, those of a channel or
\* group by level, a SUDO being its master.
Permitted(m, ws, u) ==
  LET meant == Meant(m, ws)
      entry == IF meant.handler = "sub" THEN CHOOSE e \in m.subs : TRUE ELSE m
  IN  /\ meant.handler # "none"
      /\ Len(meant.ps) \in entry.min..entry.max
      /\ IF m.arg = "none" THEN entry.access <= u.access
         ELSE /\ meant.ps[1] = <<"#c">>
              /\ m.arg = "chan" => row
              /\ u.access = Sudo \/ entry.access <= u.level

\* A handler runs exactly if the line names it, has as many parameters as it
\* takes and the user may, and it is given the parameters the line has, in
\* order and with NULL after them.  (process_privmsg, handle_services_command)
LineReachesHandler ==
  asked # NotAsked /\ ~crashed =>
    ran = IF Permitted(asked.m, asked.ws, asked.u)
          THEN LET meant == Meant(asked.m, asked.ws)
               IN  [handler |-> meant.handler, ps |-> Append(meant.ps, Null)]
          ELSE Refused

\* The DBChannel of a channel is allocated, no other one stays allocated, and
\* no command meets a channel without the one of its row, unless make_channel
\* could not read it.
\* (handle_services_command, make_channel, destroy_channel, m_register, m_drop)
ChannelHasItsRow ==
  /\ regchan # 0 => exists /\ row /\ regchan \in live
  /\ ~failed => ~crashed /\ live = (IF regchan = 0 THEN {} ELSE {regchan})
=============================================================================
