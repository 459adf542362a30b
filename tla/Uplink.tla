------------------------------- MODULE Uplink ------------------------------
(***************************************************************************)
(* The connection to the uplink and the main loop that serves it:          *)
(* src/services.c (main, services_die), src/connection.c, src/packet.c,    *)
(* src/send.c, libio/comm and libio/mem/dbuf.c.                            *)
(*                                                                         *)
(* Streams are made of units.  A line that leaves or arrives is            *)
(* UnitsPerLine units long; of a line that arrives the last two are CR and *)
(* LF, of one that leaves only the order matters.  The kernel's socket     *)
(* buffer has room for SockRoom units; recv returns ReadBuf at most.       *)
(* me.uplink is NULL until the connection is there and again once it is    *)
(* lost; send_queued_all, at the end of every pass of the loop, does not   *)
(* look.                                                                   *)
(***************************************************************************)
EXTENDS Naturals, Sequences, FiniteSets, SequencesExt

CONSTANTS
  Script,        \* what the uplink sends: "server", "cmd" and "short" lines
  UnitsPerLine,  \* units of a line
  ReadBuf,       \* READBUF_SIZE, in units
  SockRoom,      \* units the socket buffer holds
  Limit,         \* send_message writes above it, once the uplink is a server
  LimitUnknown,  \* the same before that
  UplinkNamed,   \* Connect.host is a name and has to be resolved
  MaxLines       \* bound on the lines services send; to connect takes two

ASSUME UplinkAssumption ==
  /\ Script \in Seq({"server", "cmd", "short"})
  /\ UnitsPerLine \in Nat /\ UnitsPerLine > 2
  /\ ReadBuf \in Nat \ {0}
  /\ SockRoom \in Nat
  /\ Limit \in Nat /\ LimitUnknown \in Nat /\ Limit <= LimitUnknown
  /\ UplinkNamed \in BOOLEAN
  /\ MaxLines \in Nat /\ MaxLines >= 2

VARIABLES
  proc,    \* "up", "crashed" or "exited"
  pc,      \* where the main loop is
  conn,    \* the uplink's descriptor: resolving, connecting, open or closed
  uplink,  \* me.uplink # NULL
  known,   \* IsServer(uplink): it has sent its SERVER line
  server,  \* the struct Server: its queues, what the socket took, history
  acked,   \* units of server.wire that have left the socket buffer
  peer,    \* the other end: "open", "closed" or "reset"
  offered, \* units it has sent
  read     \* units recv has returned

vars == <<proc, pc, conn, uplink, known, server, acked, peer, offered, read>>

netVars == <<acked, peer, offered>>

Line(k) == [p \in 1 .. UnitsPerLine |-> <<k, p>>]

\* The stream the uplink has for services: its length and its n-th unit.
StreamLen == Len(Script) * UnitsPerLine
Unit(n) == <<1 + ((n - 1) \div UnitsPerLine), 1 + ((n - 1) % UnitsPerLine)>>

IsEol(u) == u[2] > UnitsPerLine - 2

-----------------------------------------------------------------------------
(***************************************************************************)
(* The queues of a struct Server.  Operators that write return the set of  *)
(* its possible new values.                                                *)
(***************************************************************************)

\* buf_sendq, buf_recvq; wire: all units the socket has taken; lines: the
\* number of lines queued so far; kept, parsed: the units put into buf_recvq
\* and the lines given to parse since buf_recvq was last cleared.
MakeServer == [sendq |-> << >>, recvq |-> << >>, wire |-> << >>, lines |-> 0,
               kept |-> << >>, parsed |-> << >>]

Cleared(s) == [s EXCEPT !.sendq = << >>, !.recvq = << >>,
                        !.kept = << >>, !.parsed = << >>]

\* dead_link_on_write: nothing is marked dead, no write is scheduled.
DeadLinkOnWrite(s) == Cleared(s)

\* dbuf_delete of what send has taken.
Sent(s, n) == [s EXCEPT !.wire = @ \o SubSeq(s.sendq, 1, n),
                        !.sendq = SubSeq(@, n + 1, Len(@))]

\* How much the kernel takes: all it has room for; or nothing, once the
\* other end is gone.
Takes(s) ==
  LET most == Min({Len(s.sendq), SockRoom - (Len(s.wire) - acked)})
  IN  IF peer = "open" THEN {most} ELSE {0, most}

\* Mutant: a write that is cut short counts as one unit less.
SendQueuedWriteMutant(s) ==
  {IF n = Len(s.sendq) THEN Sent(s, n)
   ELSE [s EXCEPT !.wire = @ \o SubSeq(s.sendq, 1, n),
                  !.sendq = SubSeq(@, IF n = 0 THEN 1 ELSE n, Len(@))] : n \in Takes(s)}

\* send_queued_write: write until the queue is empty or send refuses.
SendQueuedWrite(s) ==
  {IF n = Len(s.sendq) THEN Sent(s, n) ELSE DeadLinkOnWrite(Sent(s, n)) : n \in Takes(s)}

\* Mutant: lines are only queued.
SendtoServerMutant(s) == {[s EXCEPT !.sendq = @ \o Line(s.lines + 1), !.lines = @ + 1]}

\* sendto_server and send_message: queue a line, write when there is much.
SendtoServer(s) ==
  LET q == [s EXCEPT !.sendq = @ \o Line(s.lines + 1), !.lines = @ + 1]
  IN  IF Len(q.sendq) > (IF known THEN Limit ELSE LimitUnknown)
        THEN SendQueuedWrite(q)
        ELSE {q}

\* A handler sends a line or does not.
MaySend(s) == {s} \cup IF s.lines < MaxLines THEN SendtoServer(s) ELSE {}

\* close_connection, from exit_client: one last write, then all is cleared.
CloseConnection(s) == {Cleared(t) : t \in SendQueuedWrite(s)}

\* First position from i on whose unit is an end of line, or is none.
From(q, i, eol) == Min({j \in i .. Len(q) : IsEol(q[j]) = eol} \cup {Len(q) + 1})

\* Mutant: the beginning of a line is taken for a line.
ExtractOneLineMutant(q) ==
  LET first == From(q, 1, FALSE)
      end   == From(q, first, TRUE)
  IN  [line |-> SubSeq(q, first, end - 1), rest |-> SubSeq(q, From(q, end, FALSE), Len(q))]

\* extract_one_line: line ends before and after the line go, a line without
\* an end stays.  An empty line stands for the result 0.
ExtractOneLine(q) ==
  LET first == From(q, 1, FALSE)
      end   == From(q, first, TRUE)
      next  == From(q, end, FALSE)
  IN  IF end <= Len(q)
        THEN [line |-> SubSeq(q, first, end - 1), rest |-> SubSeq(q, next, Len(q))]
        ELSE [line |-> << >>, rest |-> SubSeq(q, first, Len(q))]

-----------------------------------------------------------------------------
(***************************************************************************)
(* Connecting                                                              *)
(***************************************************************************)

\* connect_server: gethost_byname or connect has been called.
ConnectServer == IF UplinkNamed THEN "resolving" ELSE "connecting"

\* Init is main up to the loop.
Init ==
  /\ proc = "up" /\ pc = "events"
  /\ conn = ConnectServer
  /\ uplink = FALSE /\ known = FALSE
  /\ server = MakeServer
  /\ acked = 0 /\ peer = "open" /\ offered = 0 /\ read = 0

\* The timers and callbacks of a pass, any of which may send; and "Server
\* connection check", which connects again.
Events ==
  /\ proc = "up" /\ pc = "events"
  /\ pc' = "select"
  /\ server' \in IF uplink THEN MaySend(server) ELSE {server}
  /\ conn' \in {conn} \cup IF conn = "closed" /\ ~uplink THEN {ConnectServer} ELSE {}
  /\ UNCHANGED <<proc, uplink, known, read, netVars>>

\* serv_connect_callback: without a connection services exit.
ConnectCallback(ok) ==
  IF ok THEN conn' = "open" /\ pc' = "connected" /\ UNCHANGED proc
        ELSE proc' = "exited" /\ UNCHANGED <<conn, pc>>

\* comm_connect_tryconnect: connect is under way, has succeeded or failed.
TryConnect ==
  \/ conn' = "connecting" /\ pc' = "flush" /\ UNCHANGED proc
  \/ \E ok \in BOOLEAN : ConnectCallback(ok)

\* comm_connect_dns_callback: no address, or the first attempt.
Resolved ==
  /\ proc = "up" /\ pc = "select" /\ conn = "resolving"
  /\ ConnectCallback(FALSE) \/ TryConnect
  /\ UNCHANGED <<uplink, known, server, read, netVars>>

\* The socket is writable, or comm_checktimeouts runs comm_connect_timeout.
ConnectEvent ==
  /\ proc = "up" /\ pc = "select" /\ conn = "connecting"
  /\ TryConnect
  /\ UNCHANGED <<uplink, known, server, read, netVars>>

\* oftc_server_connected before me.uplink is set ...
Handshake ==
  /\ proc = "up" /\ pc = "connected"
  /\ server' \in UNION {SendQueuedWrite(s) : s \in SendtoServer(server)}
  /\ pc' = "introduce"
  /\ UNCHANGED <<proc, conn, uplink, known, read, netVars>>

\* ... and after: the services are introduced.
Introduce ==
  /\ proc = "up" /\ pc = "introduce"
  /\ uplink' = TRUE
  /\ server' \in SendtoServer(server)
  /\ pc' = "flush"
  /\ UNCHANGED <<proc, conn, known, read, netVars>>

-----------------------------------------------------------------------------
(***************************************************************************)
(* Reading                                                                 *)
(***************************************************************************)

Readable == offered > read \/ peer # "open"

\* comm_select finds nothing to do within SELECT_DELAY.
SelectIdle ==
  /\ proc = "up" /\ pc = "select"
  /\ conn = "open" => ~Readable
  /\ pc' = "flush"
  /\ UNCHANGED <<proc, conn, uplink, known, server, read, netVars>>

\* recv in read_packet, for the first time or because the buffer was full.
Reading ==
  /\ proc = "up" /\ conn = "open"
  /\ (pc = "select" /\ Readable) \/ pc = "recv"

Recv ==
  /\ Reading
  /\ offered > read /\ peer # "reset"
  /\ \E n \in 1 .. Min({ReadBuf, offered - read}) :
       LET got == [i \in 1 .. n |-> Unit(read + i)]
       IN  /\ read' = read + n
           /\ server' = [server EXCEPT !.recvq = @ \o got, !.kept = @ \o got]
           /\ pc' = IF n = ReadBuf THEN "parse again" ELSE "parse"
  /\ UNCHANGED <<proc, conn, uplink, known, netVars>>

\* Mutant: a link that is lost stays me.uplink.
LostMutant ==
  /\ IF conn = "open" THEN server' \in CloseConnection(server) ELSE UNCHANGED server
  /\ conn' = "closed"
  /\ UNCHANGED uplink

\* "Lost server connection": exit_client, which returns at once when the
\* link is closing already, and me.uplink = NULL.
Lost ==
  /\ IF conn = "open" THEN server' \in CloseConnection(server) ELSE UNCHANGED server
  /\ conn' = "closed"
  /\ uplink' = FALSE

\* recv returns no data: EAGAIN; 0 when the other end has closed, and errno
\* is then what some earlier call left, which may be one ignoreErrno accepts;
\* or an error.
RecvNothing ==
  /\ Reading
  /\ offered = read \/ peer = "reset"
  /\ pc' = "flush"
  /\ \/ peer # "reset" /\ UNCHANGED <<conn, uplink, server>>
     \/ peer # "open" /\ Lost
  /\ UNCHANGED <<proc, known, read, netVars>>

\* parse_client_queued, one line.  Any command may be answered; one with too
\* few parameters closes the link (handle_command); a line whose beginning
\* has been cleared away is no command.
Parse ==
  /\ proc = "up" /\ pc \in {"parse", "parse again"}
  /\ LET x    == ExtractOneLine(server.recvq)
         kind == IF x.line[1][2] = 1 THEN Script[x.line[1][1]] ELSE "torn"
         s    == [server EXCEPT !.recvq = x.rest, !.parsed = Append(@, x.line)]
     IN  /\ x.line # << >>
         /\ known' = (known \/ kind = "server")
         /\ IF kind = "short"
              THEN server' \in CloseConnection(s) /\ conn' = "closed"
              ELSE server' \in MaySend(s) /\ UNCHANGED conn
  /\ UNCHANGED <<proc, pc, uplink, read, netVars>>

\* No line is left: recv again, or leave read_packet.
ParseDone ==
  /\ proc = "up" /\ pc \in {"parse", "parse again"}
  /\ ExtractOneLine(server.recvq).line = << >>
  /\ IF conn = "open"
       THEN /\ server' = [server EXCEPT !.recvq = ExtractOneLine(@).rest]
            /\ UNCHANGED <<conn, uplink>>
       ELSE Lost
  /\ pc' = IF pc = "parse again" /\ conn = "open" THEN "recv" ELSE "flush"
  /\ UNCHANGED <<proc, known, read, netVars>>

-----------------------------------------------------------------------------
(***************************************************************************)
(* The end of a pass, and of the program                                   *)
(***************************************************************************)

\* Mutant: what does not fit into the socket buffer waits.
SendQueuedAllMutant ==
  IF uplink
    THEN /\ server' \in IF Len(server.sendq) > SockRoom - (Len(server.wire) - acked)
                           THEN {server} ELSE SendQueuedWrite(server)
         /\ UNCHANGED proc
    ELSE proc' = "crashed" /\ UNCHANGED server

\* send_queued_all, which dereferences me.uplink.
SendQueuedAll ==
  IF uplink
    THEN server' \in SendQueuedWrite(server) /\ UNCHANGED proc
    ELSE proc' = "crashed" /\ UNCHANGED server

Flush ==
  /\ proc = "up" /\ pc = "flush"
  /\ SendQueuedAll
  /\ pc' = "events"
  /\ UNCHANGED <<conn, uplink, known, read, netVars>>

\* SIGTERM or SIGINT while the program waits in comm_select: services_die.
ServicesDie ==
  /\ proc = "up" /\ pc = "select"
  /\ IF uplink
       THEN server' \in SendQueuedWrite(server) /\ proc' = "exited"
       ELSE proc' = "crashed" /\ UNCHANGED server
  /\ UNCHANGED <<pc, conn, uplink, known, read, netVars>>

-----------------------------------------------------------------------------
(***************************************************************************)
(* The network                                                             *)
(***************************************************************************)

PeerReads ==
  /\ proc = "up" /\ acked < Len(server.wire)
  /\ acked' = Len(server.wire)
  /\ UNCHANGED <<proc, pc, conn, uplink, known, server, peer, offered, read>>

PeerSends ==
  /\ proc = "up" /\ conn = "open" /\ peer = "open" /\ offered < StreamLen
  /\ offered' = offered + UnitsPerLine
  /\ UNCHANGED <<proc, pc, conn, uplink, known, server, acked, peer, read>>

PeerCloses ==
  /\ proc = "up" /\ conn = "open" /\ peer = "open"
  /\ peer' \in {"closed", "reset"}
  /\ UNCHANGED <<proc, pc, conn, uplink, known, server, acked, offered, read>>

Loop ==
  \/ Events \/ Resolved \/ ConnectEvent \/ Handshake \/ Introduce
  \/ SelectIdle \/ Recv \/ RecvNothing \/ Parse \/ ParseDone \/ Flush

Next == Loop \/ ServicesDie \/ PeerReads \/ PeerSends \/ PeerCloses

Spec == Init /\ [][Next]_vars

\* The loop runs on; signals and the other end do what they like.
FairSpec == Spec /\ WF_vars(Loop)

-----------------------------------------------------------------------------
(***************************************************************************)
(* Properties                                                              *)
(***************************************************************************)

Units == {<<k, p>> : k \in 1 .. MaxLines, p \in 1 .. UnitsPerLine}

\* Every variable has the values the code can give it; send_message keeps
\* buf_sendq within the larger of its limits.
TypeOK ==
  /\ proc \in {"up", "crashed", "exited"}
  /\ pc \in {"events", "select", "connected", "introduce", "recv", "parse",
             "parse again", "flush"}
  /\ conn \in {"resolving", "connecting", "open", "closed"}
  /\ uplink \in BOOLEAN /\ known \in BOOLEAN
  /\ server.sendq \in Seq(Units) /\ server.wire \in Seq(Units)
  /\ Len(server.sendq) <= LimitUnknown
  /\ server.lines \in 0 .. MaxLines
  /\ acked \in 0 .. Len(server.wire)
  /\ peer \in {"open", "closed", "reset"}
  /\ offered \in 0 .. StreamLen /\ read \in 0 .. offered

\* Outside read_packet me.uplink is NULL or a connection that is open: what
\* timers and callbacks send never goes to a descriptor that is closed, and
\* memset to 0, by a line that ended the link in the middle of a read.
UplinkIsOpen == uplink /\ pc \in {"events", "select", "flush"} => conn = "open"

\* Where the lines of q end: at the first line end after something else.
Ends(q) == {i \in 2 .. Len(q) : IsEol(q[i]) /\ ~IsEol(q[i - 1])}

\* A line that is ended at e begins at a.
IsLine(q, a, e) ==
  /\ e \in Ends(q)
  /\ \A i \in a .. e - 1 : ~IsEol(q[i])
  /\ a = 1 \/ IsEol(q[a - 1])

\* The lines parse gets are the lines that arrived, however recv cut the
\* stream: what was kept is the last of the stream that was read; the n-th line
\* is the n-th of it, in full; what waits begins after the last of them; and
\* once read_packet is done no line waits.
LinesHandled ==
  LET q       == server.kept
      upTo(k) == Cardinality(Ends(q) \cap 1 .. k)
  IN  /\ \A i \in 1 .. Len(q) : q[i] = Unit(read - Len(q) + i)
      /\ \A n \in DOMAIN server.parsed : \E e \in Ends(q), a \in 1 .. Len(q) :
           a < e /\ IsLine(q, a, e) /\ server.parsed[n] = SubSeq(q, a, e - 1) /\ upTo(e) = n
      /\ \E k \in 0 .. Len(q) :
           /\ k = 0 \/ IsEol(q[k])
           /\ server.recvq = SubSeq(q, k + 1, Len(q))
           /\ upTo(k) = Len(server.parsed)
      /\ pc = "flush" => Len(server.parsed) = Cardinality(Ends(q))

\* The send queue keeps the promise of UplinkStream.
Stream == INSTANCE UplinkStream WITH
            queue <- server.sendq, wire <- server.wire, lines <- server.lines
StreamKept == Stream!Spec

\* What is queued does not stay in the queue: each pass of the loop sends it
\* or, when the socket refuses, drops it.
QueueSettles == server.sendq # << >> ~> server.sendq = << >> \/ proc # "up"

\* try_reconnect says "Uplink went away, trying to reconnect": a connection
\* the other end has closed is followed by an attempt to connect.
Reconnects == (conn = "open" /\ peer # "open") ~> (conn \in {"resolving", "connecting"})
=============================================================================
