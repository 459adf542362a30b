---------------------------- MODULE FloodQueues ----------------------------
(***************************************************************************)
(* FloodServ's judgement of messages to channels: modules/floodserv.c, its  *)
(* message queues (mqueue.c) and the hash tables they are found in         *)
(* (hash.c).  A message goes to the queue of its host on the network, the  *)
(* queue of its channel and the queue of its host on the channel, until    *)
(* one of them is full of the same message in too short a time.            *)
(*                                                                         *)
(* All hosts share one bucket of each table: its chain is the queues that  *)
(* are reached by hnext, in order.                                         *)
(***************************************************************************)
EXTENDS Naturals, Sequences, FiniteSets

CONSTANTS
  Users, Channels,
  Host,           \* a user's real host
  Texts,          \* messages that ircncmp tells apart
  Tor,            \* users whose host is a tor node
  Everyone,       \* stands for a channel's own queue in from
  FS_MSG_COUNT, FS_MSG_TIME, FS_GMSG_COUNT, FS_GMSG_TIME,  \* the counts above 1
  FS_GC_EXPIRE_TIME,                                       \* longer than the other times
  MaxSaid, MaxTime   \* bounds on messages and on the time

Hosts == {Host[u] : u \in Users}
\* global_msg_queue, and the flood_hash of each channel's registration.
Tables == {"global"} \cup Channels

VARIABLES
  now,
  chain,    \* of each table: the hosts of the queues on the chain
  entries,  \* of each table: the messages and their times, oldest first
  gqueue,   \* of each channel: the entries of its own queue
  akills,   \* hosts with a row *@host
  said,     \* history: the messages, and what was done about each
  from      \* history: where in said the present queue of a host, or of Everyone, begins

vars == <<now, chain, entries, gqueue, akills, said, from>>

Init ==
  /\ now = 0
  /\ chain = [t \in Tables |-> <<>>]
  /\ entries = [t \in Tables |-> [h \in Hosts |-> <<>>]]
  /\ gqueue = [c \in Channels |-> <<>>]
  /\ akills = {}
  /\ said = <<>>
  /\ from = [t \in Tables |-> [h \in Hosts \cup {Everyone} |-> 1]]

-----------------------------------------------------------------------------
(* Queues. *)

\* Mutant: a full queue makes room for two.
MqueueAddMutant(q, text, max) ==
  Append(IF Len(q) >= max THEN SubSeq(q, 3, Len(q)) ELSE q, [text |-> text, time |-> now])

\* mqueue_add_message: a full queue loses its oldest entry.
MqueueAdd(q, text, max) ==
  Append(IF Len(q) >= max THEN Tail(q) ELSE q, [text |-> text, time |-> now])

\* Mutant: the newest entry is compared with the oldest only.
MqueueEnforceMutant(q, max, span) ==
  /\ Len(q) = max /\ q[max].time - q[1].time <= span
  /\ q[1].text = q[max].text

\* mqueue_enforce returns MQUEUE_MESG.
MqueueEnforce(q, max, span) ==
  /\ Len(q) = max /\ q[max].time - q[1].time <= span
  /\ \A i \in 1 .. max : q[i].text = q[max].text

-----------------------------------------------------------------------------
(* Tables.  hash_find_mqueue_host moves what it found to the front, but what *)
(* it writes to the predecessor's hnext is next: the chain then is the queue *)
(* and those behind it, and the queues before it are found no more.         *)

On(c) == {c[i] : i \in DOMAIN c}

\* What is behind the queue of h; all there is if hash_add_mqueue makes a new one.
Rest(c, h) ==
  IF h \in On(c) THEN SubSeq(c, (CHOOSE i \in DOMAIN c : c[i] = h) + 1, Len(c)) ELSE c

Found(c, h) == <<h>> \o Rest(c, h)

Lost(t, h) == {g \in Hosts \ {h} : g \in On(chain[t]) /\ g \notin On(Rest(chain[t], h))}

Cut(t, gone) == [h \in Hosts |-> IF h \in gone THEN <<>> ELSE entries[t][h]]

-----------------------------------------------------------------------------

\* fs_on_privmsg, of anyone but an oper: the handler looks both queues up, then
\* judges.  A queue that has triggered stays as it is.
FsOnPrivmsg(u, c, text) ==
  /\ Len(said) < MaxSaid
  /\ LET h == Host[u]
         net == MqueueAdd(entries["global"][h], text, FS_GMSG_COUNT)
         all == MqueueAdd(gqueue[c], text, FS_GMSG_COUNT)
         own == MqueueAdd(entries[c][h], text, FS_MSG_COUNT)
         flood == MqueueEnforce(net, FS_GMSG_COUNT, FS_GMSG_TIME)
         crowd == ~flood /\ MqueueEnforce(all, FS_GMSG_COUNT, FS_GMSG_TIME)
         repeat == ~flood /\ ~crowd /\ MqueueEnforce(own, FS_MSG_COUNT, FS_MSG_TIME)
         did == CASE flood /\ h \in akills -> "akilled before"
                  [] flood /\ h \notin akills /\ u \notin Tor -> "akilled"
                  [] flood /\ h \notin akills /\ u \in Tor -> "killed"
                  [] crowd \/ repeat -> "quieted"
                  [] OTHER -> "nothing"
     IN  /\ chain' = [chain EXCEPT ![c] = Found(@, h), !["global"] = Found(@, h)]
         /\ entries' = [entries EXCEPT
              !["global"] = [Cut("global", Lost("global", h)) EXCEPT ![h] = net],
              ![c] = [Cut(c, Lost(c, h)) EXCEPT ![h] = IF flood \/ crowd THEN @ ELSE own]]
         /\ gqueue' = [gqueue EXCEPT ![c] = IF flood THEN @ ELSE all]
         /\ akills' = IF did = "akilled" THEN akills \cup {h} ELSE akills
         /\ said' = Append(said, [host |-> h, chan |-> c, text |-> text, time |-> now,
                                  did |-> did, crowd |-> crowd])
         /\ from' = [t \in Tables |-> [g \in Hosts \cup {Everyone} |->
              IF t \in {c, "global"} /\ g \in Lost(t, h) THEN Len(said) + 1 ELSE from[t][g]]]
  /\ UNCHANGED now

\* Mutant: queues that are still in use are freed.
FloodservGcMutant ==
  LET used(q) == q # <<>> /\ now - q[Len(q)].time < FS_MSG_TIME
  IN  /\ chain' = [t \in Tables |-> SelectSeq(chain[t], LAMBDA h : used(entries[t][h]))]
      /\ entries' = [t \in Tables |-> [h \in Hosts |-> IF used(entries[t][h]) THEN entries[t][h] ELSE <<>>]]
      /\ UNCHANGED <<now, gqueue, akills, said, from>>

\* floodserv_gc_routine: last_used is the time of the newest entry; a queue that
\* never got one has been unused since 1970.
FloodservGc ==
  LET used(q) == q # <<>> /\ now - q[Len(q)].time < FS_GC_EXPIRE_TIME
  IN  /\ chain' = [t \in Tables |-> SelectSeq(chain[t], LAMBDA h : used(entries[t][h]))]
      /\ entries' = [t \in Tables |-> [h \in Hosts |-> IF used(entries[t][h]) THEN entries[t][h] ELSE <<>>]]
      /\ UNCHANGED <<now, gqueue, akills, said, from>>

\* FloodServ leaves the channel, which frees its queues, and comes again.
SetupChannel(c) ==
  /\ \A d \in Channels : from[d][Everyone] = 1   \* once
  /\ said # <<>>
  /\ chain' = [chain EXCEPT ![c] = <<>>]
  /\ entries' = [entries EXCEPT ![c] = [h \in Hosts |-> <<>>]]
  /\ gqueue' = [gqueue EXCEPT ![c] = <<>>]
  /\ from' = [from EXCEPT ![c] = [h \in Hosts \cup {Everyone} |-> Len(said) + 1]]
  /\ UNCHANGED <<now, akills, said>>

Tick ==
  /\ now < MaxTime /\ now' = now + 1
  /\ UNCHANGED <<chain, entries, gqueue, akills, said, from>>

Next ==
  \/ \E u \in Users, c \in Channels, text \in Texts : FsOnPrivmsg(u, c, text)
  \/ FloodservGc \/ Tick
  \/ \E c \in Channels : SetupChannel(c)

Spec == Init /\ [][Next]_vars

-----------------------------------------------------------------------------

\* The last n of the messages at places S are one message said in span.
Repeated(S, n, span) ==
  LET last == {i \in S : Cardinality({j \in S : j > i}) < n}
  IN  /\ Cardinality(last) = n
      /\ \A i, j \in last : said[i].text = said[j].text /\ said[j].time <= said[i].time + span

\* The last message is punished exactly if it makes a flood: the host's last
\* messages anywhere, or else those of everybody to the channel, or else the
\* host's to the channel.  What was punished by the network, or in the
\* channel's name, is not held against the host again.  Freed and moved queues
\* make no difference, except that a host whose queue fell off its chain, when
\* another one in the bucket was moved to the front, starts anew (from).
FloodsAreStopped ==
  LET n == Len(said)
      x == said[n]
      network == {i \in from["global"][x.host] .. n : said[i].host = x.host}
      spared == {i \in 1 .. n : i = n \/ said[i].did \in {"nothing", "quieted"}}
      start == from[x.chan]
      channel == {i \in spared : said[i].chan = x.chan /\ i >= start[Everyone]}
      own == {i \in channel : said[i].host = x.host /\ i >= start[x.host]
                             /\ (i = n \/ ~said[i].crowd)}
  IN  n > 0 /\ start[Everyone] <= n =>
        x.did \in
          IF Repeated(network, FS_GMSG_COUNT, FS_GMSG_TIME) THEN {"akilled", "akilled before", "killed"}
          ELSE IF \/ Repeated(channel, FS_GMSG_COUNT, FS_GMSG_TIME)
                  \/ Repeated(own, FS_MSG_COUNT, FS_MSG_TIME)
               THEN {"quieted"} ELSE {"nothing"}
=============================================================================
