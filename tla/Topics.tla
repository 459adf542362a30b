------------------------------- MODULE Topics -------------------------------
(***************************************************************************)
(* The topic of a registered channel: what the network shows, what the     *)
(* table channel remembers, and the DBChannel of a channel services know.  *)
(* src/dbchannel.c, the topic callbacks and SET commands of                *)
(* modules/chanserv.c, set_channel_topic of src/channel.c and the topic    *)
(* messages of modules/irc.c.                                              *)
(*                                                                         *)
(* Without TOPICLOCK the row follows the topic, with it the topic follows  *)
(* the row.  What services send takes effect in the network at once; what  *)
(* users do reaches services over the wire, later.  Services never hear of *)
(* the topics they set, and do not note them in Channel.topic.             *)
(***************************************************************************)
EXTENDS Naturals, Sequences

CONSTANTS
  Texts,            \* topics
  Dash,             \* the text that m_set_string takes for none
  NoTopic,          \* an empty topic, NULL
  MaxWire, MaxEvents

VARIABLES
  there,    \* the channel exists in the network
  net,      \* its topic there
  wire,     \* messages to services
  known,    \* services have a struct Channel
  view,     \* its topic
  row,      \* the row of the table channel, or NoRow
  regchan,  \* Channel.regchan, or NoRow
  burst,    \* IsConnecting(me.uplink)
  apart,    \* history: row and topic were told different things, see TopicAgrees
  events

vars == <<there, net, wire, known, view, row, regchan, burst, apart, events>>

\* No row: dbchannel_find returns NULL.
NoRow == [topic |-> "-", lock |-> FALSE]
Event == events < MaxEvents /\ events' = events + 1
UnderWay(w) == \E i \in 1..Len(w) : w[i][1] = "topic"

\* struct Channel, before services know it
Init ==
  /\ there = FALSE /\ net = NoTopic /\ wire = <<>>
  /\ known = FALSE /\ view = NoTopic
  /\ row = NoRow /\ regchan = NoRow
  /\ burst = FALSE /\ apart = FALSE
  /\ events = 0

-----------------------------------------------------------------------------
(* The network *)

Send(m) == Event /\ Len(wire) < MaxWire /\ wire' = Append(wire, m)

Create ==
  /\ ~there /\ there' = TRUE
  /\ Send(<<"create">>)
  /\ UNCHANGED <<net, known, view, row, regchan, burst, apart>>

Leave ==
  /\ there /\ there' = FALSE /\ net' = NoTopic
  /\ Send(<<"gone">>)
  /\ UNCHANGED <<known, view, row, regchan, burst, apart>>

UserTopic(t) ==
  /\ there /\ net' = t
  /\ Send(<<"topic", t>>)
  /\ UNCHANGED <<there, known, view, row, regchan, burst, apart>>

\* send_topic, which may cross a topic among the messages w under way: it
\* matters unless the topic is locked and services will set theirs again.
SendTopic(t, locked, w) ==
  /\ net' = IF there THEN t ELSE net
  /\ apart' = (apart \/ (UnderWay(w) /\ ~locked))

\* Services are restarted: the burst has the channel and, unless empty, its topic.
Restart ==
  /\ Event
  /\ known' = FALSE /\ view' = NoTopic /\ regchan' = NoRow
  /\ burst' = TRUE
  /\ wire' = (IF there THEN << <<"create">> >> ELSE <<>>)
             \o (IF net # NoTopic THEN << <<"topic", net>> >> ELSE <<>>) \o << <<"eob">> >>
  /\ UNCHANGED <<there, net, row, apart>>

-----------------------------------------------------------------------------
(* The setters of dbchannel.c, on the DBChannel of the channel if services *)
(* know it and on a copy that is freed if they do not.                     *)

\* Mutant: the command always works on a copy of its own.
DbSetStringMutant(f, v) == row' = [row EXCEPT ![f] = v] /\ regchan' = regchan

\* dbchannel_set_description, _entrymsg, _url, _email, _topic, _mlock
DbSetString(f, v) ==
  /\ row' = [row EXCEPT ![f] = v]
  /\ regchan' = IF known THEN [regchan EXCEPT ![f] = v] ELSE regchan

\* dbchannel_set_restricted .. dbchannel_set_expirebans_lifetime
DbSetFlag(f, on) ==
  /\ row' = [row EXCEPT ![f] = on]
  /\ regchan' = IF known THEN [regchan EXCEPT ![f] = on] ELSE regchan

\* m_set_string: "-" unsets.
Value(v) == IF v = Dash THEN NoTopic ELSE v
SetString(f, v) == DbSetString(f, Value(v))

\* m_set_flag
SetFlag(f, on) == DbSetFlag(f, on)

-----------------------------------------------------------------------------
(* Messages *)

Heads(kind) == wire # <<>> /\ Head(wire)[1] = kind
Take == wire' = Tail(wire)

\* Mutant: cs_on_channel_create leaves the topic to the users.
RecvCreateMutant ==
  /\ Heads("create") /\ Take
  /\ known' = TRUE /\ view' = NoTopic /\ regchan' = row
  /\ UNCHANGED <<there, net, row, burst, apart, events>>

\* make_channel, and cs_on_channel_create, which sets the stored topic.
RecvCreate ==
  /\ Heads("create") /\ Take
  /\ known' = TRUE /\ view' = NoTopic /\ regchan' = row
  /\ IF row # NoRow /\ ~burst THEN SendTopic(row.topic, row.lock, Tail(wire)) ELSE UNCHANGED <<net, apart>>
  /\ UNCHANGED <<there, row, burst, events>>

\* destroy_channel, cs_on_channel_destroy
RecvGone ==
  /\ Heads("gone") /\ Take
  /\ known' = FALSE /\ view' = NoTopic /\ regchan' = NoRow
  /\ UNCHANGED <<there, net, row, burst, apart, events>>

\* m_topic, m_tburst: set_channel_topic, then cs_on_topic_change.
RecvTopic ==
  LET t == Head(wire)[2]
  IN  /\ Heads("topic") /\ Take
      /\ view' = t
      /\ IF regchan = NoRow
         THEN UNCHANGED <<net, row, regchan, apart>>
         ELSE IF regchan.lock
         THEN /\ IF t # regchan.topic \/ regchan.topic = NoTopic
                 THEN SendTopic(regchan.topic, regchan.lock, Tail(wire)) ELSE UNCHANGED <<net, apart>>
              /\ UNCHANGED <<row, regchan>>
         ELSE /\ IF t # NoTopic \/ ~burst THEN SetString("topic", t) ELSE UNCHANGED <<row, regchan>>
              /\ apart' = (apart \/ t = Dash)
              /\ UNCHANGED net
      /\ UNCHANGED <<there, known, burst, events>>

\* cs_on_burst_done
RecvEob ==
  /\ Heads("eob") /\ Take
  /\ burst' = FALSE
  /\ IF /\ regchan # NoRow
        /\ IF regchan.lock THEN view # regchan.topic
                           ELSE view = NoTopic /\ regchan.topic # NoTopic
     THEN SendTopic(regchan.topic, regchan.lock, Tail(wire)) ELSE UNCHANGED <<net, apart>>
  /\ UNCHANGED <<there, known, view, row, regchan, events>>

-----------------------------------------------------------------------------
(* Commands of ChanServ *)

\* m_register does not look at the topic there is.
Register ==
  /\ ~burst /\ Event
  /\ known /\ row = NoRow
  /\ row' = [topic |-> NoTopic, lock |-> FALSE] /\ regchan' = row'
  /\ apart' = (net # NoTopic \/ UnderWay(wire))
  /\ UNCHANGED <<there, net, wire, known, view, burst>>

Drop ==
  /\ ~burst /\ Event
  /\ row # NoRow /\ row' = NoRow /\ regchan' = NoRow
  /\ UNCHANGED <<there, net, wire, known, view, burst, apart>>

\* SET TOPIC: sent if it is not the stored one.
SetTopic(t) ==
  /\ ~burst /\ Event
  /\ row # NoRow
  /\ SetString("topic", t)
  /\ IF known /\ Value(t) # row.topic THEN SendTopic(Value(t), row.lock, wire) ELSE UNCHANGED <<net, apart>>
  /\ UNCHANGED <<there, wire, known, view, burst>>

\* SET TOPICLOCK changes the flag only.
SetTopicLock(on) ==
  /\ ~burst /\ Event
  /\ row # NoRow
  /\ SetFlag("lock", on)
  /\ apart' = (apart \/ (~on /\ UnderWay(wire)))
  /\ UNCHANGED <<there, net, wire, known, view, burst>>

Next ==
  \/ Create \/ Leave \/ (\E t \in Texts \cup {Dash, NoTopic} : UserTopic(t)) \/ Restart
  \/ RecvCreate \/ RecvGone \/ RecvTopic \/ RecvEob
  \/ Register \/ Drop
  \/ (\E t \in Texts \cup {Dash, NoTopic} : SetTopic(t)) \/ (\E on \in BOOLEAN : SetTopicLock(on))

Spec == Init /\ [][Next]_vars

-----------------------------------------------------------------------------
\* Settings are kept twice and never differ: the DBChannel of a channel that
\* services know is the row (dbchannel_set_*, cs_on_channel_destroy, m_drop).
CacheIsRow == regchan = IF known THEN row ELSE NoRow

\* Once nothing is under way, a registered channel shows the topic its row has,
\* unless the channel was registered with a topic set (which REGISTER does not
\* store), a user set the topic "-", or a topic services sent crossed another.
\* (cs_on_topic_change, cs_on_channel_create, cs_on_burst_done, m_set_topic)
TopicAgrees ==
  wire = <<>> /\ there /\ row # NoRow /\ ~apart => net = row.topic
=============================================================================
