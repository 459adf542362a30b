----------------------------- MODULE MCCommands -----------------------------
(* Commands and what they set: a behaviour is one of the way a line takes   *)
(* to its handler, of a channel's modes and their lock, of its topic, or of *)
(* FloodServ's judgement of messages.                                       *)
EXTENDS Dispatch, Integers, TLC

CONSTANTS
  Simple, Weight, Members, Args, Locks, Policies, Room, Slack, UserLetters,
  StartModes, MaxChanges, MaxQueue, NoLock,                          \* ChannelModes
  Texts, Dash, NoTopic, MaxWire, MaxEvents,                          \* Topics
  Speakers, Channels, Host, Messages, Tor, Everyone, FS_MSG_COUNT, FS_MSG_TIME,
  FS_GMSG_COUNT, FS_GMSG_TIME, FS_GC_EXPIRE_TIME, MaxSaid, MaxTime   \* FloodQueues

VARIABLES part,
  netAlive, alive, net, view, lock, cut, autolimit, toNet, toCs, changes, raced,
  carried, dropped, unlocked,                                        \* ChannelModes
  there, topic, wire, known, seen, setting, copy, burst, apart, events,   \* Topics
  now, chain, entries, gqueue, akills, said, from                         \* FloodQueues

cvars == <<netAlive, alive, net, view, lock, cut, autolimit, toNet, toCs, changes, raced,
           carried, dropped, unlocked>>
tvars == <<there, topic, wire, known, seen, setting, copy, burst, apart, events>>
fvars == <<now, chain, entries, gqueue, akills, said, from>>

C == INSTANCE ChannelModes WITH Users <- Members
T == INSTANCE Topics WITH net <- topic, view <- seen, row <- setting, regchan <- copy
F == INSTANCE FloodQueues WITH Users <- Speakers, Texts <- Messages

\* FloodServ counts messages, and keeps queues for longer than it judges them over
\* (floodserv.h); a channel has a name, and so does a host.
ASSUME FloodsAssumption ==
  /\ {FS_MSG_COUNT, FS_GMSG_COUNT} \subseteq Nat \ {0}
  /\ {FS_MSG_TIME, FS_GMSG_TIME, FS_GC_EXPIRE_TIME} \subseteq Nat
  /\ FS_MSG_TIME < FS_GC_EXPIRE_TIME /\ FS_GMSG_TIME < FS_GC_EXPIRE_TIME
  /\ "global" \notin Channels /\ \A u \in Speakers : Host[u] # Everyone

\* A channel's simple modes are the bits of one number; the letters of its other
\* modes are none of theirs.  Keys and limits are positive, and what users send is
\* letters, and what they are about.
ASSUME ModesAssumption ==
  /\ IsFiniteSet(Simple) /\ IsFiniteSet(Members)
  /\ {"k", "l", "o", "v"} \cap Simple = {}
  /\ Args \subseteq Nat \ {0} /\ Room \in Nat
  /\ Locks \subseteq C!Lock /\ NoLock \notin C!Lock
  /\ StartModes \subseteq SUBSET Simple /\ UserLetters \subseteq Seq(C!Letter)
  /\ MaxChanges \in Nat /\ MaxQueue \in Nat

MCHost == "u1" :> "h1" @@ "u2" :> "h2"

\* Off, Unsaid and Change of ChannelModes, which is an instance for these values.
MCOff == -2
MCUnsaid == -1
MCChange(d, c, a) == [dir |-> d, c |-> c, arg |-> a]

MCSimple == {"s", "n", "t"}
MCWeight == [m \in MCSimple |-> CASE m = "s" -> 1 [] m = "n" -> 2 [] m = "t" -> 4]
MCLocks ==
  { [on |-> {"n"}, off |-> {"s"}, key |-> MCOff, limit |-> MCUnsaid],
    [on |-> {}, off |-> {"s", "n", "t"}, key |-> MCOff, limit |-> MCOff],
    [on |-> {"s"}, off |-> {}, key |-> 9, limit |-> 9] }
MCPolicies ==
  { [level |-> l, leaveops |-> FALSE, autoop |-> TRUE, autovoice |-> TRUE] :
      l \in {"none", "chanop"} }
MCUserLetters ==
  { << MCChange("-", "n", 0) >>, << MCChange("+", "s", 0), MCChange("-", "s", 0) >>,
    << MCChange("+", "t", 0), MCChange("+", "k", 9) >>,
    << MCChange("-", "t", 0), MCChange("-", "k", 0) >>, << MCChange("-", "l", 0) >> }
MCStartModes == { {"n", "t"}, {"s"} }

\* The parts that do not move stay in an initial state.
MCInit ==
  /\ part \in {"dispatch", "modes", "topic", "floods"}
  /\ Init /\ C!Init /\ T!Init /\ F!Init
  /\ part # "dispatch" => row

MCNext ==
  /\ part' = part
  /\ \/ part = "dispatch" /\ Next /\ UNCHANGED <<cvars, tvars, fvars>>
     \/ part = "modes" /\ C!Next /\ UNCHANGED <<vars, tvars, fvars>>
     \/ part = "topic" /\ T!Next /\ UNCHANGED <<vars, cvars, fvars>>
     \/ part = "floods" /\ F!Next /\ UNCHANGED <<vars, cvars, tvars>>

MCSpec == MCInit /\ [][MCNext]_<<part, vars, cvars, tvars, fvars>>

-----------------------------------------------------------------------------
\* A line reaches the handler it names exactly if the user may have it, and with
\* its parameters; the channel it is for has the record of its row (see Dispatch).
LinesReachHandlers == part = "dispatch" => LineReachesHandler /\ ChannelHasItsRow

\* A channel has the modes its lock wants, and services know the modes it has
\* (see ChannelModes).
ModesHold == part = "modes" => C!TypeOK /\ C!LockHolds /\ C!ViewAgrees

\* The topic the network shows is the topic of the channel's row, and the cached
\* copy of the row is true (see Topics).
TopicHolds == part = "topic" => T!CacheIsRow /\ T!TopicAgrees

\* Who floods a channel is punished, and nobody else (see FloodQueues).
FloodsAreStopped == part = "floods" => F!FloodsAreStopped
=============================================================================
