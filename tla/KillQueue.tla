----------------------------- MODULE KillQueue -----------------------------
(***************************************************************************)
(* The deferred kills of src/kill.c.  A handler that decides to kill a     *)
(* client only queues a request; the "Check kills" event walks the list a  *)
(* second later, sends each KILL and exits the client.  A client may leave *)
(* by itself before that, and the module that asked may be unloaded.       *)
(*                                                                         *)
(* A list node is the identity of its request, so the node a client's      *)
(* kill_node points at and the node that is on the list can differ.  The   *)
(* order of the list is abstracted: kill_list is the set of its nodes, and *)
(* todo the ones the walk of check_kills has still to visit (kill_user     *)
(* adds at the head, so a request queued during the walk is not visited).  *)
(***************************************************************************)
EXTENDS Integers, FiniteSets

CONSTANTS
  Clients,    \* client structures
  Services,   \* service modules able to queue kills
  Nodes,      \* list nodes of the dlink heap; freed nodes are handed out again
  NoNode,     \* the NULL pointer
  Debug       \* ServicesState.debugmode: kills are logged, not sent

ASSUME KillAssumption == /\ NoNode \notin Nodes \cup Clients
                         /\ Debug \in BOOLEAN

VARIABLES
  live,       \* clients that are introduced and not exited
  loaded,     \* services whose module is loaded
  kill_node,  \* client->kill_node
  kill_list,  \* the nodes on kill_list
  request,    \* the request a node carries, NoRequest once the node is freed
  walking,    \* check_kills is running
  todo,       \* nodes check_kills has still to visit
  aborted,    \* an assertion of dlinkDelete failed and services aborted
  stale       \* history: an unload has freed requests; their clients still point at them

vars == <<live, loaded, kill_node, kill_list, request, walking, todo, aborted, stale>>

Request   == [service : Services, client : Clients]
NoRequest == [service |-> NoNode, client |-> NoNode]

Init ==
  /\ live = {}
  /\ loaded = Services
  /\ kill_node = [c \in Clients |-> NoNode]
  /\ kill_list = {}
  /\ request = [n \in Nodes |-> NoRequest]
  /\ walking = FALSE
  /\ todo = {}
  /\ aborted = FALSE
  /\ stale = FALSE

-----------------------------------------------------------------------------
(* What exit_one_client does to the kill list.                             *)

\* kill_remove_client(c): the node c points at leaves the list and is freed
\* with its request.  dlinkDelete asserts that the node was on the list.
KillRemoveClient(c) ==
  LET n == kill_node[c] IN
  \/ /\ n = NoNode
     /\ UNCHANGED <<kill_node, kill_list, request, aborted>>
  \/ /\ n \in kill_list
     /\ kill_list' = kill_list \ {n}
     /\ request' = [request EXCEPT ![n] = NoRequest]
     /\ kill_node' = [kill_node EXCEPT ![c] = NoNode]
     /\ UNCHANGED aborted
  \/ /\ n # NoNode
     /\ n \notin kill_list
     /\ aborted' = TRUE
     /\ UNCHANGED <<kill_node, kill_list, request>>

\* exit_client of a user: off every list, off the kill list, freed.
ExitClient(c) ==
  /\ live' = live \ {c}
  /\ KillRemoveClient(c)

-----------------------------------------------------------------------------

\* A client is introduced; make_client clears the structure.
Connect(c) ==
  /\ c \notin live
  /\ live' = live \cup {c}
  /\ UNCHANGED <<loaded, kill_node, kill_list, request, walking, todo, aborted, stale>>

\* Mutant: a client that is killed already gets another request.
KillUserAgain(s, c) ==
  /\ s \in loaded /\ c \in live
  /\ \E n \in Nodes :
       /\ request[n] = NoRequest
       /\ request' = [request EXCEPT ![n] = [service |-> s, client |-> c]]
       /\ kill_node' = [kill_node EXCEPT ![c] = n]
       /\ kill_list' = kill_list \cup {n}
  /\ UNCHANGED <<live, loaded, walking, todo, aborted, stale>>

\* kill_user(s, c): one request per client, a second one is ignored.
KillUser(s, c) ==
  /\ s \in loaded
  /\ c \in live
  /\ kill_node[c] = NoNode
  /\ \E n \in Nodes :
       /\ request[n] = NoRequest
       /\ request' = [request EXCEPT ![n] = [service |-> s, client |-> c]]
       /\ kill_node' = [kill_node EXCEPT ![c] = n]
       /\ kill_list' = kill_list \cup {n}
  /\ UNCHANGED <<live, loaded, walking, todo, aborted, stale>>

\* The client leaves by itself: QUIT, a KILL by somebody else, a split.
Leave(c) ==
  /\ ~walking
  /\ c \in live
  /\ ExitClient(c)
  /\ UNCHANGED <<loaded, walking, todo, stale>>

\* The event loop enters check_kills.
CheckKills ==
  /\ ~walking
  /\ kill_list # {}
  /\ walking' = TRUE
  /\ todo' = kill_list
  /\ UNCHANGED <<live, loaded, kill_node, kill_list, request, aborted, stale>>

\* Mutant: the KILL is sent and the exit left to the uplink, which sends none.
SendKillNoExit(n) ==
  /\ walking
  /\ n \in todo
  /\ todo' = todo \ {n}
  /\ UNCHANGED <<live, loaded, kill_node, kill_list, request, walking, aborted, stale>>

\* One round of the loop: send_kill on the request of the next node.
SendKill(n) ==
  /\ walking
  /\ n \in todo
  /\ todo' = todo \ {n}
  /\ IF Debug
       THEN UNCHANGED <<live, kill_node, kill_list, request, aborted>>
       ELSE ExitClient(request[n].client)
  /\ UNCHANGED <<loaded, walking, stale>>

CheckKillsDone ==
  /\ walking
  /\ todo = {}
  /\ walking' = FALSE
  /\ UNCHANGED <<live, loaded, kill_node, kill_list, request, todo, aborted, stale>>

\* Mutant: the requests of an unloaded service stay on the list.
KillRemoveServiceNothing(s) == UNCHANGED <<kill_node, kill_list, request, stale>>

\* A module is unloaded: hash_del_service calls kill_remove_service, which
\* frees the requests of the service and leaves the clients' kill_node alone.
KillRemoveService(s) ==
  LET gone == {n \in kill_list : request[n].service = s} IN
  /\ kill_list' = kill_list \ gone
  /\ request' = [n \in Nodes |-> IF n \in gone THEN NoRequest ELSE request[n]]
  /\ stale' = (stale \/ gone # {})
  /\ UNCHANGED kill_node

Unload(s) ==
  /\ ~walking
  /\ s \in loaded
  /\ loaded' = loaded \ {s}
  /\ KillRemoveService(s)
  /\ UNCHANGED <<live, walking, todo, aborted>>

Load(s) ==
  /\ ~walking
  /\ s \notin loaded
  /\ loaded' = loaded \cup {s}
  /\ UNCHANGED <<live, kill_node, kill_list, request, walking, todo, aborted, stale>>

-----------------------------------------------------------------------------

Next ==
  /\ ~aborted
  /\ \/ \E c \in Clients : Connect(c) \/ Leave(c)
     \/ \E s \in Services, c \in Clients : KillUser(s, c)
     \/ \E s \in Services : Unload(s) \/ Load(s)
     \/ CheckKills
     \/ \E n \in Nodes : SendKill(n)
     \/ CheckKillsDone

Spec == Init /\ [][Next]_vars

\* The event fires every second and a started walk runs to its end.
Fairness ==
  /\ WF_vars(~aborted /\ CheckKills)
  /\ WF_vars(~aborted /\ \E n \in Nodes : SendKill(n))
  /\ WF_vars(~aborted /\ CheckKillsDone)

FairSpec == Spec /\ Fairness

-----------------------------------------------------------------------------

\* Every variable has its type; a node carries a whole request or is free.
TypeOK ==
  /\ live \subseteq Clients
  /\ loaded \subseteq Services
  /\ kill_node \in [Clients -> Nodes \cup {NoNode}]
  /\ kill_list \subseteq Nodes
  /\ request \in [Nodes -> Request \cup {NoRequest}]
  /\ walking \in BOOLEAN
  /\ todo \subseteq Nodes
  /\ aborted \in BOOLEAN
  /\ stale \in BOOLEAN

\* send_kill dereferences the service and the client of every listed request:
\* each names a loaded module and a client that has not exited, whose
\* kill_node is that very node; also after any number of unloads.
ListedRequestsValid ==
  \A n \in kill_list :
    /\ request[n] # NoRequest
    /\ request[n].service \in loaded
    /\ request[n].client \in live
    /\ kill_node[request[n].client] = n

\* Until an unload frees requests, a client's kill_node is NULL or its own
\* request on the list, so that kill_remove_client removes what kill_user added
\* (the assertion of dlinkDelete, libio/misc/list.c, holds) and a client for whom
\* a kill is ignored as already queued does have one queued.
KillNodesOwned ==
  ~stale =>
    /\ ~aborted
    /\ \A c \in Clients :
         kill_node[c] # NoNode =>
           /\ c \in live
           /\ kill_node[c] \in kill_list
           /\ request[kill_node[c]].client = c

\* A client marked for a kill eventually exits, whatever else happens; after an
\* unload has freed requests a pointer may be to somebody else's.
KillsArrive ==
  \A c \in Clients : (kill_node[c] # NoNode) ~> (c \notin live \/ stale)

Promise == INSTANCE KillPromise WITH doomed <- {request[n].client : n \in kill_list}

\* The list with its nodes and pointers is a set of killed clients: in no
\* interleaving of kills, departures and the walk is a request lost, left for
\* a client that is gone, or taken off by somebody else's exit, as long as no
\* unload has freed requests.
KillsPromised == Promise!Init /\ [][Promise!Next \/ stale']_(Promise!vars)
=============================================================================
