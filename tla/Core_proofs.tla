----------------------------- MODULE Core_proofs -----------------------------
(***************************************************************************)
(* What holds of the parts of MCCore that services run on, for every value *)
(* of their constants: the kill queue for any number of clients, services  *)
(* and list nodes, the event table for every set of events and every       *)
(* frequency, the block heap for any blocks and elements, and the modules  *)
(* for any number of loads.                                                *)
(***************************************************************************)
EXTENDS MCCore, FiniteSetTheorems, SequenceTheorems, TLAPS

\* Every variable of KillQueue stays in its type (src/kill.c, kill_list and
\* client->kill_node).
THEOREM TypeCorrect == Spec => []TypeOK
<1>1. Init => TypeOK
  BY KillAssumption DEF Init, TypeOK, NoRequest, Request
<1>2. TypeOK /\ [Next]_vars => TypeOK'
  <2> SUFFICES ASSUME TypeOK, [Next]_vars PROVE TypeOK'
    OBVIOUS
  <2> USE DEF TypeOK
  <2>1. ASSUME NEW c \in Clients, Connect(c) PROVE TypeOK'
    BY <2>1 DEF Connect
  <2>2. ASSUME NEW c \in Clients, Leave(c) PROVE TypeOK'
    BY <2>2 DEF Leave, ExitClient, KillRemoveClient
  <2>3. ASSUME NEW s \in Services, NEW c \in Clients, KillUser(s, c) PROVE TypeOK'
    BY <2>3 DEF KillUser, Request
  <2>4. ASSUME NEW s \in Services, Unload(s) PROVE TypeOK'
    BY <2>4 DEF Unload, KillRemoveService
  <2>5. ASSUME NEW s \in Services, Load(s) PROVE TypeOK'
    BY <2>5 DEF Load
  <2>6. CASE CheckKills
    BY <2>6 DEF CheckKills
  <2>7. ASSUME NEW n \in Nodes, SendKill(n) PROVE TypeOK'
    <3>1. CASE Debug
      BY <2>7, <3>1 DEF SendKill
    <3>2. CASE ~Debug
      BY <2>7, <3>2 DEF SendKill, ExitClient, KillRemoveClient
    <3> QED BY <3>1, <3>2
  <2>8. CASE CheckKillsDone
    BY <2>8 DEF CheckKillsDone
  <2>9. CASE UNCHANGED vars
    BY <2>9 DEF vars
  <2> QED BY <2>1, <2>2, <2>3, <2>4, <2>5, <2>6, <2>7, <2>8, <2>9 DEF Next
<1> QED BY <1>1, <1>2, PTL DEF Spec

-----------------------------------------------------------------------------

\* Removing a client from the kill list leaves every request that stays listed
\* as it was, and none of the remaining ones is for that client.
LEMMA ExitKeepsListed ==
  ASSUME TypeOK, ListedRequestsValid, NEW c \in Clients, ExitClient(c),
         loaded' = loaded
  PROVE  ListedRequestsValid'
<1> USE DEF TypeOK, ListedRequestsValid
<1> DEFINE n == kill_node[c]
<1>1. CASE n = NoNode
  BY <1>1, KillAssumption DEF ExitClient, KillRemoveClient
<1>2. CASE n \in kill_list
  <2>1. /\ kill_list' = kill_list \ {n}
        /\ request' = [request EXCEPT ![n] = NoRequest]
        /\ kill_node' = [kill_node EXCEPT ![c] = NoNode]
        /\ live' = live \ {c}
    BY <1>2, KillAssumption DEF ExitClient, KillRemoveClient
  <2>2. ASSUME NEW m \in kill_list' 
        PROVE  /\ request'[m] = request[m]
               /\ request[m].client # c
    BY <2>1, <2>2
  <2>3. ASSUME NEW m \in kill_list'
        PROVE  kill_node'[request[m].client] = m
    BY <2>1, <2>2, <2>3 DEF Request, NoRequest
  <2> QED BY <2>1, <2>2, <2>3
<1>3. CASE n # NoNode /\ n \notin kill_list
  \* the assertion of dlinkDelete fails: the list is as it was
  <2>1. ASSUME NEW m \in kill_list PROVE request[m].client # c
    BY <1>3
  <2> QED BY <1>3, <2>1 DEF ExitClient, KillRemoveClient
<1> QED BY <1>1, <1>2, <1>3

\* The node check_kills visits next is still on the list: exiting one client
\* takes no other client's request off it.
WalkInv ==
  /\ ListedRequestsValid
  /\ todo \subseteq kill_list
  /\ ~walking => todo = {}

\* The same action as in ExitKeepsListed, seen from the walk: only the node of
\* the exiting client leaves the list.
LEMMA ExitKeepsOthers ==
  ASSUME TypeOK, NEW c \in Clients, ExitClient(c)
  PROVE  kill_list \ {kill_node[c]} \subseteq kill_list'
BY DEF ExitClient, KillRemoveClient

\* The walk of check_kills meets only requests that are valid and listed.
LEMMA Walk == Spec => []WalkInv
<1>1. Init => WalkInv
  BY DEF Init, ListedRequestsValid, WalkInv
<1>2. TypeOK /\ WalkInv /\ [Next]_vars => ListedRequestsValid'
  <2> SUFFICES ASSUME TypeOK, WalkInv, [Next]_vars
               PROVE  ListedRequestsValid'
    OBVIOUS
  <2>0. ListedRequestsValid
    BY DEF WalkInv
  <2> USE <2>0 DEF TypeOK
  <2>1. ASSUME NEW c \in Clients, Connect(c) PROVE ListedRequestsValid'
    BY <2>1 DEF Connect, ListedRequestsValid
  <2>2. ASSUME NEW c \in Clients, Leave(c) PROVE ListedRequestsValid'
    BY <2>2, ExitKeepsListed DEF Leave
  <2>3. ASSUME NEW s \in Services, NEW c \in Clients, KillUser(s, c)
        PROVE  ListedRequestsValid'
    <3>1. PICK n \in Nodes :
            /\ request[n] = NoRequest
            /\ request' = [request EXCEPT ![n] = [service |-> s, client |-> c]]
            /\ kill_node' = [kill_node EXCEPT ![c] = n]
            /\ kill_list' = kill_list \cup {n}
      BY <2>3 DEF KillUser
    <3>2. n \notin kill_list
      BY <3>1 DEF ListedRequestsValid
    <3>3. /\ s \in loaded' /\ c \in live' /\ live' = live /\ loaded' = loaded
      BY <2>3 DEF KillUser
    <3>4. ASSUME NEW m \in kill_list
          PROVE  request'[m] = request[m] /\ request[m].client # c
      <4>1. kill_node[c] = NoNode
        BY <2>3 DEF KillUser
      <4> QED BY <3>1, <3>2, <4>1, KillAssumption DEF ListedRequestsValid
    <3>5. request'[n] = [service |-> s, client |-> c] /\ kill_node'[c] = n
      BY <3>1
    <3>6. request'[n] # NoRequest
      <4>1. kill_node[c] = NoNode
        BY <2>3 DEF KillUser
      <4> QED BY <3>1, <3>5, <2>3, KillAssumption DEF KillUser, Request, NoRequest
    <3> QED BY <3>1, <3>3, <3>4, <3>5, <3>6 DEF ListedRequestsValid, Request, NoRequest
  <2>4. ASSUME NEW s \in Services, Unload(s) PROVE ListedRequestsValid'
    BY <2>4 DEF Unload, KillRemoveService, ListedRequestsValid
  <2>5. ASSUME NEW s \in Services, Load(s) PROVE ListedRequestsValid'
    BY <2>5 DEF Load, ListedRequestsValid
  <2>6. CASE CheckKills
    BY <2>6 DEF CheckKills, ListedRequestsValid
  <2>7. ASSUME NEW n \in Nodes, SendKill(n) PROVE ListedRequestsValid'
    <3>1. CASE Debug
      BY <2>7, <3>1 DEF SendKill, ListedRequestsValid
    <3>2. CASE ~Debug
      <4>1. request[n].client \in Clients
        BY <2>7 DEF SendKill, WalkInv, ListedRequestsValid
      <4> QED BY <2>7, <3>2, <4>1, ExitKeepsListed DEF SendKill
    <3> QED BY <3>1, <3>2
  <2>8. CASE CheckKillsDone
    BY <2>8 DEF CheckKillsDone, ListedRequestsValid
  <2>9. CASE UNCHANGED vars
    BY <2>9 DEF vars, ListedRequestsValid
  <2> QED BY <2>1, <2>2, <2>3, <2>4, <2>5, <2>6, <2>7, <2>8, <2>9 DEF Next
<1>3. TypeOK /\ WalkInv /\ [Next]_vars
        => (todo \subseteq kill_list /\ (~walking => todo = {}))'
  <2> DEFINE Goal == (todo \subseteq kill_list /\ (~walking => todo = {}))'
  <2> SUFFICES ASSUME TypeOK, WalkInv, [Next]_vars PROVE Goal
    OBVIOUS
  <2>0. todo \subseteq kill_list /\ (~walking => todo = {})
    BY DEF WalkInv
  <2>1. ASSUME NEW n \in Nodes, SendKill(n) PROVE Goal
    <3>1. CASE Debug
      BY <2>0, <2>1, <3>1 DEF SendKill
    <3>2. CASE ~Debug
      <4>1. /\ request[n].client \in Clients
            /\ kill_node[request[n].client] = n
        BY <2>0, <2>1 DEF SendKill, WalkInv, ListedRequestsValid, TypeOK
      <4>2. kill_list \ {n} \subseteq kill_list'
        BY <2>1, <3>2, <4>1, ExitKeepsOthers DEF SendKill
      <4> QED BY <2>0, <2>1, <4>2 DEF SendKill
    <3> QED BY <3>1, <3>2
  <2>2. CASE \E c \in Clients : Connect(c) \/ Leave(c)
    BY <2>0, <2>2 DEF Connect, Leave
  <2>3. CASE \E s \in Services, c \in Clients : KillUser(s, c)
    BY <2>0, <2>3 DEF KillUser
  <2>4. CASE \E s \in Services : Unload(s) \/ Load(s)
    BY <2>0, <2>4 DEF Unload, Load
  <2>5. CASE CheckKills \/ CheckKillsDone \/ UNCHANGED vars
    BY <2>0, <2>5 DEF CheckKills, CheckKillsDone, vars
  <2> QED BY <2>1, <2>2, <2>3, <2>4, <2>5 DEF Next
<1>4. TypeOK /\ WalkInv /\ [Next]_vars => WalkInv'
  BY <1>2, <1>3 DEF WalkInv
<1> QED BY <1>1, <1>4, TypeCorrect, PTL DEF Spec

\* The requests on the list always name a loaded module and a live client
\* whose kill_node they are, even when modules are unloaded in between
\* (check_kills and kill_remove_service in src/kill.c).
THEOREM ListedRequestsAreValid == Spec => []ListedRequestsValid
<1>1. WalkInv => ListedRequestsValid
  BY DEF WalkInv
<1> QED BY <1>1, Walk, PTL

-----------------------------------------------------------------------------
(* Until an unload frees requests the pointers and the list agree, and the *)
(* queue is what KillPromise says.                                         *)

\* The clients with a request on the list: "doomed" of the promise.
Doomed == {request[n].client : n \in kill_list}

\* An exit takes the client's own request off the list.
LEMMA ExitOwned ==
  ASSUME TypeOK, ListedRequestsValid, KillNodesOwned, ~stale, ~aborted, stale' = stale,
         NEW c \in live, ExitClient(c)
  PROVE  /\ KillNodesOwned'
         /\ live' = live \ {c}
         /\ Doomed' = Doomed \ {c}
<1> USE DEF TypeOK, ListedRequestsValid
<1> DEFINE n == kill_node[c]
<1>0. live' = live \ {c} /\ c \in Clients
  BY DEF ExitClient
<1>1. CASE n = NoNode
  <2>1. UNCHANGED <<kill_node, kill_list, request, aborted>>
    BY <1>1, KillAssumption DEF ExitClient, KillRemoveClient
  <2>2. c \notin Doomed
    BY <1>1, KillAssumption DEF Doomed
  <2>3. Doomed' = Doomed
    BY <2>1 DEF Doomed
  <2>4. KillNodesOwned'
    BY <1>0, <1>1, <2>1 DEF KillNodesOwned
  <2> QED BY <1>0, <2>2, <2>3, <2>4
<1>2. CASE n # NoNode
  <2>1. n \in kill_list /\ n \in Nodes /\ request[n].client = c
    BY <1>0, <1>2 DEF KillNodesOwned
  <2>2. /\ kill_list' = kill_list \ {n}
        /\ request' = [request EXCEPT ![n] = NoRequest]
        /\ kill_node' = [kill_node EXCEPT ![c] = NoNode]
        /\ ~aborted'
    BY <1>2, <2>1 DEF ExitClient, KillRemoveClient
  <2>3. \A m \in kill_list' : m \in kill_list /\ request'[m] = request[m] /\ request[m].client # c
    BY <2>2
  <2>4. Doomed' = Doomed \ {c}
    <3>1. \A m \in kill_list : request[m].client # c => m \in kill_list'
      BY <2>1, <2>2
    <3> QED BY <2>3, <3>1 DEF Doomed
  <2>5. ASSUME NEW d \in Clients, kill_node'[d] # NoNode
        PROVE  d \in live' /\ kill_node'[d] \in kill_list' /\ request'[kill_node'[d]].client = d
    <3>1. d # c /\ kill_node'[d] = kill_node[d]
      BY <1>0, <2>2, <2>5
    <3>2. d \in live /\ kill_node[d] \in kill_list /\ request[kill_node[d]].client = d
      BY <2>5, <3>1 DEF KillNodesOwned
    <3>3. kill_node[d] # n
      BY <2>1, <3>1, <3>2
    <3> QED BY <1>0, <2>2, <3>1, <3>2, <3>3
  <2> QED BY <1>0, <2>2, <2>4, <2>5 DEF KillNodesOwned
<1> QED BY <1>1, <1>2

\* kill_user queues one request more, for that client.
LEMMA KillOwned ==
  ASSUME TypeOK, ListedRequestsValid, KillNodesOwned, ~stale, ~aborted,
         NEW s \in Services, NEW c \in Clients, KillUser(s, c)
  PROVE  /\ KillNodesOwned'
         /\ live' = live /\ c \in live
         /\ Doomed' = Doomed \cup {c}
<1> USE DEF TypeOK
<1>1. PICK n \in Nodes :
        /\ request[n] = NoRequest
        /\ request' = [request EXCEPT ![n] = [service |-> s, client |-> c]]
        /\ kill_node' = [kill_node EXCEPT ![c] = n]
        /\ kill_list' = kill_list \cup {n}
  BY DEF KillUser
<1>2. live' = live /\ c \in live /\ kill_node[c] = NoNode /\ ~aborted'
  BY DEF KillUser
<1>3. n \notin kill_list
  BY <1>1 DEF ListedRequestsValid
<1>4. /\ \A m \in kill_list : request'[m] = request[m]
      /\ request'[n].client = c
  BY <1>1, <1>3
<1>5. Doomed' = Doomed \cup {c}
  BY <1>1, <1>4 DEF Doomed
<1>6. ASSUME NEW d \in Clients, kill_node'[d] # NoNode
      PROVE  d \in live' /\ kill_node'[d] \in kill_list' /\ request'[kill_node'[d]].client = d
  <2>1. CASE d = c
    BY <1>1, <1>2, <1>4, <2>1
  <2>2. CASE d # c
    BY <1>1, <1>2, <1>4, <1>6, <2>2 DEF KillNodesOwned
  <2> QED BY <2>1, <2>2
<1> QED BY <1>2, <1>5, <1>6 DEF KillNodesOwned

\* Every other step leaves the list, its requests and the pointers alone.
LEMMA OthersOwned ==
  ASSUME TypeOK, KillNodesOwned, ~stale, UNCHANGED <<kill_node, kill_list, request, aborted>>,
         live \subseteq live'
  PROVE  KillNodesOwned' /\ Doomed' = Doomed
BY DEF KillNodesOwned, Doomed

\* What a step is: an exit of one client, a kill, or neither.
LEMMA StepOwned ==
  ASSUME TypeOK, WalkInv, KillNodesOwned, [Next]_vars, ~stale'
  PROVE  /\ KillNodesOwned'
         /\ \/ \E c \in live : live' = live \ {c} /\ Doomed' = Doomed \ {c}
            \/ \E c \in live : live' = live /\ Doomed' = Doomed \cup {c}
            \/ \E c \in Clients \ live : live' = live \cup {c} /\ Doomed' = Doomed
            \/ live' = live /\ Doomed' = Doomed
<1>0. ListedRequestsValid /\ ~stale /\ ~aborted
  <2>1. ~stale
    BY DEF Next, vars, Connect, Leave, KillUser, Unload, KillRemoveService, Load, CheckKills,
           SendKill, CheckKillsDone
  <2> QED BY <2>1 DEF WalkInv, KillNodesOwned
<1> USE <1>0
<1>1. ASSUME NEW c \in Clients, Connect(c)
      PROVE  /\ KillNodesOwned'
             /\ c \in Clients \ live /\ live' = live \cup {c} /\ Doomed' = Doomed
  BY <1>1, OthersOwned DEF Connect
<1>2. ASSUME NEW c \in Clients, Leave(c)
      PROVE  /\ KillNodesOwned'
             /\ c \in live /\ live' = live \ {c} /\ Doomed' = Doomed \ {c}
  BY <1>2, ExitOwned DEF Leave
<1>3. ASSUME NEW n \in Nodes, SendKill(n), Debug
      PROVE  KillNodesOwned' /\ live' = live /\ Doomed' = Doomed
  BY <1>3, OthersOwned DEF SendKill
<1>4. ASSUME NEW n \in Nodes, SendKill(n), ~Debug
      PROVE  /\ KillNodesOwned'
             /\ \E c \in live : live' = live \ {c} /\ Doomed' = Doomed \ {c}
  <2>1. request[n].client \in live /\ ExitClient(request[n].client) /\ stale' = stale
    BY <1>4 DEF SendKill, WalkInv, ListedRequestsValid
  <2> QED BY <2>1, ExitOwned
<1>5. ASSUME NEW s \in Services, Load(s)
      PROVE  KillNodesOwned' /\ live' = live /\ Doomed' = Doomed
  BY <1>5, OthersOwned DEF Load
<1>6. ASSUME CheckKills \/ CheckKillsDone \/ UNCHANGED vars
      PROVE  KillNodesOwned' /\ live' = live /\ Doomed' = Doomed
  BY <1>6, OthersOwned DEF CheckKills, CheckKillsDone, vars
<1>7. ASSUME NEW s \in Services, Unload(s)
      PROVE  KillNodesOwned' /\ live' = live /\ Doomed' = Doomed
  <2>1. {n \in kill_list : request[n].service = s} = {}
    BY <1>7 DEF Unload, KillRemoveService
  <2>2. kill_list' = kill_list /\ request' = request
    BY <1>7, <2>1 DEF Unload, KillRemoveService, TypeOK
  <2> QED BY <1>7, <2>2, OthersOwned DEF Unload, KillRemoveService
<1> QED BY <1>1, <1>2, <1>3, <1>4, <1>5, <1>6, <1>7, KillOwned DEF Next

\* Until an unload frees requests client->kill_node and kill_list agree
\* (kill_user and kill_remove_client), whatever leaves or is killed in between.
THEOREM NodesOwned == Spec => []KillNodesOwned
<1>1. Init => KillNodesOwned
  BY DEF Init, KillNodesOwned
<1>2. TypeOK /\ WalkInv /\ KillNodesOwned /\ [Next]_vars => KillNodesOwned'
  <2>1. CASE stale'
    BY <2>1 DEF KillNodesOwned
  <2>2. CASE ~stale'
    BY <2>2, StepOwned
  <2> QED BY <2>1, <2>2
<1> QED BY <1>1, <1>2, TypeCorrect, Walk, PTL DEF Spec

\* Until then the list of requests implements the promise that other modules of
\* services rely on: a set of killed clients.
THEOREM PromiseKept == Spec => KillsPromised
<1>1. Init => Promise!Init
  BY DEF Init, Promise!Init
<1>2. TypeOK /\ WalkInv /\ KillNodesOwned /\ [Next]_vars
        => [Promise!Next \/ stale']_(Promise!vars)
  <2> SUFFICES ASSUME TypeOK, WalkInv, KillNodesOwned, [Next]_vars, ~stale'
               PROVE  [Promise!Next]_(Promise!vars)
    OBVIOUS
  <2>1. live \subseteq Clients
    BY DEF TypeOK
  <2>2. CASE \E c \in live : live' = live \ {c} /\ Doomed' = Doomed \ {c}
    BY <2>1, <2>2 DEF Promise!Next, Promise!Exit, Doomed
  <2>3. CASE \E c \in live : live' = live /\ Doomed' = Doomed \cup {c}
    <3>1. PICK c \in live : live' = live /\ Doomed' = Doomed \cup {c}
      BY <2>3
    <3>2. /\ live' = live \cup {}
          /\ {c} \in SUBSET (live \cup {})
      BY <3>1
    <3>3. Promise!Handle
      BY <3>1, <3>2 DEF Promise!Handle, Doomed
    <3> QED BY <3>3 DEF Promise!Next
  <2>4. CASE \E c \in Clients \ live : live' = live \cup {c} /\ Doomed' = Doomed
    <3>1. PICK c \in Clients \ live : live' = live \cup {c} /\ Doomed' = Doomed
      BY <2>4
    <3>2. /\ {c} \in SUBSET (Clients \ live)
          /\ Doomed' = Doomed \cup {}
      BY <3>1
    <3>3. Promise!Handle
      BY <3>1, <3>2 DEF Promise!Handle, Doomed
    <3> QED BY <3>3 DEF Promise!Next
  <2>5. CASE live' = live /\ Doomed' = Doomed
    BY <2>5 DEF Promise!vars, Doomed
  <2> QED BY <2>2, <2>3, <2>4, <2>5, StepOwned
<1> QED BY <1>1, <1>2, TypeCorrect, Walk, NodesOwned, PTL DEF Spec, KillsPromised

-----------------------------------------------------------------------------
(* The event table.                                                        *)

\* Every variable keeps its type (event_table, event_time_min and
\* CurrentTime in libio/misc/event.c and misc.c).
THEOREM TypesCorrect == E!Spec => []E!TypeOK
<1> USE EventAssumption DEF E!TypeOK, E!Slots
<1>1. E!Init => E!TypeOK
  <2> SUFFICES ASSUME E!Init PROVE E!TypeOK
    OBVIOUS
  <2>1. set_back \in BOOLEAN
    BY Zenon DEF E!Init
  <2>2. Freq[Kills] \in Nat /\ 1 \in 1 .. MaxEvents + 1
    OBVIOUS
  <2>3. func \in [E!Slots -> Events \cup {NoEvent}] /\ when \in [E!Slots -> Nat]
    BY <2>2 DEF E!Init
  <2>4. pc \in {"loop", "run", "poll", "dispatch"}
    BY Zenon DEF E!Init
  <2> QED BY <2>1, <2>2, <2>3, <2>4 DEF E!Init
<1>2. E!TypeOK /\ [E!Next]_(E!vars) => E!TypeOK'
  <2> SUFFICES ASSUME E!TypeOK, [E!Next]_(E!vars) PROVE E!TypeOK'
    OBVIOUS
  <2>1. CASE E!LoopHead
    <3>1. PICK m \in {when[i] : i \in E!Slots} \cup {event_time_min} :
            event_time_min' = m
      BY <2>1 DEF E!LoopHead
    <3>2. m \in Nat \cup {-1}
      BY <3>1
    <3> QED BY <2>1, <3>1, <3>2 DEF E!LoopHead
  <2>2. CASE E!RunSlot
    <3>1. func[slot] \in Events /\ Freq[func[slot]] \in Nat
      BY <2>2 DEF E!RunSlot, E!Due, E!Active
    <3>2. func' \in [E!Slots -> Events \cup {NoEvent}]
      BY <2>2 DEF E!RunSlot
    <3>3. when' \in [E!Slots -> Nat]
      <4>1. ASSUME NEW e \in Events PROVE now + Freq[e] \in Nat
        OBVIOUS
      <4>2. \/ when' = [when EXCEPT ![slot] = now + Freq[func[slot]]]
            \/ \E e \in Events, i \in E!Slots :
                 when' = [when EXCEPT ![i] = now + Freq[e],
                                      ![slot] = now + Freq[func[slot]]]
        BY <2>2 DEF E!RunSlot, E!Active
      <4>3. CASE when' = [when EXCEPT ![slot] = now + Freq[func[slot]]]
        BY <3>1, <4>1, <4>3
      <4>4. ASSUME NEW e \in Events, NEW i \in E!Slots,
                   when' = [when EXCEPT ![i] = now + Freq[e], ![slot] = now + Freq[func[slot]]]
            PROVE  when' \in [E!Slots -> Nat]
        <5>1. [when EXCEPT ![i] = now + Freq[e]] \in [E!Slots -> Nat]
          BY <4>1
        <5> QED BY <3>1, <4>1, <4>4, <5>1
      <4> QED BY <4>2, <4>3, <4>4
    <3>4. set_back' \in BOOLEAN
      BY <2>2, Zenon DEF E!RunSlot
    <3>5. /\ event_time_min' = -1 /\ now' = now /\ pc' = pc
          /\ slot \in E!Slots /\ slot' = slot + 1
      BY <2>2 DEF E!RunSlot
    <3> QED BY <3>2, <3>3, <3>4, <3>5
  <2>3. CASE E!SkipSlot \/ E!EventRunDone \/ E!DispatchDone \/ UNCHANGED E!vars
    BY <2>3 DEF E!SkipSlot, E!EventRunDone, E!DispatchDone, E!vars
  <2>4. CASE E!ClockForward
    BY <2>4 DEF E!ClockForward, E!Time
  <2>5. CASE E!ClockBackward
    <3>1. set_back' \in BOOLEAN
      BY <2>5, Zenon DEF E!ClockBackward
    <3>2. PICK by \in 1 .. now : now' = now - by /\ E!SetBackEvents(by)
      BY <2>5 DEF E!ClockBackward
    <3>3. now' \in Nat /\ when' \in [E!Slots -> Nat]
      BY <3>2 DEF E!SetBackEvents
    <3> QED BY <2>5, <3>1, <3>3 DEF E!ClockBackward
  <2>6. ASSUME NEW e \in Events, E!ModuleAdds(e) PROVE E!TypeOK'
    <3>1. now + Freq[e] \in Nat
      OBVIOUS
    <3>2. func' \in [E!Slots -> Events \cup {NoEvent}] /\ when' \in [E!Slots -> Nat]
      <4>1. \/ \E i \in E!Slots : /\ func' = [func EXCEPT ![i] = e]
                                /\ when' = [when EXCEPT ![i] = now + Freq[e]]
            \/ func' = func /\ when' = when
        BY <2>6 DEF E!ModuleAdds, E!EventAdd
      <4>2. ASSUME NEW i \in E!Slots, func' = [func EXCEPT ![i] = e],
                   when' = [when EXCEPT ![i] = now + Freq[e]]
            PROVE  func' \in [E!Slots -> Events \cup {NoEvent}] /\ when' \in [E!Slots -> Nat]
        BY <3>1, <4>2
      <4> QED BY <4>1, <4>2
    <3>3. event_time_min' \in Nat \cup {-1}
      BY <2>6, <3>1 DEF E!ModuleAdds, E!EventAdd
    <3>4. UNCHANGED <<now, set_back, pc, slot>>
      BY <2>6 DEF E!ModuleAdds
    <3> QED BY <3>2, <3>3, <3>4
  <2>7. ASSUME NEW e \in Events, E!ModuleDeletes(e) PROVE E!TypeOK'
    BY <2>7 DEF E!ModuleDeletes, E!EventDelete, E!Active
  <2> QED BY <2>1, <2>2, <2>3, <2>4, <2>5, <2>6, <2>7 DEF E!Next
<1> QED BY <1>1, <1>2, PTL DEF E!Spec

-----------------------------------------------------------------------------

\* The cache is invalid or no later than any active event; it is valid
\* outside the loop head and eventRun, where eventAdd could otherwise set it
\* to the new event's time alone; and the loop leaves only when it is later
\* than the clock.
MinInv ==
  /\ event_time_min # -1 /\ ~set_back => \A i \in E!Active : event_time_min <= when[i]
  /\ pc = "dispatch" => event_time_min # -1
  /\ pc = "poll" => event_time_min > now

\* Every step of the event table keeps MinInv.
LEMMA MinKept == E!Spec => []E!NothingOverdue
<1> USE EventAssumption DEF E!TypeOK, E!Slots
<1>1. E!Init => MinInv
  BY DEF E!Init, MinInv, E!Active
<1>2. E!TypeOK /\ MinInv /\ [E!Next]_(E!vars) => MinInv'
  <2> SUFFICES ASSUME E!TypeOK, MinInv, [E!Next]_(E!vars) PROVE MinInv'
    OBVIOUS
  <2>1. CASE E!LoopHead
    <3>1. PICK m \in {when[i] : i \in E!Slots} \cup {event_time_min} :
            /\ E!EventNextTime(m)
            /\ event_time_min' = m
            /\ pc' = IF m <= now THEN "run" ELSE "poll"
      BY <2>1 DEF E!LoopHead
    <3>2. m \in Nat \cup {-1}
      OBVIOUS
    <3>3. m # -1 /\ ~set_back => \A i \in E!Active : m <= when[i]
      BY <3>1 DEF E!EventNextTime, MinInv
    <3>4. E!Active' = E!Active /\ when' = when /\ now' = now /\ set_back' = set_back
      BY <2>1 DEF E!LoopHead, E!Active
    <3> QED BY <3>1, <3>2, <3>3, <3>4 DEF MinInv
  <2>2. CASE E!RunSlot
    BY <2>2 DEF E!RunSlot, MinInv
  <2>3. CASE E!SkipSlot \/ E!EventRunDone \/ E!DispatchDone \/ UNCHANGED E!vars
    BY <2>3 DEF E!SkipSlot, E!EventRunDone, E!DispatchDone, E!vars, MinInv, E!Active
  <2>4. CASE E!ClockForward
    BY <2>4 DEF E!ClockForward, E!Time, MinInv, E!Active
  <2>5. CASE E!ClockBackward
    BY <2>5 DEF E!ClockBackward, MinInv
  <2>6. ASSUME NEW e \in Events, E!ModuleAdds(e) PROVE MinInv'
    <3>1. CASE UNCHANGED <<func, when, event_time_min>>
      BY <2>6, <3>1 DEF E!ModuleAdds, MinInv, E!Active
    <3>2. CASE \E i \in E!Slots \ E!Active :
                 /\ func' = [func EXCEPT ![i] = e]
                 /\ when' = [when EXCEPT ![i] = now + Freq[e]]
                 /\ event_time_min' =
                      IF event_time_min = -1 \/ now + Freq[e] < event_time_min
                        THEN now + Freq[e] ELSE event_time_min
      <4>1. event_time_min # -1 /\ pc' = "dispatch" /\ now' = now /\ set_back' = set_back
        BY <2>6 DEF E!ModuleAdds, MinInv
      <4>2. PICK i \in E!Slots \ E!Active :
                 /\ func' = [func EXCEPT ![i] = e]
                 /\ when' = [when EXCEPT ![i] = now + Freq[e]]
                 /\ event_time_min' =
                      IF event_time_min = -1 \/ now + Freq[e] < event_time_min
                        THEN now + Freq[e] ELSE event_time_min
        BY <3>2
      <4>3. event_time_min' <= event_time_min /\ event_time_min' <= now + Freq[e]
        BY <4>1, <4>2
      <4>4. ASSUME ~set_back, NEW j \in E!Active' PROVE event_time_min' <= when'[j]
        <5>1. CASE j = i
          BY <4>2, <4>3, <5>1
        <5>2. CASE j # i
          <6>1. j \in E!Active /\ when'[j] = when[j]
            BY <4>2, <5>2 DEF E!Active
          <6> QED BY <4>1, <4>2, <4>4, <6>1 DEF MinInv, E!Active
        <5> QED BY <5>1, <5>2
      <4>5. event_time_min' # -1
        BY <4>1, <4>2
      <4> QED BY <4>1, <4>4, <4>5 DEF MinInv
    <3> QED BY <2>6, <3>1, <3>2 DEF E!ModuleAdds, E!EventAdd
  <2>7. ASSUME NEW e \in Events, E!ModuleDeletes(e) PROVE MinInv'
    BY <2>7 DEF E!ModuleDeletes, E!EventDelete, MinInv, E!Active
  <2> QED BY <2>1, <2>2, <2>3, <2>4, <2>5, <2>6, <2>7 DEF E!Next
<1>3. E!TypeOK /\ MinInv => E!NothingOverdue
  BY DEF MinInv, E!NothingOverdue, E!Active
<1> QED BY <1>1, <1>2, <1>3, TypesCorrect, PTL DEF E!Spec

\* eventNextTime never makes the loop wait past a due event (src/services.c,
\* the main loop; libio/misc/event.c), unless the clock was set back since.
THEOREM NoEventHidden == MCSpec => []NothingOverdue
<1>1. MCInit => E!Init
  BY DEF MCInit
<1>2. [MCNext]_<<part, vars, evars, hvars, svars, mvars>> => [E!Next]_(E!vars)
  BY DEF MCNext, E!vars, evars
<1>3. E!NothingOverdue => NothingOverdue
  BY DEF NothingOverdue
<1> QED BY <1>1, <1>2, <1>3, MinKept, PTL DEF MCSpec, E!Spec

-----------------------------------------------------------------------------

\* No event is scheduled later than its frequency from now, whatever the
\* clock does (eventAdd, eventRun and set_back_events).
THEOREM WithinFrequency == E!Spec => []E!RunsWithinFrequency
<1> USE EventAssumption DEF E!TypeOK, E!Slots, E!Active
<1>1. E!Init => E!RunsWithinFrequency
  BY DEF E!Init, E!RunsWithinFrequency
<1>2. E!TypeOK /\ E!RunsWithinFrequency /\ [E!Next]_(E!vars) => E!RunsWithinFrequency'
  <2> SUFFICES ASSUME E!TypeOK, E!RunsWithinFrequency, [E!Next]_(E!vars)
               PROVE  E!RunsWithinFrequency'
    OBVIOUS
  <2> USE DEF E!RunsWithinFrequency
  <2>1. CASE E!LoopHead \/ E!SkipSlot \/ E!EventRunDone \/ E!DispatchDone \/ UNCHANGED E!vars
    BY <2>1 DEF E!LoopHead, E!SkipSlot, E!EventRunDone, E!DispatchDone, E!vars
  <2>2. CASE E!RunSlot
    <3>0. slot \in E!Active /\ func[slot] \in Events /\ now' = now
      BY <2>2 DEF E!RunSlot, E!Due
    <3>1. CASE UNCHANGED func /\ when' = [when EXCEPT ![slot] = now + Freq[func[slot]]]
      BY <3>0, <3>1
    <3>2. ASSUME NEW e \in Events \ {Kills}, NEW i \in E!Slots \ E!Active,
                 func' = [func EXCEPT ![i] = e],
                 when' = [when EXCEPT ![i] = now + Freq[e],
                                      ![slot] = now + Freq[func[slot]]]
          PROVE  E!RunsWithinFrequency'
      BY <3>0, <3>2
    <3>3. ASSUME NEW i \in E!Active,
                 func' = [func EXCEPT ![i] = NoEvent],
                 when' = [when EXCEPT ![slot] = now + Freq[func[slot]]]
          PROVE  E!RunsWithinFrequency'
      BY <3>0, <3>3
    <3> QED BY <2>2, <3>1, <3>2, <3>3 DEF E!RunSlot
  <2>3. CASE E!ClockForward
    BY <2>3 DEF E!ClockForward, E!Time
  <2>4. CASE E!ClockBackward
    BY <2>4 DEF E!ClockBackward, E!SetBackEvents
  <2>5. ASSUME NEW e \in Events, E!ModuleAdds(e) PROVE E!RunsWithinFrequency'
    BY <2>5 DEF E!ModuleAdds, E!EventAdd
  <2>6. ASSUME NEW e \in Events, E!ModuleDeletes(e) PROVE E!RunsWithinFrequency'
    BY <2>6 DEF E!ModuleDeletes, E!EventDelete
  <2> QED BY <2>1, <2>2, <2>3, <2>4, <2>5, <2>6 DEF E!Next
<1> QED BY <1>1, <1>2, TypesCorrect, PTL DEF E!Spec

-----------------------------------------------------------------------------
(* The block heap.                                                         *)

Cells(set) == set \X (1 .. elemsPerBlock)

\* A heap h of which the elements x are handed out, with its counts as numbers of
\* elements: what BlocksAreOwn says, as it is kept by every operator of Heap.
HeapTyped(h) ==
  h \in [base : SUBSET Blocks, list : [Blocks -> SUBSET Cells(Blocks)], count : [Blocks -> Int],
         free : Int, allocated : Int]
Sound(h, x) ==
  /\ HeapTyped(h)
  /\ x \subseteq Cells(h.base)
  /\ \A b \in h.base : /\ h.list[b] = Cells({b}) \ x
                       /\ h.count[b] = Cardinality(Cells({b}) \ x)
  /\ h.allocated = Cardinality(h.base)
  /\ h.free = Cardinality(Cells(h.base) \ x)

\* Blocks have finitely many elements, elemsPerBlock each.
LEMMA CellsCount ==
  ASSUME NEW set \in SUBSET Blocks
  PROVE  /\ IsFiniteSet(set) /\ Cardinality(set) \in Nat
         /\ IsFiniteSet(Cells(set))
         /\ Cardinality(Cells(set)) = elemsPerBlock * Cardinality(set)
<1>1. IsFiniteSet(set) /\ Cardinality(set) \in Nat
  BY HeapAssumption, FS_Subset, FS_CardinalityType
<1>2. IsFiniteSet(1 .. elemsPerBlock) /\ Cardinality(1 .. elemsPerBlock) = elemsPerBlock
  BY HeapAssumption, FS_Interval
<1>3. IsFiniteSet(Cells(set)) /\ Cardinality(Cells(set)) = Cardinality(set) * elemsPerBlock
  BY <1>1, <1>2, FS_Product DEF Cells
<1>4. Cardinality(set) * elemsPerBlock = elemsPerBlock * Cardinality(set)
  BY <1>1, HeapAssumption
<1> QED BY <1>1, <1>3, <1>4

\* The cells of one block, as Elements of Heap.
LEMMA ElementsAreCells ==
  ASSUME NEW b
  PROVE  H!Elements(b) = Cells({b})
BY DEF H!Elements, Cells

\* Heap counts with the Cardinality of FiniteSets.
LEMMA SameCardinality ==
  ASSUME NEW set
  PROVE  H!Cardinality(set) = Cardinality(set)
BY DEF H!Cardinality, Cardinality

\* A block has elemsPerBlock cells.
LEMMA OneBlock ==
  ASSUME NEW b \in Blocks
  PROVE  IsFiniteSet(Cells({b})) /\ Cardinality(Cells({b})) = elemsPerBlock
<1>1. {b} \in SUBSET Blocks /\ Cardinality({b}) = 1
  BY FS_Singleton
<1>2. elemsPerBlock * 1 = elemsPerBlock
  BY HeapAssumption
<1> QED BY <1>1, <1>2, CellsCount

\* A new block is all free.
LEMMA NewBlockSound ==
  ASSUME NEW h, NEW x, Sound(h, x), NEW b \in Blocks \ h.base
  PROVE  Sound(H!NewBlock(h, b), x)
<1> DEFINE n == H!NewBlock(h, b)
<1>1. /\ HeapTyped(h) /\ x \subseteq Cells(h.base) /\ h.base \subseteq Blocks
      /\ h.allocated = Cardinality(h.base) /\ h.free = Cardinality(Cells(h.base) \ x)
      /\ \A c \in h.base : /\ h.list[c] = Cells({c}) \ x
                           /\ h.count[c] = Cardinality(Cells({c}) \ x)
  BY DEF Sound, HeapTyped
<1>2. /\ n.base = h.base \cup {b} /\ n.list = [h.list EXCEPT ![b] = Cells({b})]
      /\ n.count = [h.count EXCEPT ![b] = elemsPerBlock]
      /\ n.free = h.free + elemsPerBlock /\ n.allocated = h.allocated + 1
  BY ElementsAreCells DEF H!NewBlock
<1>3. HeapTyped(n)
  BY <1>1, HeapAssumption, ElementsAreCells DEF HeapTyped, H!NewBlock, Cells
<1> HIDE DEF n
<1>4. x \subseteq Cells(n.base)
  BY <1>1, <1>2 DEF Cells
<1>5. Cells({b}) \ x = Cells({b})
  BY <1>1 DEF Cells
<1>6. ASSUME NEW c \in n.base
      PROVE  /\ n.list[c] = Cells({c}) \ x
             /\ n.count[c] = Cardinality(Cells({c}) \ x)
  <2>1. CASE c = b
    BY <1>1, <1>2, <1>5, <2>1, OneBlock DEF HeapTyped
  <2>2. CASE c # b
    BY <1>1, <1>2, <1>6, <2>2 DEF HeapTyped
  <2> QED BY <2>1, <2>2
<1>7. n.allocated = Cardinality(n.base)
  BY <1>1, <1>2, CellsCount, FS_AddElement
<1>8. n.free = Cardinality(Cells(n.base) \ x)
  <2>1. Cells(n.base) \ x = (Cells(h.base) \ x) \cup Cells({b})
    BY <1>1, <1>2 DEF Cells
  <2>2. (Cells(h.base) \ x) \cap Cells({b}) = {}
    BY DEF Cells
  <2>3. IsFiniteSet(Cells(h.base) \ x) /\ IsFiniteSet(Cells({b}))
    BY <1>1, CellsCount, OneBlock, FS_Subset
  <2>4. Cardinality((Cells(h.base) \ x) \cup Cells({b}))
          = Cardinality(Cells(h.base) \ x) + Cardinality(Cells({b}))
            - Cardinality((Cells(h.base) \ x) \cap Cells({b}))
    BY <2>3, FS_Union
  <2>5. /\ Cardinality(Cells(h.base) \ x) \in Nat
        /\ Cardinality((Cells(h.base) \ x) \cap Cells({b})) = 0
        /\ Cardinality(Cells({b})) = elemsPerBlock
    BY <2>2, <2>3, FS_CardinalityType, FS_EmptySet, OneBlock
  <2>6. n.free = Cardinality(Cells(h.base) \ x) + elemsPerBlock
    BY <1>1, <1>2
  <2>7. Cardinality((Cells(h.base) \ x) \cup Cells({b}))
          = Cardinality(Cells(h.base) \ x) + elemsPerBlock
    BY <2>4, <2>5, HeapAssumption
  <2> QED BY <2>1, <2>6, <2>7
<1> QED BY <1>3, <1>4, <1>6, <1>7, <1>8 DEF Sound, n

\* The garbage collection takes blocks of which nothing is handed out, with as
\* many elements as it takes off the count.
LEMMA CollectedSound ==
  ASSUME NEW h, NEW x, Sound(h, x)
  PROVE  Sound(H!Collected(h), x)
<1> DEFINE n == H!Collected(h)
           U == H!Unused(h)
<1>1. /\ HeapTyped(h) /\ x \subseteq Cells(h.base) /\ h.base \subseteq Blocks
      /\ h.allocated = Cardinality(h.base) /\ h.free = Cardinality(Cells(h.base) \ x)
      /\ \A c \in h.base : /\ h.list[c] = Cells({c}) \ x
                           /\ h.count[c] = Cardinality(Cells({c}) \ x)
  BY DEF Sound, HeapTyped
<1>2. CASE h.free < elemsPerBlock \/ h.allocated = 1
  BY <1>2 DEF H!Collected
<1>3. CASE ~(h.free < elemsPerBlock \/ h.allocated = 1)
  <2> DEFINE k == Cardinality(U)
             m == elemsPerBlock * Cardinality(U)
  <2>0. n = [h EXCEPT !.base = @ \ U, !.allocated = @ - k, !.free = @ - m]
    BY <1>3, SameCardinality DEF H!Collected
  <2> HIDE DEF n, U, k, m
  <2>1. /\ n.base = h.base \ U /\ n.list = h.list /\ n.count = h.count
        /\ n.allocated = h.allocated - k /\ n.free = h.free - m
    BY <1>1, <2>0 DEF HeapTyped
  <2>2. U \subseteq h.base /\ U \in SUBSET Blocks
    BY <1>1 DEF H!Unused, U
  <2>3. k \in Nat /\ Cardinality(h.base) \in Nat /\ IsFiniteSet(h.base)
    BY <1>1, <2>2, CellsCount DEF k
  <2>4. m \in Nat
    BY <2>3, HeapAssumption DEF m, k
  <2>5. HeapTyped(n)
    <3>1. n = [base |-> h.base \ U, list |-> h.list, count |-> h.count,
               free |-> h.free - m, allocated |-> h.allocated - k]
      BY <1>1, <2>0 DEF HeapTyped
    <3> QED BY <1>1, <2>3, <2>4, <3>1 DEF HeapTyped
  <2>6. ASSUME NEW c \in U PROVE Cells({c}) \cap x = {}
    <3>1. Cardinality(Cells({c}) \ x) = Cardinality(Cells({c})) /\ IsFiniteSet(Cells({c}))
      BY <1>1, <2>2, OneBlock DEF H!Unused, U
    <3>2. Cells({c}) = Cells({c}) \ x
      BY <3>1, FS_Subset
    <3> QED BY <3>2
  <2>7. Cells(U) \cap x = {}
    BY <2>6 DEF Cells
  <2>8. x \subseteq Cells(n.base)
    BY <1>1, <2>1, <2>7 DEF Cells
  <2>9. n.allocated = Cardinality(n.base)
    <3>1. h.base \cap U = U
      BY <2>2
    <3>2. Cardinality(h.base \ U) = Cardinality(h.base) - Cardinality(h.base \cap U)
      BY <2>3, FS_Difference
    <3> QED BY <1>1, <2>1, <3>1, <3>2 DEF k
  <2>10. n.free = Cardinality(Cells(n.base) \ x)
    <3>1. Cells(n.base) \ x = (Cells(h.base) \ x) \ Cells(U)
      BY <2>1 DEF Cells
    <3>2. (Cells(h.base) \ x) \cap Cells(U) = Cells(U)
      BY <2>2, <2>7 DEF Cells
    <3>3. IsFiniteSet(Cells(h.base) \ x)
      BY <1>1, CellsCount, FS_Subset
    <3>4. Cardinality((Cells(h.base) \ x) \ Cells(U))
            = Cardinality(Cells(h.base) \ x) - Cardinality((Cells(h.base) \ x) \cap Cells(U))
      BY <3>3, FS_Difference
    <3>5. Cardinality(Cells(U)) = m
      BY <2>2, CellsCount DEF m
    <3> QED BY <1>1, <2>1, <3>1, <3>2, <3>4, <3>5
  <2> QED BY <1>1, <2>1, <2>5, <2>8, <2>9, <2>10 DEF Sound, n
<1> QED BY <1>2, <1>3

\* An element that is handed out was free, on the list of its block.
LEMMA TakenSound ==
  ASSUME NEW h, NEW x, Sound(h, x), NEW b \in h.base, NEW e \in h.list[b]
  PROVE  Sound(H!Taken(h, e), x \cup {e})
<1> DEFINE n == H!Taken(h, e)
<1>1. /\ HeapTyped(h) /\ x \subseteq Cells(h.base) /\ h.base \subseteq Blocks
      /\ h.allocated = Cardinality(h.base) /\ h.free = Cardinality(Cells(h.base) \ x)
      /\ \A c \in h.base : /\ h.list[c] = Cells({c}) \ x
                           /\ h.count[c] = Cardinality(Cells({c}) \ x)
  BY DEF Sound, HeapTyped
<1>2. e \in Cells({b}) /\ e \notin x /\ e[1] = b /\ e \in Cells(h.base)
  <2>1. e \in Cells({b}) /\ e \notin x
    BY <1>1
  <2> QED BY <2>1 DEF Cells
<1>3. /\ n.base = h.base /\ n.allocated = h.allocated /\ n.free = h.free - 1
      /\ n.count = [h.count EXCEPT ![b] = h.count[b] - 1]
      /\ n.list = [h.list EXCEPT ![b] = h.list[b] \ {e}]
  BY <1>1, <1>2 DEF H!Taken, HeapTyped
<1>4. HeapTyped(n)
  <2> DEFINE L == [h.list EXCEPT ![b] = h.list[b] \ {e}]
             C == [h.count EXCEPT ![b] = h.count[b] - 1]
             F == h.free - 1
  <2>0. n = [h EXCEPT !.free = F, !.count = C, !.list = L]
    BY <1>2 DEF H!Taken
  <2> HIDE DEF n, L, C, F
  <2>1. n = [base |-> h.base, list |-> L, count |-> C, free |-> F, allocated |-> h.allocated]
    BY <1>1, <2>0 DEF HeapTyped
  <2>2. b \in Blocks /\ h.free - 1 \in Int /\ h.count[b] - 1 \in Int
        /\ h.list[b] \ {e} \in SUBSET Cells(Blocks)
    BY <1>1 DEF HeapTyped
  <2>3. L \in [Blocks -> SUBSET Cells(Blocks)] /\ C \in [Blocks -> Int] /\ F \in Int
    BY <1>1, <2>2 DEF HeapTyped, L, C, F
  <2> QED BY <1>1, <2>1, <2>2, <2>3 DEF HeapTyped
<1>5. x \cup {e} \subseteq Cells(n.base)
  BY <1>1, <1>2, <1>3
<1>6. ASSUME NEW c \in n.base
      PROVE  /\ n.list[c] = Cells({c}) \ (x \cup {e})
             /\ n.count[c] = Cardinality(Cells({c}) \ (x \cup {e}))
  <2>1. CASE c = b
    <3>1. Cells({b}) \ (x \cup {e}) = (Cells({b}) \ x) \ {e}
      OBVIOUS
    <3>2. IsFiniteSet(Cells({b}) \ x) /\ e \in Cells({b}) \ x
      BY <1>1, <1>2, OneBlock, FS_Subset
    <3>3. Cardinality(Cells({b}) \ (x \cup {e})) = Cardinality(Cells({b}) \ x) - 1
      BY <3>1, <3>2, FS_RemoveElement
    <3> QED BY <1>1, <1>3, <2>1, <3>1, <3>3 DEF HeapTyped
  <2>2. CASE c # b
    <3>1. Cells({c}) \ (x \cup {e}) = Cells({c}) \ x
      BY <1>2, <2>2 DEF Cells
    <3> QED BY <1>1, <1>3, <1>6, <2>2, <3>1 DEF HeapTyped
  <2> QED BY <2>1, <2>2
<1>7. n.free = Cardinality(Cells(n.base) \ (x \cup {e}))
  <2>1. Cells(h.base) \ (x \cup {e}) = (Cells(h.base) \ x) \ {e}
    OBVIOUS
  <2>2. IsFiniteSet(Cells(h.base) \ x) /\ e \in Cells(h.base) \ x
    BY <1>1, <1>2, CellsCount, FS_Subset
  <2>3. Cardinality((Cells(h.base) \ x) \ {e}) = Cardinality(Cells(h.base) \ x) - 1
    BY <2>2, FS_RemoveElement
  <2> QED BY <1>1, <1>3, <2>1, <2>3
<1> QED BY <1>1, <1>3, <1>4, <1>5, <1>6, <1>7 DEF Sound

\* An element that is given back is free again.
LEMMA FreedSound ==
  ASSUME NEW h, NEW x, Sound(h, x), NEW e \in x, NEW n,
         n = [h EXCEPT !.free = @ + 1, !.count[e[1]] = @ + 1, !.list[e[1]] = @ \cup {e}]
  PROVE  Sound(n, x \ {e})
<1> DEFINE b == e[1]
<1>1. /\ HeapTyped(h) /\ x \subseteq Cells(h.base) /\ h.base \subseteq Blocks
      /\ h.allocated = Cardinality(h.base) /\ h.free = Cardinality(Cells(h.base) \ x)
      /\ \A c \in h.base : /\ h.list[c] = Cells({c}) \ x
                           /\ h.count[c] = Cardinality(Cells({c}) \ x)
  BY DEF Sound, HeapTyped
<1>2. b \in h.base /\ e \in Cells({b}) /\ e \in Cells(h.base) /\ e \in Cells(Blocks)
  BY <1>1 DEF Cells
<1>3. /\ n.base = h.base /\ n.allocated = h.allocated /\ n.free = h.free + 1
      /\ n.count = [h.count EXCEPT ![b] = h.count[b] + 1]
      /\ n.list = [h.list EXCEPT ![b] = h.list[b] \cup {e}]
  BY <1>1, <1>2 DEF HeapTyped
<1>4. HeapTyped(n)
  <2>1. n = [base |-> h.base, list |-> [h.list EXCEPT ![b] = h.list[b] \cup {e}],
             count |-> [h.count EXCEPT ![b] = h.count[b] + 1],
             free |-> h.free + 1, allocated |-> h.allocated]
    BY <1>1, <1>2 DEF HeapTyped
  <2>2. b \in Blocks /\ h.free + 1 \in Int /\ h.count[b] + 1 \in Int
        /\ h.list[b] \cup {e} \in SUBSET Cells(Blocks)
    BY <1>1, <1>2 DEF HeapTyped
  <2>3. /\ [h.list EXCEPT ![b] = h.list[b] \cup {e}] \in [Blocks -> SUBSET Cells(Blocks)]
        /\ [h.count EXCEPT ![b] = h.count[b] + 1] \in [Blocks -> Int]
    BY <1>1, <2>2 DEF HeapTyped
  <2> QED BY <1>1, <2>1, <2>2, <2>3 DEF HeapTyped
<1>5. x \ {e} \subseteq Cells(n.base)
  BY <1>1, <1>3
<1>6. ASSUME NEW c \in n.base
      PROVE  /\ n.list[c] = Cells({c}) \ (x \ {e})
             /\ n.count[c] = Cardinality(Cells({c}) \ (x \ {e}))
  <2>1. CASE c = b
    <3>1. Cells({b}) \ (x \ {e}) = (Cells({b}) \ x) \cup {e}
      BY <1>2
    <3>2. IsFiniteSet(Cells({b}) \ x) /\ e \notin Cells({b}) \ x
      BY <1>1, <1>2, OneBlock, FS_Subset
    <3>3. Cardinality(Cells({b}) \ (x \ {e})) = Cardinality(Cells({b}) \ x) + 1
      BY <3>1, <3>2, FS_AddElement
    <3> QED BY <1>1, <1>2, <1>3, <2>1, <3>1, <3>3 DEF HeapTyped
  <2>2. CASE c # b
    <3>1. Cells({c}) \ (x \ {e}) = Cells({c}) \ x
      BY <1>2, <2>2 DEF Cells
    <3> QED BY <1>1, <1>3, <1>6, <2>2, <3>1 DEF HeapTyped
  <2> QED BY <2>1, <2>2
<1>7. n.free = Cardinality(Cells(n.base) \ (x \ {e}))
  <2>1. Cells(h.base) \ (x \ {e}) = (Cells(h.base) \ x) \cup {e}
    BY <1>2
  <2>2. IsFiniteSet(Cells(h.base) \ x) /\ e \notin Cells(h.base) \ x
    BY <1>1, CellsCount, FS_Subset
  <2>3. Cardinality((Cells(h.base) \ x) \cup {e}) = Cardinality(Cells(h.base) \ x) + 1
    BY <2>2, FS_AddElement
  <2> QED BY <1>1, <1>3, <2>1, <2>3
<1> QED BY <1>1, <1>3, <1>4, <1>5, <1>6, <1>7 DEF Sound

\* BlockHeapAlloc, with a new block or not, and outofmemory.
LEMMA HandSound ==
  ASSUME NEW h, Sound(h, held), Sound(H!Now, held), H!Hand(h)
  PROVE  Sound(H!Now, held)'
<1>1. CASE H!OutOfMemory
  BY <1>1 DEF H!OutOfMemory, H!Now
<1>2. ASSUME NEW b \in h.base, NEW e \in h.list[b], H!Become(H!Taken(h, e)),
             held' = held \cup {e}
      PROVE  Sound(H!Now, held)'
  <2>1. Sound(H!Taken(h, e), held \cup {e})
    BY TakenSound
  <2>2. H!Now' = H!Taken(h, e)
    BY <1>2, <2>1 DEF H!Become, H!Now, Sound, HeapTyped
  <2> QED BY <1>2, <2>1, <2>2
<1> QED BY <1>1, <1>2 DEF H!Hand

\* No operation on a heap loses an element, hands one out twice or unmaps one that
\* is used, and its counts stay true (libio/mem/balloc.c).
LEMMA HeapKept == H!Spec => []Sound(H!Now, held)
<1>1. H!Init => Sound(H!Now, held)
  <2> SUFFICES ASSUME H!Init PROVE Sound(H!Now, held)
    OBVIOUS
  <2>1. Sound(H!Empty, {})
    <3>1. HeapTyped(H!Empty)
      BY DEF HeapTyped, H!Empty
    <3>2. Cells({}) \ {} = {} /\ Cardinality({}) = 0
      BY FS_EmptySet DEF Cells
    <3> QED BY <3>1, <3>2 DEF Sound, H!Empty
  <2>2. PICK b \in Blocks :
          LET h == H!NewBlock(H!Empty, b)
          IN  /\ base = h.base /\ free_list = h.list /\ blockFree = h.count
              /\ freeElems = h.free /\ blocksAllocated = h.allocated
              /\ held = {}
    BY DEF H!Init
  <2>3. b \in Blocks \ H!Empty.base
    BY DEF H!Empty
  <2>4. H!Now = H!NewBlock(H!Empty, b)
    BY <2>2 DEF H!Now, H!NewBlock
  <2> QED BY <2>1, <2>2, <2>3, <2>4, NewBlockSound
<1>2. Sound(H!Now, held) /\ [H!Next]_(H!vars) => Sound(H!Now, held)'
  <2> SUFFICES ASSUME Sound(H!Now, held), [H!Next]_(H!vars) PROVE Sound(H!Now, held)'
    OBVIOUS
  <2>1. CASE H!BlockHeapAlloc
    <3>1. CASE H!Hand(H!Now)
      BY <3>1, HandSound
    <3>2. ASSUME NEW b \in Blocks \ base, H!Hand(H!NewBlock(H!Now, b))
          PROVE  Sound(H!Now, held)'
      <4>1. Sound(H!NewBlock(H!Now, b), held)
        BY NewBlockSound DEF H!Now
      <4> QED BY <3>2, <4>1, HandSound
    <3>3. ASSUME NEW b \in Blocks \ H!Collected(H!Now).base,
                 H!Hand(H!NewBlock(H!Collected(H!Now), b))
          PROVE  Sound(H!Now, held)'
      <4>1. Sound(H!NewBlock(H!Collected(H!Now), b), held)
        BY CollectedSound, NewBlockSound
      <4> QED BY <3>3, <4>1, HandSound
    <3>4. CASE H!OutOfMemory
      BY <3>4 DEF H!OutOfMemory, H!Now
    <3> QED BY <2>1, <3>1, <3>2, <3>3, <3>4 DEF H!BlockHeapAlloc
  <2>2. ASSUME NEW e \in held, H!BlockHeapFree(e) PROVE Sound(H!Now, held)'
    <3> DEFINE n == [H!Now EXCEPT !.free = @ + 1, !.count[e[1]] = @ + 1,
                                  !.list[e[1]] = @ \cup {e}]
    <3>1. Sound(n, held \ {e})
      BY FreedSound
    <3>2. H!Become(n) /\ held' = held \ {e}
      BY <2>2 DEF H!BlockHeapFree
    <3> HIDE DEF n
    <3>3. H!Now' = n
      BY <3>1, <3>2 DEF H!Become, H!Now, Sound, HeapTyped
    <3> QED BY <3>1, <3>2, <3>3
  <2>3. CASE H!HeapGarbageCollection
    <3>1. Sound(H!Collected(H!Now), held)
      BY CollectedSound
    <3>2. H!Now' = H!Collected(H!Now)
      BY <2>3, <3>1 DEF H!HeapGarbageCollection, H!Become, H!Now, Sound, HeapTyped
    <3> QED BY <2>3, <3>1, <3>2 DEF H!HeapGarbageCollection
  <2>4. CASE UNCHANGED H!vars
    BY <2>4 DEF H!vars, H!Now
  <2> QED BY <2>1, <2>2, <2>3, <2>4 DEF H!Next
<1> QED BY <1>1, <1>2, PTL DEF H!Spec

\* What Sound says in the terms of BlocksAreOwn: the free elements are those that
\* are not handed out, and if there are any some block has one.
LEMMA SoundIsOwn == Sound(H!Now, held) => H!BlocksAreOwn
<1> SUFFICES ASSUME Sound(H!Now, held) PROVE H!BlocksAreOwn
  OBVIOUS
<1>1. /\ base \in SUBSET Blocks /\ held \subseteq Cells(base)
      /\ blocksAllocated = Cardinality(base) /\ freeElems = Cardinality(Cells(base) \ held)
      /\ \A b \in base : /\ free_list[b] = Cells({b}) \ held
                         /\ blockFree[b] = Cardinality(Cells({b}) \ held)
  BY DEF Sound, HeapTyped, H!Now
<1>2. UNION {H!Elements(b) : b \in base} = Cells(base)
  BY DEF H!Elements, Cells
<1>3. \A b \in base : /\ free_list[b] = H!Elements(b) \ held
                      /\ blockFree[b] = Cardinality(free_list[b])
  BY <1>1, ElementsAreCells
<1>4. freeElems = blocksAllocated * elemsPerBlock - Cardinality(held)
  <2>1. Cells(base) \cap held = held
    BY <1>1
  <2>2. Cardinality(Cells(base) \ held)
          = Cardinality(Cells(base)) - Cardinality(Cells(base) \cap held)
    BY <1>1, CellsCount, FS_Difference
  <2>3. Cardinality(Cells(base)) = Cardinality(base) * elemsPerBlock
    <3>1. Cardinality(base) \in Nat /\ Cardinality(Cells(base)) = elemsPerBlock * Cardinality(base)
      BY <1>1, CellsCount
    <3> QED BY <3>1, HeapAssumption
  <2> QED BY <1>1, <2>1, <2>2, <2>3
<1>5. ASSUME freeElems > 0 PROVE \E b \in base : blockFree[b] > 0
  <2>1. Cells(base) \ held # {}
    <3>1. Cardinality(Cells(base) \ held) # 0
      BY <1>1, <1>5
    <3> QED BY <3>1, FS_EmptySet
  <2>2. PICK e \in Cells(base) : e \notin held
    BY <2>1
  <2>3. PICK b \in base : e \in Cells({b}) \ held
    BY <2>2 DEF Cells
  <2>4. IsFiniteSet(Cells({b}) \ held)
    BY <1>1, OneBlock, FS_Subset
  <2>5. Cardinality(Cells({b}) \ held) \in Nat /\ Cardinality(Cells({b}) \ held) # 0
    BY <2>3, <2>4, FS_EmptySet, FS_CardinalityType
  <2> QED BY <1>1, <2>5
<1>6. held \subseteq UNION {H!Elements(b) : b \in base}
  BY <1>1, <1>2
<1>7. blocksAllocated = Cardinality(base)
  BY <1>1
<1> QED BY <1>3, <1>4, <1>5, <1>6, <1>7, SameCardinality DEF H!BlocksAreOwn

\* Whatever is taken, given back and collected in any order, elements are on the
\* list of their own block or handed out once, and BlockHeapAlloc's assertion
\* holds (libio/mem/balloc.c).
THEOREM HeapIsOwn == MCSpec => []BlocksAreOwn
<1>1. MCInit => H!Init
  BY DEF MCInit
<1>2. [MCNext]_<<part, vars, evars, hvars, svars, mvars>> => [H!Next]_(H!vars)
  BY DEF MCNext, H!vars, hvars
<1>3. Sound(H!Now, held) => BlocksAreOwn
  BY SoundIsOwn DEF BlocksAreOwn
<1> QED BY <1>1, <1>2, <1>3, HeapKept, PTL DEF MCSpec, H!Spec

-----------------------------------------------------------------------------
(* The tries of commands (CommandTree): add_msg_element and                *)
(* del_msg_element keep a trie well-formed and change no other message.    *)

\* Commands as the trie has them; p begins q.
Letters == {"S", "E", "J", "I", "D", "N", "V", "F", "H"}
Words == Seq(Letters)
Begins(p, q) == Len(p) <= Len(q) /\ \A k \in 1..Len(p) : p[k] = q[k]

\* Prefixes of commands, and the nodes on the way to one.
LEMMA WordsEqual ==
  ASSUME NEW p \in Words, NEW q \in Words, Begins(p, q), Len(p) = Len(q)
  PROVE  p = q
<1>1. p \in Seq(Letters) /\ q \in Seq(Letters)
  BY DEF Words
<1> QED BY <1>1, SeqEqual DEF Begins

LEMMA PrefixOf ==
  ASSUME NEW w \in Words, NEW i \in 0..Len(w)
  PROVE  /\ SubSeq(w, 1, i) \in Words /\ Len(SubSeq(w, 1, i)) = i
         /\ Begins(SubSeq(w, 1, i), w)
<1>1. SubSeq(w, 1, i) \in Seq(Letters) /\ Len(SubSeq(w, 1, i)) = i /\ \A k \in 1..i : SubSeq(w, 1, i)[k] = w[k]
  BY DEF Words
<1> QED BY <1>1 DEF Words, Begins

LEMMA PathIs ==
  ASSUME NEW w \in Words
  PROVE  M!Path(w) = {q \in Words : Begins(q, w)}
<1>1. \A q \in M!Path(w) : q \in Words /\ Begins(q, w)
  BY PrefixOf DEF M!Path
<1>2. ASSUME NEW q \in Words, Begins(q, w) PROVE q \in M!Path(w)
  <2>1. Len(q) \in 0..Len(w)
    BY <1>2 DEF Words, Begins
  <2>2. SubSeq(w, 1, Len(q)) \in Words /\ Len(SubSeq(w, 1, Len(q))) = Len(q) /\ Begins(SubSeq(w, 1, Len(q)), w)
    BY <2>1, PrefixOf
  <2>3. q = SubSeq(w, 1, Len(q))
    <3>1. Begins(q, SubSeq(w, 1, Len(q)))
      BY <1>2, <2>2 DEF Begins, Words
    <3> QED BY <3>1, <2>2, WordsEqual
  <2> QED BY <2>1, <2>3 DEF M!Path
<1> QED BY <1>1, <1>2

LEMMA PathFinite == ASSUME NEW w \in Words PROVE IsFiniteSet(M!Path(w))
<1>1. IsFiniteSet(0..Len(w))
  BY FS_Interval DEF Words
<1> DEFINE f == [i \in 0..Len(w) |-> SubSeq(w, 1, i)]
<1>2. f \in Surjection(0..Len(w), M!Path(w))
  BY DEF Surjection, M!Path
<1> QED BY <1>1, <1>2, FS_Surjection

LEMMA ParentIs ==
  ASSUME NEW q \in Words, q # <<>>
  PROVE  M!Parent(q) \in Words /\ Len(M!Parent(q)) = Len(q) - 1 /\ Begins(M!Parent(q), q)
<1>1. Len(q) \in Nat /\ Len(q) # 0
  BY DEF Words
<1>2. Len(q) - 1 \in 0..Len(q)
  BY <1>1
<1>3. M!Parent(q) = SubSeq(q, 1, Len(q) - 1)
  BY DEF M!Parent, M!Front
<1> QED BY <1>2, <1>3, PrefixOf

LEMMA BeginsIs ==
  ASSUME NEW p \in Words, NEW q \in Words
  PROVE  M!IsPrefix(p, q) <=> Begins(p, q)
<1>1. ASSUME Len(p) <= Len(q) PROVE SubSeq(p, 1, Len(p)) = SubSeq(q, 1, Len(p)) <=> Begins(p, q)
  <2>1. Len(p) \in 0..Len(q) /\ Len(p) \in 0..Len(p)
    BY <1>1 DEF Words
  <2>2. SubSeq(q, 1, Len(p)) \in Words /\ Len(SubSeq(q, 1, Len(p))) = Len(p) /\ Begins(SubSeq(q, 1, Len(p)), q)
    BY <2>1, PrefixOf
  <2>3. SubSeq(p, 1, Len(p)) = p
    BY <2>1, PrefixOf, WordsEqual
  <2>4. CASE p = SubSeq(q, 1, Len(p))
    BY <2>4, <2>3, <2>2
  <2>5. CASE Begins(p, q)
    <3>1. Begins(p, SubSeq(q, 1, Len(p)))
      BY <2>5, <2>2 DEF Begins
    <3> QED BY <3>1, <2>2, <2>3, <2>5, WordsEqual
  <2> QED BY <2>3, <2>4, <2>5
<1> QED BY <1>1 DEF M!IsPrefix, Begins
\* The word on the way from p to w that is one longer than p.
LEMMA NextWord ==
  ASSUME NEW w \in Words, NEW p \in Words, Begins(p, w), p # w
  PROVE  \E c \in Words : Begins(c, w) /\ c # <<>> /\ M!Parent(c) = p
<1>1. Len(p) \in Nat /\ Len(w) \in Nat /\ Len(p) < Len(w)
  <2>1. Len(p) \in Nat /\ Len(w) \in Nat /\ Len(p) <= Len(w)
    BY DEF Words, Begins
  <2>2. Len(p) # Len(w)
    BY WordsEqual
  <2> QED BY <2>1, <2>2
<1> DEFINE c == SubSeq(w, 1, Len(p) + 1)
<1>2. Len(p) + 1 \in 0..Len(w)
  BY <1>1
<1>3. c \in Words /\ Len(c) = Len(p) + 1 /\ Begins(c, w)
  BY <1>2, PrefixOf
<1> HIDE DEF c
<1>4. c # <<>>
  <2>1. Len(c) # 0
    BY <1>3, <1>1
  <2> QED BY <2>1
<1>5. M!Parent(c) = p
  <2>1. M!Parent(c) \in Words /\ Len(M!Parent(c)) = Len(c) - 1 /\ Begins(M!Parent(c), c)
    BY <1>3, <1>4, ParentIs
  <2>2. Len(M!Parent(c)) = Len(p)
    BY <2>1, <1>3, <1>1
  <2>3. Begins(M!Parent(c), p)
    BY <2>1, <2>2, <1>3, <1>1 DEF Begins
  <2> QED BY <2>1, <2>2, <2>3, WordsEqual
<1> QED BY <1>3, <1>4, <1>5

LEMMA FirstOfNat ==
  ASSUME NEW T \in SUBSET Nat, T # {}
  PROVE  \E n \in T : \A k \in T : n <= k
<1>1. PICK n \in T : \A k \in T : ~ (<<k, n>> \in OpToRel(<, Nat))
  BY NatLessThanWellFounded, WFMin
<1>2. \A k \in T : ~ (k < n)
  BY <1>1 DEF OpToRel
<1> QED BY <1>2

\* A set of words that has the parent of each of its words has its whole path.
LEMMA ParentsArePaths ==
  ASSUME NEW D \in SUBSET Words, \A p \in D : p # <<>> => M!Parent(p) \in D, NEW w \in D
  PROVE  M!Path(w) \subseteq D
<1> DEFINE Out == {i \in Nat : i <= Len(w) /\ SubSeq(w, 1, Len(w) - i) \notin D}
<1>1. Len(w) \in Nat /\ w \in Words
  BY DEF Words
<1>2. SUFFICES Out = {}
  <2>1. ASSUME NEW i \in 0..Len(w), Out = {} PROVE SubSeq(w, 1, i) \in D
    <3>1. Len(w) - i \in Nat /\ Len(w) - i <= Len(w) /\ Len(w) - (Len(w) - i) = i
      BY <1>1
    <3> QED BY <2>1, <3>1
  <2> QED BY <2>1 DEF M!Path
<1>3. SUFFICES ASSUME Out # {} PROVE FALSE
  OBVIOUS
<1>4. PICK n \in Out : \A k \in Out : n <= k
  BY <1>3, FirstOfNat
<1> DEFINE p == SubSeq(w, 1, Len(w) - n)
           q == SubSeq(w, 1, Len(w) - n + 1)
<1>5. n # 0
  <2>1. ASSUME n = 0 PROVE SubSeq(w, 1, Len(w) - n) = w
    <3>1. Len(w) \in 0..Len(w) /\ Len(w) - n = Len(w)
      BY <2>1, <1>1
    <3>2. SubSeq(w, 1, Len(w)) \in Words /\ Len(SubSeq(w, 1, Len(w))) = Len(w) /\ Begins(SubSeq(w, 1, Len(w)), w)
      BY <1>1, <3>1, PrefixOf
    <3> QED BY <1>1, <3>1, <3>2, WordsEqual
  <2> QED BY <2>1
<1>6. n \in Nat /\ n <= Len(w)
  OBVIOUS
<1>7. q \in D
  <2>1. n - 1 \in Nat /\ n - 1 <= Len(w) /\ Len(w) - (n - 1) = Len(w) - n + 1 /\ ~ (n <= n - 1)
    BY <1>1, <1>5, <1>6
  <2>2. n - 1 \notin Out
    BY <1>4, <2>1
  <2> QED BY <2>1, <2>2
<1>8. Len(w) - n \in 0..Len(w) /\ Len(w) - n + 1 \in 0..Len(w)
  BY <1>1, <1>5, <1>6
<1>9. /\ q \in Words /\ Len(q) = Len(w) - n + 1 /\ Begins(q, w)
      /\ p \in Words /\ Len(p) = Len(w) - n /\ Begins(p, w)
  BY <1>1, <1>8, PrefixOf
<1>12. p \notin D
  BY <1>4
<1> HIDE DEF p, q
<1>10. q # <<>>
  <2>1. Len(q) # 0
    BY <1>8, <1>9
  <2> QED BY <2>1
<1>11. M!Parent(q) = p
  <2>1. M!Parent(q) \in Words /\ Len(M!Parent(q)) = Len(q) - 1 /\ Begins(M!Parent(q), q)
    BY <1>9, <1>10, ParentIs
  <2>2. Len(M!Parent(q)) = Len(p)
    BY <2>1, <1>9, <1>8
  <2>3. Begins(M!Parent(q), p)
    BY <2>1, <2>2, <1>9 DEF Begins
  <2> QED BY <2>1, <2>2, <2>3, <1>9, WordsEqual
<1> QED BY <1>7, <1>10, <1>11, <1>12

-----------------------------------------------------------------------------
\* A tree as mod_add_cmd and mod_del_cmd leave it.
Trie(t) == IsFiniteSet(DOMAIN t) /\ DOMAIN t \subseteq Words /\ M!WellFormed(t)

\* Modules counts with the Cardinality of FiniteSets.
LEMMA SameCount == ASSUME NEW set PROVE M!Cardinality(set) = Cardinality(set)
BY DEF M!Cardinality, Cardinality

\* How a trie is taken apart and put together.
LEMMA TrieFacts ==
  ASSUME NEW t, Trie(t), NEW p \in DOMAIN t
  PROVE  /\ p \in Words
         /\ p # <<>> => M!Parent(p) \in DOMAIN t
         /\ IsFiniteSet(M!Children(t, p)) /\ Cardinality(M!Children(t, p)) \in Nat
         /\ t[p].links = Cardinality(M!Children(t, p)) + (IF t[p].msg = Nothing THEN 0 ELSE 1)
<1>1. p \in Words
  BY DEF Trie
<1>2. ASSUME p # <<>> PROVE M!Parent(p) \in DOMAIN t
  <2>1. M!Parent(p) \in M!Path(p)
    BY <1>1, <1>2, PathIs, ParentIs
  <2> QED BY <2>1 DEF Trie, M!WellFormed
<1>3. IsFiniteSet(M!Children(t, p))
  BY FS_Subset DEF Trie, M!Children
<1>4. Cardinality(M!Children(t, p)) \in Nat
  BY <1>3, FS_CardinalityType
<1>5. t[p].links = Cardinality(M!Children(t, p)) + (IF t[p].msg = Nothing THEN 0 ELSE 1)
  BY SameCount DEF Trie, M!WellFormed
<1> QED BY <1>1, <1>2, <1>3, <1>4, <1>5

LEMMA TrieMade ==
  ASSUME NEW t, IsFiniteSet(DOMAIN t), DOMAIN t \subseteq Words,
         \A p \in DOMAIN t : p # <<>> => M!Parent(p) \in DOMAIN t,
         \A p \in DOMAIN t :
           t[p].links = Cardinality(M!Children(t, p)) + (IF t[p].msg = Nothing THEN 0 ELSE 1),
         \A p \in DOMAIN t : p # <<>> => t[p].links > 0
  PROVE  Trie(t)
<1>1. \A p \in DOMAIN t : M!Path(p) \subseteq DOMAIN t
  BY ParentsArePaths
<1> QED BY <1>1, SameCount DEF Trie, M!WellFormed

\* What add_msg_element counts is right, and it enters the one command.
LEMMA AddSound ==
  ASSUME NEW t, Trie(t), NEW w \in Words, NEW msg, msg # Nothing, M!FindMsg(t, w) = Nothing
  PROVE  /\ Trie(M!AddElement(t, w, msg))
         /\ \A x : M!FindMsg(M!AddElement(t, w, msg), x) = IF x = w THEN msg ELSE M!FindMsg(t, x)
<1> DEFINE D == DOMAIN t
           new == M!Path(w) \ D
           u == M!AddElement(t, w, msg)
           more(p) == {q \in new : q # <<>> /\ M!Parent(q) = p}
           old(p) == IF p \in new THEN M!Node ELSE t[p]
<1>1. u = [p \in D \cup new |->
             [msg   |-> IF p = w THEN msg ELSE old(p).msg,
              links |-> old(p).links + Cardinality(more(p)) + (IF p = w THEN 1 ELSE 0)]]
  BY SameCount DEF M!AddElement
<1>2. DOMAIN u = D \cup new /\ new \subseteq Words /\ IsFiniteSet(new) /\ new \cap D = {}
  BY <1>1, PathIs, PathFinite, FS_Difference
<1>3. IsFiniteSet(DOMAIN u) /\ DOMAIN u \subseteq Words
  BY <1>2, FS_Union DEF Trie
<1>4. w \in DOMAIN u
  BY <1>2, PathIs DEF Begins, Words
<1>5. ASSUME NEW p \in DOMAIN u, p # <<>> PROVE M!Parent(p) \in DOMAIN u
  <2>1. CASE p \in D
    BY <2>1, <1>5, <1>2, TrieFacts
  <2>2. CASE p \in M!Path(w)
    <3>1. p \in Words /\ Begins(p, w)
      BY <2>2, PathIs
    <3>2. M!Parent(p) \in Words /\ Len(M!Parent(p)) = Len(p) - 1 /\ Begins(M!Parent(p), p)
      BY <3>1, <1>5, ParentIs
    <3>3. Begins(M!Parent(p), w)
      BY <3>1, <3>2 DEF Begins, Words
    <3>4. M!Parent(p) \in M!Path(w)
      BY <3>2, <3>3, PathIs
    <3> QED BY <3>4, <1>2
  <2> QED BY <2>1, <2>2, <1>2
<1>6. ASSUME NEW p \in DOMAIN u
      PROVE  /\ IsFiniteSet(more(p)) /\ Cardinality(more(p)) \in Nat
             /\ M!Children(u, p) = M!Children(t, p) \cup more(p)
             /\ M!Children(t, p) \cap more(p) = {}
  <2>1. IsFiniteSet(more(p))
    BY <1>2, FS_Subset
  <2>2. Cardinality(more(p)) \in Nat
    BY <2>1, FS_CardinalityType
  <2> QED BY <2>1, <2>2, <1>2 DEF M!Children
<1>7. ASSUME NEW p \in DOMAIN u
      PROVE  /\ IsFiniteSet(M!Children(t, p)) /\ Cardinality(M!Children(t, p)) \in Nat
             /\ old(p).links = Cardinality(M!Children(t, p)) + (IF old(p).msg = Nothing THEN 0 ELSE 1)
             /\ p = w => old(p).msg = Nothing
  <2>1. CASE p \in D
    <3>1. old(p) = t[p]
      BY <2>1, <1>2
    <3>2. p = w => t[p].msg = Nothing
      BY <2>1 DEF M!FindMsg
    <3> QED BY <2>1, <3>1, <3>2, TrieFacts
  <2>2. CASE p \in new
    <3>1. old(p).links = 0 /\ old(p).msg = Nothing
      BY <2>2 DEF M!Node
    <3>2. M!Children(t, p) = {}
      BY <2>2, TrieFacts DEF M!Children
    <3>3. IsFiniteSet({}) /\ Cardinality({}) = 0
      BY FS_EmptySet
    <3> QED BY <3>1, <3>2, <3>3
  <2> QED BY <2>1, <2>2, <1>2
<1> HIDE DEF u, old, more
<1>8. ASSUME NEW p \in DOMAIN u
      PROVE  /\ u[p].msg = IF p = w THEN msg ELSE old(p).msg
             /\ u[p].links = old(p).links + Cardinality(more(p)) + (IF p = w THEN 1 ELSE 0)
  BY <1>1, <1>2
<1>9. ASSUME NEW p \in DOMAIN u
      PROVE  u[p].links = Cardinality(M!Children(u, p)) + (IF u[p].msg = Nothing THEN 0 ELSE 1)
  <2>1. Cardinality(M!Children(u, p)) = Cardinality(M!Children(t, p)) + Cardinality(more(p))
    <3>1. Cardinality(M!Children(t, p) \cup more(p))
            = Cardinality(M!Children(t, p)) + Cardinality(more(p)) - Cardinality(M!Children(t, p) \cap more(p))
      BY <1>6, <1>7, FS_Union
    <3>2. Cardinality(M!Children(t, p) \cap more(p)) = 0
      BY <1>6, FS_EmptySet
    <3>3. M!Children(u, p) = M!Children(t, p) \cup more(p)
      BY <1>6
    <3>4. Cardinality(more(p)) \in Nat /\ Cardinality(M!Children(t, p)) \in Nat
      BY <1>6, <1>7
    <3> QED BY <3>1, <3>2, <3>3, <3>4
  <2>2. CASE p = w
    BY <2>1, <2>2, <1>6, <1>7, <1>8
  <2>3. CASE p # w
    BY <2>1, <2>3, <1>6, <1>7, <1>8
  <2> QED BY <2>2, <2>3
<1>10. ASSUME NEW p \in DOMAIN u, p # <<>> PROVE u[p].links > 0
  <2>0. /\ u[p].links = old(p).links + Cardinality(more(p)) + (IF p = w THEN 1 ELSE 0)
        /\ Cardinality(more(p)) \in Nat /\ old(p).links \in Nat
    BY <1>6, <1>7, <1>8
  <2>1. CASE p \in D
    <3>1. old(p) = t[p]
      BY <2>1, <1>2 DEF old
    <3>2. t[p].links > 0
      BY <2>1, <1>10 DEF Trie, M!WellFormed
    <3> QED BY <3>1, <3>2, <2>0
  <2>2. CASE p = w
    BY <2>2, <2>0
  <2>3. CASE p \in new /\ p # w
    <3>1. p \in Words /\ Begins(p, w)
      BY <2>3, PathIs
    <3>2. PICK q \in Words : Begins(q, w) /\ q # <<>> /\ M!Parent(q) = p
      BY <2>3, <3>1, NextWord
    <3>7. q \in new
      <4>1. q \in M!Path(w)
        BY <3>2, PathIs
      <4>2. q \notin D
        BY <2>3, <3>2, TrieFacts
      <4> QED BY <4>1, <4>2
    <3>8. Cardinality(more(p)) # 0
      <4>1. q \in more(p)
        BY <3>2, <3>7 DEF more
      <4> QED BY <4>1, <1>6, FS_EmptySet
    <3> QED BY <3>8, <2>0
  <2> QED BY <2>1, <2>2, <2>3, <1>2
<1>11. Trie(u)
  BY <1>3, <1>5, <1>9, <1>10, TrieMade
<1>12. ASSUME NEW x PROVE M!FindMsg(u, x) = IF x = w THEN msg ELSE M!FindMsg(t, x)
  <2>1. CASE x = w
    BY <2>1, <1>4, <1>8 DEF M!FindMsg
  <2>2. CASE x # w /\ x \in D
    BY <2>2, <1>2, <1>8 DEF M!FindMsg, old
  <2>3. CASE x # w /\ x \in new
    BY <2>3, <1>2, <1>8 DEF M!FindMsg, old, M!Node
  <2>4. CASE x \notin DOMAIN u
    BY <2>4, <1>2, <1>4 DEF M!FindMsg
  <2> QED BY <2>1, <2>2, <2>3, <2>4, <1>2
<1> QED BY <1>11, <1>12 DEF u

\* del_msg_element frees what only the command was for, and nothing else.
LEMMA DelSound ==
  ASSUME NEW t, Trie(t), NEW w \in Words
  PROVE  /\ Trie(M!DelElement(t, w))
         /\ \A x : M!FindMsg(M!DelElement(t, w), x) = IF x = w THEN Nothing ELSE M!FindMsg(t, x)
<1>1. CASE M!FindMsg(t, w) = Nothing
  BY <1>1 DEF M!DelElement
<1>2. ASSUME M!FindMsg(t, w) # Nothing
      PROVE  /\ Trie(M!DelElement(t, w))
             /\ \A x : M!FindMsg(M!DelElement(t, w), x) = IF x = w THEN Nothing ELSE M!FindMsg(t, x)
  <2> DEFINE D == DOMAIN t
             u == M!DelElement(t, w)
             freed == {q \in M!Path(w) : q # <<>> /\ \A p \in M!Path(w) : M!IsPrefix(q, p) => t[p].links = 1}
             Over(p) == \E q \in freed : M!Parent(q) = p
  <2>1. u = [p \in D \ freed |->
               [msg   |-> IF p = w THEN Nothing ELSE t[p].msg,
                links |-> t[p].links - (IF p = w \/ Over(p) THEN 1 ELSE 0)]]
    BY <1>2 DEF M!DelElement
  <2>2. w \in D /\ t[w].msg # Nothing /\ M!Path(w) \subseteq D
    BY <1>2 DEF M!FindMsg, Trie, M!WellFormed
  <2>3. DOMAIN u = D \ freed
    BY <2>1
  <2>4. ASSUME NEW q \in freed
        PROVE  /\ q \in Words /\ q # <<>> /\ q \in D /\ Begins(q, w) /\ t[q].links = 1
               /\ \A p \in Words : Begins(q, p) /\ Begins(p, w) => t[p].links = 1
    <3>1. q \in Words /\ q # <<>> /\ q \in D /\ Begins(q, w)
      BY <2>2, PathIs
    <3>2. ASSUME NEW p \in Words, Begins(q, p), Begins(p, w) PROVE t[p].links = 1
      <4>1. p \in M!Path(w)
        BY <3>2, PathIs
      <4>2. M!IsPrefix(q, p)
        BY <3>1, <3>2, BeginsIs
      <4> QED BY <4>1, <4>2
    <3>3. Begins(q, q)
      BY <3>1 DEF Begins, Words
    <3> QED BY <3>1, <3>2, <3>3
  <2>5. ASSUME NEW q \in M!Path(w), q # <<>>, q \notin freed
        PROVE  \E p \in Words : Begins(q, p) /\ Begins(p, w) /\ t[p].links # 1
    <3>1. PICK p \in M!Path(w) : M!IsPrefix(q, p) /\ t[p].links # 1
      BY <2>5
    <3> QED BY <3>1, PathIs, BeginsIs
  <2> HIDE DEF u, freed
  <2>6. ASSUME NEW p \in D
        PROVE  /\ p \in Words
               /\ p # <<>> => M!Parent(p) \in D
               /\ IsFiniteSet(M!Children(t, p)) /\ Cardinality(M!Children(t, p)) \in Nat
               /\ t[p].links = Cardinality(M!Children(t, p)) + (IF t[p].msg = Nothing THEN 0 ELSE 1)
    BY TrieFacts
  \* What is freed has no command and one child, on the way to w, or is w.
  <2>7. ASSUME NEW q \in freed, q # w
        PROVE  t[q].msg = Nothing /\ \E c \in freed : M!Children(t, q) = {c}
    <3>1. q \in Words /\ q \in D /\ Begins(q, w) /\ t[q].links = 1
      BY <2>4
    <3>2. PICK c \in Words : Begins(c, w) /\ c # <<>> /\ M!Parent(c) = q
      BY <2>7, <3>1, NextWord
    <3>3. c \in M!Path(w) /\ c \in M!Children(t, q)
      BY <3>2, <2>2, PathIs DEF M!Children
    <3>4. Cardinality(M!Children(t, q)) = 1 /\ t[q].msg = Nothing
      <4>1. Cardinality(M!Children(t, q)) # 0
        BY <2>6, <3>1, <3>3, FS_EmptySet
      <4> QED BY <4>1, <2>6, <3>1
    <3>5. M!Children(t, q) = {c}
      <4>1. {c} \in SUBSET M!Children(t, q) /\ Cardinality({c}) = 1
        BY <3>3, FS_Singleton
      <4>2. IsFiniteSet(M!Children(t, q))
        BY <2>6, <3>1
      <4> QED BY <4>1, <4>2, <3>4, FS_Subset
    <3>6. Begins(q, c)
      BY <3>2, ParentIs
    <3>7. c \in freed
      <4>1. SUFFICES ASSUME c \notin freed PROVE FALSE
        OBVIOUS
      <4>2. PICK p \in Words : Begins(c, p) /\ Begins(p, w) /\ t[p].links # 1
        BY <4>1, <3>2, <3>3, <2>5
      <4>3. Begins(q, p)
        BY <4>2, <3>6, <3>2, <3>1 DEF Begins, Words
      <4> QED BY <4>2, <4>3, <2>4
    <3> QED BY <3>4, <3>5, <3>7
  <2>8. w \in freed => M!Children(t, w) = {}
    <3>1. ASSUME w \in freed PROVE Cardinality(M!Children(t, w)) = 0
      BY <3>1, <2>2, <2>4, <2>6
    <3> QED BY <3>1, <2>2, <2>6, FS_EmptySet
  <2>9. ASSUME NEW p \in DOMAIN u, p # <<>> PROVE M!Parent(p) \in DOMAIN u
    <3>1. p \in D /\ p \notin freed /\ M!Parent(p) \in D
      BY <2>3, <2>6, <2>9
    <3>2. p \in M!Children(t, M!Parent(p))
      BY <3>1, <2>9 DEF M!Children
    <3> QED BY <3>1, <3>2, <2>3, <2>7, <2>8
  <2>10. ASSUME NEW p \in D, NEW q \in freed, M!Parent(q) = p, NEW r \in freed, M!Parent(r) = p
         PROVE  q = r
    <3>1. q \in Words /\ r \in Words /\ Begins(q, w) /\ Begins(r, w) /\ q # <<>> /\ r # <<>>
      BY <2>4
    <3>2. Len(p) = Len(q) - 1 /\ Len(p) = Len(r) - 1
      BY <3>1, <2>10, ParentIs
    <3>3. Len(q) = Len(r) /\ Begins(q, r)
      BY <3>1, <3>2 DEF Begins, Words
    <3> QED BY <3>1, <3>3, WordsEqual
  <2>11. ~ Over(w)
    <3>1. SUFFICES ASSUME NEW q \in freed, M!Parent(q) = w PROVE FALSE
      OBVIOUS
    <3>2. q \in Words /\ q # <<>> /\ Len(q) <= Len(w)
      BY <2>4 DEF Begins
    <3>3. Len(w) = Len(q) - 1
      BY <3>1, <3>2, ParentIs
    <3> QED BY <3>2, <3>3 DEF Words
  <2>12. ASSUME NEW p \in DOMAIN u
         PROVE  /\ ~Over(p) => M!Children(u, p) = M!Children(t, p)
                /\ Over(p) => Cardinality(M!Children(u, p)) = Cardinality(M!Children(t, p)) - 1
    <3>1. CASE ~Over(p)
      BY <3>1, <2>3 DEF M!Children
    <3>2. ASSUME NEW q \in freed, M!Parent(q) = p
          PROVE  Cardinality(M!Children(u, p)) = Cardinality(M!Children(t, p)) - 1
      <4>1. p \in D
        BY <2>3
      <4>2. q \in M!Children(t, p)
        BY <3>2, <2>4 DEF M!Children
      <4>3. M!Children(u, p) = M!Children(t, p) \ {q}
        BY <3>2, <4>1, <2>3, <2>10 DEF M!Children
      <4>4. IsFiniteSet(M!Children(t, p))
        BY <4>1, <2>6
      <4> QED BY <4>2, <4>3, <4>4, FS_RemoveElement
    <3> QED BY <3>1, <3>2
  <2>13. ASSUME NEW p \in DOMAIN u
         PROVE  /\ u[p].msg = IF p = w THEN Nothing ELSE t[p].msg
                /\ u[p].links = t[p].links - (IF p = w \/ Over(p) THEN 1 ELSE 0)
    BY <2>1, <2>3
  <2> HIDE DEF Over
  <2>14. ASSUME NEW p \in DOMAIN u
         PROVE  u[p].links = Cardinality(M!Children(u, p)) + (IF u[p].msg = Nothing THEN 0 ELSE 1)
    <3>1. /\ Cardinality(M!Children(t, p)) \in Nat
          /\ t[p].links = Cardinality(M!Children(t, p)) + (IF t[p].msg = Nothing THEN 0 ELSE 1)
      BY <2>3, <2>6
    <3>2. CASE p = w
      BY <3>1, <3>2, <2>2, <2>11, <2>12, <2>13
    <3>3. CASE p # w /\ Over(p)
      BY <3>1, <3>3, <2>12, <2>13
    <3>4. CASE p # w /\ ~Over(p)
      BY <3>1, <3>4, <2>12, <2>13
    <3> QED BY <3>2, <3>3, <3>4
  <2>15. ASSUME NEW p \in DOMAIN u, p # <<>> PROVE u[p].links > 0
    <3>1. p \in D /\ p \notin freed /\ p \in Words
      BY <2>3, <2>6
    <3>2. t[p].links \in Nat /\ t[p].links > 0
      BY <3>1, <2>6, <2>15 DEF Trie, M!WellFormed
    <3>3. ASSUME p = w \/ Over(p) PROVE t[p].links # 1
      <4>1. Begins(p, w)
        <5>1. CASE p = w
          BY <5>1 DEF Begins, Words
        <5>2. ASSUME NEW q \in freed, M!Parent(q) = p PROVE Begins(p, w)
          <6>1. q \in Words /\ q # <<>> /\ Begins(q, w)
            BY <2>4
          <6>2. Begins(p, q)
            BY <6>1, <5>2, ParentIs
          <6> QED BY <6>1, <6>2, <3>1 DEF Begins, Words
        <5> QED BY <3>3, <5>1, <5>2 DEF Over
      <4>2. p \in M!Path(w)
        BY <4>1, <3>1, PathIs
      <4>3. PICK r \in Words : Begins(p, r) /\ Begins(r, w) /\ t[r].links # 1
        BY <4>2, <3>1, <2>5, <2>15
      <4>4. CASE r = p
        BY <4>3, <4>4
      <4>5. CASE r # p /\ p = w
        <5>1. Len(r) = Len(w)
          BY <4>3, <4>5, <3>1 DEF Begins, Words
        <5> QED BY <5>1, <4>3, <4>5, WordsEqual
      <4>6. ASSUME r # p, NEW q \in freed, M!Parent(q) = p PROVE FALSE
        <5>1. q \in Words /\ q # <<>> /\ Begins(q, w)
          BY <2>4
        <5>2. Len(p) = Len(q) - 1
          BY <5>1, <4>6, ParentIs
        <5>3. Len(p) # Len(r)
          BY <4>3, <4>6, <3>1, WordsEqual
        <5>4. Len(q) <= Len(r)
          BY <5>1, <5>2, <5>3, <4>3, <3>1 DEF Begins, Words
        <5>5. Begins(q, r)
          BY <5>1, <5>4, <4>3 DEF Begins, Words
        <5> QED BY <5>1, <5>5, <4>3, <2>4
      <4> QED BY <3>3, <4>4, <4>5, <4>6 DEF Over
    <3> QED BY <3>2, <3>3, <2>13
  <2>16. Trie(u)
    <3>1. IsFiniteSet(DOMAIN u) /\ DOMAIN u \subseteq Words
      BY <2>3, FS_Difference DEF Trie
    <3> QED BY <3>1, <2>9, <2>14, <2>15, TrieMade
  <2>17. ASSUME NEW x PROVE M!FindMsg(u, x) = IF x = w THEN Nothing ELSE M!FindMsg(t, x)
    BY <2>3, <2>7, <2>13 DEF M!FindMsg
  <2> QED BY <2>16, <2>17 DEF u
<1> QED BY <1>1, <1>2

-----------------------------------------------------------------------------
\* mod_add_cmd of v, or mod_del_cmd.
Entered(t, w, v) == IF v = Nothing THEN M!ModDelCmd(t, w) ELSE M!ModAddCmd(t, w, v)

\* Entering a message, or deleting it (v is Nothing), changes no other one.
LEMMA EnteredSound ==
  ASSUME NEW t, Trie(t), NEW w \in Words, NEW v
  PROVE  /\ Trie(Entered(t, w, v))
         /\ \A x : M!FindMsg(Entered(t, w, v), x) = IF x = w THEN v ELSE M!FindMsg(t, x)
<1> DEFINE u == IF M!FindMsg(t, w) # Nothing THEN M!DelElement(t, w) ELSE t
<1>1. Trie(u) /\ M!FindMsg(u, w) = Nothing /\ \A x : x # w => M!FindMsg(u, x) = M!FindMsg(t, x)
  BY DelSound
<1>2. v # Nothing => Entered(t, w, v) = M!AddElement(u, w, v)
  BY DEF Entered, M!ModAddCmd
<1> HIDE DEF u
<1>3. CASE v # Nothing
  BY <1>1, <1>2, <1>3, AddSound
<1>4. CASE v = Nothing
  BY <1>4, DelSound DEF Entered, M!ModDelCmd
<1> QED BY <1>3, <1>4

\* Taking an element of a set of three at most, one is left with none.
LEMMA ThreeAtMost ==
  ASSUME NEW a, NEW b, NEW c, NEW set \in SUBSET {a, b, c}, NEW x \in set,
         NEW y \in set \ {x}, NEW z \in (set \ {x}) \ {y}
  PROVE  ((set \ {x}) \ {y}) \ {z} = {}
OBVIOUS

\* A module's messages entered one after the other, in any order.
Few(s) == \E a, b, c : s \subseteq {a, b, c}
Rest(s) == s \ {CHOOSE x \in s : TRUE}
OneByOne(g, t, set, v) ==
  g = [s \in SUBSET set |-> IF s = {} THEN t ELSE Entered(g[Rest(s)], CHOOSE x \in s : TRUE, v)]

\* A module has three messages, so that a fold over them has three steps.
LEMMA RestIs ==
  ASSUME NEW s, s # {}
  PROVE  Rest(s) \subseteq s /\ \E x \in s : x = (CHOOSE y \in s : TRUE) /\ Rest(s) = s \ {x}
BY DEF Rest

LEMMA OneByOneEnds ==
  ASSUME NEW s, Few(s), s # {}, Rest(s) # {}, Rest(Rest(s)) # {}
  PROVE  Rest(Rest(Rest(s))) = {}
<1>0. PICK a, b, c : s \subseteq {a, b, c}
  BY DEF Few
<1>1. PICK x \in s : Rest(s) = s \ {x}
  BY RestIs
<1>2. PICK y \in Rest(s) : Rest(Rest(s)) = Rest(s) \ {y}
  BY RestIs
<1>3. PICK z \in Rest(Rest(s)) : Rest(Rest(Rest(s))) = Rest(Rest(s)) \ {z}
  BY RestIs
<1> QED BY <1>0, <1>1, <1>2, <1>3, ThreeAtMost

LEMMA OneByOneExists ==
  ASSUME NEW t, NEW v, NEW set, Few(set)
  PROVE  \E g : OneByOne(g, t, set, v)
<1> DEFINE Some(s) == CHOOSE x \in s : TRUE
           one(s) == IF s = {} THEN t ELSE Entered(t, Some(s), v)
           two(s) == IF s = {} THEN t ELSE Entered(one(Rest(s)), Some(s), v)
           all(s) == IF s = {} THEN t ELSE Entered(two(Rest(s)), Some(s), v)
           f == [s \in SUBSET set |-> all(s)]
<1> HIDE DEF Some
<1>1. ASSUME NEW s \in SUBSET set, s # {} PROVE all(Rest(s)) = two(Rest(s))
  <2>1. CASE Rest(s) = {}
    BY <2>1
  <2>2. CASE Rest(s) # {} /\ Rest(Rest(s)) = {}
    BY <2>2
  <2>3. CASE Rest(s) # {} /\ Rest(Rest(s)) # {}
    <3>1. Rest(Rest(Rest(s))) = {}
      BY <1>1, <2>3, OneByOneEnds DEF Few
    <3> QED BY <3>1
  <2> QED BY <2>1, <2>2, <2>3
<1> HIDE DEF all, two, one
<1>2. ASSUME NEW s \in SUBSET set
      PROVE  all(s) = IF s = {} THEN t ELSE Entered(f[Rest(s)], Some(s), v)
  <2>1. CASE s = {}
    BY <2>1 DEF all
  <2>2. CASE s # {}
    <3>1. Rest(s) \in SUBSET set
      BY <2>2, RestIs
    <3>2. f[Rest(s)] = two(Rest(s))
      BY <3>1, <2>2, <1>1
    <3> QED BY <3>2, <2>2 DEF all
  <2> QED BY <2>1, <2>2
<1>3. OneByOne(f, t, set, v)
  BY <1>2 DEF OneByOne, Some
<1> QED BY <1>3

LEMMA OneByOneSound ==
  ASSUME NEW t, Trie(t), NEW v, NEW set \in SUBSET Words, Few(set), NEW g, OneByOne(g, t, set, v)
  PROVE  /\ Trie(g[set])
         /\ \A x : M!FindMsg(g[set], x) = IF x \in set THEN v ELSE M!FindMsg(t, x)
<1> DEFINE Good(s) == /\ Trie(g[s])
                      /\ \A x : M!FindMsg(g[s], x) = IF x \in s THEN v ELSE M!FindMsg(t, x)
<1>1. Good({})
  <2>1. g[{}] = t
    BY DEF OneByOne
  <2> QED BY <2>1
<1>2. ASSUME NEW s \in SUBSET set, s # {}, Good(Rest(s)) PROVE Good(s)
  <2>1. PICK x \in s : x = (CHOOSE y \in s : TRUE) /\ Rest(s) = s \ {x}
    BY <1>2, RestIs
  <2>2. g[s] = Entered(g[Rest(s)], x, v)
    BY <1>2, <2>1 DEF OneByOne
  <2>3. x \in Words
    OBVIOUS
  <2>4. /\ Trie(Entered(g[Rest(s)], x, v))
        /\ \A w : M!FindMsg(Entered(g[Rest(s)], x, v), w) = IF w = x THEN v ELSE M!FindMsg(g[Rest(s)], w)
    BY <1>2, <2>3, EnteredSound
  <2>5. \A w : M!FindMsg(g[Rest(s)], w) = IF w \in s \ {x} THEN v ELSE M!FindMsg(t, w)
    BY <1>2, <2>1
  <2> QED BY <2>2, <2>4, <2>5
<1> HIDE DEF Good
<1>3. CASE set = {}
  BY <1>1, <1>3 DEF Good
<1>4. CASE set # {}
  <2>1. Rest(set) \in SUBSET set /\ Rest(Rest(set)) \in SUBSET set
    BY DEF Rest
  <2>2. Rest(Rest(set)) # {} => Rest(set) # {} /\ Rest(Rest(Rest(set))) = {}
    <3>1. Rest(set) = {} => Rest(Rest(set)) = {}
      BY DEF Rest
    <3> QED BY <3>1, <1>4, OneByOneEnds
  <2>3. Good(Rest(Rest(set)))
    BY <2>1, <2>2, <1>1, <1>2
  <2>4. Good(Rest(set))
    BY <2>1, <2>3, <1>1, <1>2
  <2>5. Good(set)
    BY <2>4, <1>2, <1>4
  <2> QED BY <2>5 DEF Good
<1> QED BY <1>3, <1>4

\* The commands of a service, of which mod_add_servcmd enters the last one first.
LEMMA ServcmdSound ==
  ASSUME NEW t, Trie(t), NEW w \in Words, NEW v, v # Nothing, M!FindMsg(t, w) \in {v, Nothing}
  PROVE  /\ Trie(M!ModAddServcmd(t, w, v))
         /\ \A x : M!FindMsg(M!ModAddServcmd(t, w, v), x) = IF x = w THEN v ELSE M!FindMsg(t, x)
<1>1. CASE M!FindMsg(t, w) = Nothing
  BY <1>1, AddSound DEF M!ModAddServcmd
<1>2. CASE M!FindMsg(t, w) = v
  BY <1>2 DEF M!ModAddServcmd
<1> QED BY <1>1, <1>2

LEMMA LastOfFew ==
  ASSUME NEW s \in SUBSET {1, 2, 3}, s # {}
  PROVE  M!Max(s) \in s
<1>1. \E n \in s : \A k \in s : n >= k
  <2>1. CASE 3 \in s
    BY <2>1
  <2>2. CASE 3 \notin s /\ 2 \in s
    BY <2>2
  <2>3. CASE 3 \notin s /\ 2 \notin s
    <3>1. 1 \in s /\ \A k \in s : k = 1
      BY <2>3
    <3> QED BY <3>1
  <2> QED BY <2>1, <2>2, <2>3
<1> QED BY <1>1 DEF M!Max

-----------------------------------------------------------------------------
(* What the modules enter.                                                 *)

Entry == [messages : SUBSET Words, hooks : SUBSET STRING, left : SUBSET STRING,
          commands : Seq(Words), event : BOOLEAN, delisted : BOOLEAN, quits : BOOLEAN,
          passes : SUBSET STRING]

LEMMA PlainEntry ==
  /\ M!Plain \in Entry /\ M!Plain.messages = {} /\ M!Plain.hooks = {} /\ M!Plain.left = {}
  /\ M!Plain.passes = {} /\ M!Plain.commands = <<>> /\ M!Plain.delisted
BY DEF M!Plain, Entry, Words

LEMMA MessageWords ==
  M!Server \in Words /\ M!Sjoin \in Words /\ M!Sid \in Words /\ M!Eob \in Words
BY DEF M!Server, M!Sjoin, M!Sid, M!Eob, Words, Letters

LEMMA IrcEntry ==
  /\ M!Irc.messages = {M!Server, M!Sjoin, M!Eob}
  /\ M!Irc.hooks = {"connected", "newuser", "send"} /\ M!Irc.left = {"newuser", "send"}
  /\ M!Irc.passes = {} /\ M!Irc.commands = <<>>
BY PlainEntry, MessageWords DEF M!Irc, Entry

LEMMA OftcEntry ==
  /\ M!Oftc.messages = {M!Server, M!Sid, M!Eob}
  /\ M!Oftc.hooks = {"connected", "newuser", "svsnick", "identify"} /\ M!Oftc.left = {"svsnick"}
  /\ M!Oftc.passes = {"identify"} /\ M!Oftc.commands = <<>>
BY PlainEntry, MessageWords DEF M!Oftc, Entry

LEMMA NickServEntry ==
  /\ M!NickServ.messages = {}
  /\ M!NickServ.hooks = {"identify", "quit"} /\ M!NickServ.left = {}
  /\ M!NickServ.commands = << <<"I", "D">>, <<"I", "D", "E">>, <<"I", "N">> >>
BY PlainEntry, MessageWords DEF M!NickServ, Entry

LEMMA ChanServEntry ==
  /\ M!ChanServ.messages = {}
  /\ M!ChanServ.hooks = {"join"} /\ M!ChanServ.left = {}
  /\ M!ChanServ.commands = << <<"I", "N", "V">>, <<"I", "N", "F">>, <<"I", "N", "V">> >>
BY PlainEntry, MessageWords DEF M!ChanServ, Entry

LEMMA FloodServEntry ==
  /\ M!FloodServ.messages = {}
  /\ M!FloodServ.hooks = {"join", "drop"} /\ M!FloodServ.left = {"drop"}
  /\ M!FloodServ.commands = << <<"H">> >>
BY PlainEntry, MessageWords DEF M!FloodServ, Entry

LEMMA OfIs ==
  /\ M!Of("irc") = M!Irc /\ M!Of("oftc") = M!Oftc /\ M!Of("nickserv") = M!NickServ
  /\ M!Of("chanserv") = M!ChanServ /\ M!Of("floodserv") = M!FloodServ /\ M!Of("pgsql") = M!Plain
<1>1. M!Of("irc") = M!Irc
  BY DEF M!Of
<1>2. M!Of("oftc") = M!Oftc
  BY DEF M!Of
<1>3. M!Of("nickserv") = M!NickServ
  BY DEF M!Of
<1>4. M!Of("chanserv") = M!ChanServ
  BY DEF M!Of
<1>5. M!Of("floodserv") = M!FloodServ
  BY DEF M!Of
<1>6. M!Of("pgsql") = M!Plain
  BY DEF M!Of
<1> QED BY <1>1, <1>2, <1>3, <1>4, <1>5, <1>6

LEMMA FewSets == Few({}) /\ \A a, b, c : Few({a, b, c})
BY DEF Few

\* The messages, hooks and commands of any module.
LEMMA MessagesOf ==
  ASSUME NEW m \in M!Modules
  PROVE  /\ M!Of(m).messages \in SUBSET Words /\ Few(M!Of(m).messages)
         /\ M!Of(m).messages \subseteq M!Irc.messages \cup M!Oftc.messages
         /\ m \notin {"irc", "oftc"} => M!Of(m).messages = {}
<1>1. M!Of("irc").messages = {M!Server, M!Sjoin, M!Eob}
  BY OfIs, IrcEntry
<1>2. M!Of("oftc").messages = {M!Server, M!Sid, M!Eob}
  BY OfIs, OftcEntry
<1>3. m \notin {"irc", "oftc"} => M!Of(m).messages = {}
  BY OfIs, NickServEntry, ChanServEntry, FloodServEntry, PlainEntry DEF M!Modules
<1>7. Few({M!Server, M!Sjoin, M!Eob}) /\ Few({M!Server, M!Sid, M!Eob})
  BY FewSets
<1>4. CASE m = "irc"
  <2>1. M!Of(m).messages = {M!Server, M!Sjoin, M!Eob} /\ M!Irc.messages = M!Of(m).messages
    BY <1>1, <1>4, IrcEntry
  <2> QED BY <2>1, <1>4, <1>7, MessageWords
<1>5. CASE m = "oftc"
  <2>1. M!Of(m).messages = {M!Server, M!Sid, M!Eob} /\ M!Oftc.messages = M!Of(m).messages
    BY <1>2, <1>5, OftcEntry
  <2> QED BY <2>1, <1>5, <1>7, MessageWords
<1>6. CASE m \notin {"irc", "oftc"}
  BY <1>3, <1>6, FewSets
<1> QED BY <1>4, <1>5, <1>6

\* INIT_MODULE makes the messages of the module its own, and CLEANUP_MODULE leaves
\* them without a handler; no other message changes.
LEMMA MessagesAdded ==
  ASSUME NEW t, Trie(t), NEW v, v # Nothing, NEW m \in M!Modules
  PROVE  /\ Trie(M!AddMessages(t, m, v))
         /\ \A x : M!FindMsg(M!AddMessages(t, m, v), x)
                     = IF x \in M!Of(m).messages THEN v ELSE M!FindMsg(t, x)
<1> DEFINE set == M!Of(m).messages
           Fold(g) == g = [s \in SUBSET set |->
                             IF s = {} THEN t
                             ELSE M!ModAddCmd(g[s \ {CHOOSE x \in s : TRUE}], CHOOSE x \in s : TRUE, v)]
           iter == CHOOSE g : Fold(g)
           made == M!AddMessages(t, m, v)
<1>0. set \in SUBSET Words /\ Few(set)
  BY MessagesOf
<1>1. made = iter[set]
  BY DEF M!AddMessages, M!FoldSet, M!MapThenFoldSet
<1> HIDE DEF set
<1>2. ASSUME NEW g PROVE Fold(g) <=> OneByOne(g, t, set, v)
  BY DEF OneByOne, Entered, Rest
<1> HIDE DEF Fold
<1>3. OneByOne(iter, t, set, v)
  BY <1>0, <1>2, OneByOneExists
<1> HIDE DEF iter, made
<1>4. /\ Trie(iter[set])
      /\ \A x : M!FindMsg(iter[set], x) = IF x \in set THEN v ELSE M!FindMsg(t, x)
  BY <1>0, <1>3, OneByOneSound
<1>5. /\ Trie(made)
      /\ \A x : M!FindMsg(made, x) = IF x \in set THEN v ELSE M!FindMsg(t, x)
  BY <1>1, <1>4
<1> QED BY <1>5 DEF made, set

LEMMA MessagesDeleted ==
  ASSUME NEW t, Trie(t), NEW m \in M!Modules
  PROVE  /\ Trie(M!DelMessages(t, m))
         /\ \A x : M!FindMsg(M!DelMessages(t, m), x)
                     = IF x \in M!Of(m).messages THEN Nothing ELSE M!FindMsg(t, x)
<1> DEFINE set == M!Of(m).messages
           Fold(g) == g = [s \in SUBSET set |->
                             IF s = {} THEN t
                             ELSE M!ModDelCmd(g[s \ {CHOOSE x \in s : TRUE}], CHOOSE x \in s : TRUE)]
           iter == CHOOSE g : Fold(g)
           made == M!DelMessages(t, m)
<1>0. set \in SUBSET Words /\ Few(set)
  BY MessagesOf
<1>1. made = iter[set]
  BY DEF M!DelMessages, M!FoldSet, M!MapThenFoldSet
<1> HIDE DEF set
<1>2. ASSUME NEW g PROVE Fold(g) <=> OneByOne(g, t, set, Nothing)
  BY DEF OneByOne, Entered, Rest
<1> HIDE DEF Fold
<1>3. OneByOne(iter, t, set, Nothing)
  BY <1>0, <1>2, OneByOneExists
<1> HIDE DEF iter, made
<1>4. /\ Trie(iter[set])
      /\ \A x : M!FindMsg(iter[set], x) = IF x \in set THEN Nothing ELSE M!FindMsg(t, x)
  BY <1>0, <1>3, OneByOneSound
<1>5. /\ Trie(made)
      /\ \A x : M!FindMsg(made, x) = IF x \in set THEN Nothing ELSE M!FindMsg(t, x)
  BY <1>1, <1>4
<1> QED BY <1>5 DEF made, set

LEMMA HooksOf ==
  ASSUME NEW m \in M!Modules
  PROVE  /\ M!Of(m).left \subseteq M!Of(m).hooks
         /\ M!Of(m).hooks \subseteq M!Callbacks
         /\ \A cb \in M!Of(m).left \cap M!Of(m).passes : cb = "drop"
         /\ m \notin {"irc", "oftc"} => M!Of(m).hooks \cap {"connected", "newuser", "svsnick"} = {}
<1>1. M!Of(m).hooks \subseteq M!Callbacks
  BY DEF M!Callbacks
<1>2. CASE m = "irc"
  BY <1>1, <1>2, OfIs, IrcEntry
<1>3. CASE m = "oftc"
  BY <1>1, <1>3, OfIs, OftcEntry
<1>4. CASE m = "nickserv"
  BY <1>1, <1>4, OfIs, NickServEntry
<1>5. CASE m = "chanserv"
  BY <1>1, <1>5, OfIs, ChanServEntry
<1>6. CASE m = "floodserv"
  BY <1>1, <1>6, OfIs, FloodServEntry
<1>7. CASE m = "pgsql"
  BY <1>1, <1>7, OfIs, PlainEntry
<1> QED BY <1>2, <1>3, <1>4, <1>5, <1>6, <1>7 DEF M!Modules

LEMMA CommandsOf ==
  ASSUME NEW m \in M!Modules
  PROVE  /\ M!Of(m).commands \in Seq(Words) /\ DOMAIN M!Of(m).commands \subseteq {1, 2, 3}
         /\ \A i \in DOMAIN M!Of(m).commands : M!Of(m).commands[i] # <<>>
         /\ M!IsService(m) => DOMAIN M!Of(m).commands # {}
<1>1. <<>> \in Seq(Words)
  OBVIOUS
<1>2. /\ <<"I", "D">> \in Words /\ <<"I", "D", "E">> \in Words /\ <<"I", "N">> \in Words
      /\ <<"I", "N", "V">> \in Words /\ <<"I", "N", "F">> \in Words /\ <<"H">> \in Words
  BY DEF Words, Letters
<1>7. ASSUME NEW a \in Words, NEW b \in Words, NEW c \in Words, a # <<>>, b # <<>>, c # <<>>
      PROVE  /\ <<a, b, c>> \in Seq(Words) /\ DOMAIN <<a, b, c>> = {1, 2, 3}
             /\ \A i \in {1, 2, 3} : <<a, b, c>>[i] # <<>>
  BY <1>7
<1>8. ASSUME NEW a \in Words, a # <<>>
      PROVE  <<a>> \in Seq(Words) /\ DOMAIN <<a>> = {1} /\ <<a>>[1] # <<>>
  BY <1>8
<1>3. CASE m = "nickserv"
  <2>1. M!Of(m).commands = << <<"I", "D">>, <<"I", "D", "E">>, <<"I", "N">> >>
    BY <1>3, OfIs, NickServEntry
  <2> QED BY <2>1, <1>2, <1>7
<1>4. CASE m = "chanserv"
  <2>1. M!Of(m).commands = << <<"I", "N", "V">>, <<"I", "N", "F">>, <<"I", "N", "V">> >>
    BY <1>4, OfIs, ChanServEntry
  <2> QED BY <2>1, <1>2, <1>7
<1>5. CASE m = "floodserv"
  <2>1. M!Of(m).commands = << <<"H">> >>
    BY <1>5, OfIs, FloodServEntry
  <2>2. <<"H">> \in Words /\ <<"H">> # <<>>
    BY <1>2
  <2>3. << <<"H">> >> \in Seq(Words) /\ DOMAIN << <<"H">> >> = {1} /\ << <<"H">> >>[1] # <<>>
    BY <2>2, <1>8
  <2> QED BY <2>1, <2>3
<1>6. CASE m \in {"irc", "oftc", "pgsql"}
  <2>1. M!Of(m).commands = <<>>
    BY <1>6, OfIs, IrcEntry, OftcEntry, PlainEntry
  <2> QED BY <2>1, <1>1 DEF M!IsService
<1> QED BY <1>3, <1>4, <1>5, <1>6 DEF M!Modules

LEMMA EmptyIsTrie == Trie(M!EmptyTree) /\ \A x : M!FindMsg(M!EmptyTree, x) = Nothing
<1> DEFINE t == M!EmptyTree
<1>1. DOMAIN t = {<<>>} /\ t[<<>>].msg = Nothing /\ t[<<>>].links = 0
  BY DEF M!EmptyTree, M!Node
<1> HIDE DEF t
<1>2. IsFiniteSet(DOMAIN t) /\ DOMAIN t \subseteq Words
  <2>1. <<>> \in Words
    BY DEF Words
  <2> QED BY <1>1, <2>1, FS_Singleton
<1>3. M!Children(t, <<>>) = {}
  BY <1>1 DEF M!Children
<1>4. Trie(t)
  <2>1. Cardinality(M!Children(t, <<>>)) = 0
    BY <1>3, FS_EmptySet
  <2>2. \A p \in DOMAIN t : p = <<>> /\ t[p].links = Cardinality(M!Children(t, p)) + 0 /\ t[p].msg = Nothing
    BY <1>1, <2>1
  <2> QED BY <1>2, <2>2, TrieMade
<1>5. \A x : M!FindMsg(t, x) = Nothing
  BY <1>1 DEF M!FindMsg
<1> QED BY <1>4, <1>5 DEF t

LEMMA CommandsAdded ==
  ASSUME NEW m \in M!Modules, NEW v, v # Nothing
  PROVE  /\ Trie(M!NewCommands(m, v))
         /\ \A x : M!FindMsg(M!NewCommands(m, v), x)
                     = IF \E i \in DOMAIN M!Of(m).commands : x = M!Of(m).commands[i] THEN v ELSE Nothing
<1> DEFINE t == M!EmptyTree
           ws == M!Of(m).commands
           Most(s) == M!Max(s)
           Others(s) == s \ {Most(s)}
           Add(u, s) == M!ModAddServcmd(u, ws[Most(s)], v)
           one(s) == IF s = {} THEN t ELSE Add(t, s)
           two(s) == IF s = {} THEN t ELSE Add(one(Others(s)), s)
           all(s) == IF s = {} THEN t ELSE Add(two(Others(s)), s)
           f == [s \in SUBSET DOMAIN ws |-> all(s)]
           Fold(g) == g = [s \in SUBSET DOMAIN ws |-> IF s = {} THEN t ELSE Add(g[Others(s)], s)]
           iter == CHOOSE g : Fold(g)
           made == M!NewCommands(m, v)
<1>0. ws \in Seq(Words) /\ DOMAIN ws \subseteq {1, 2, 3}
  BY CommandsOf
<1>11. Trie(t) /\ \A x : M!FindMsg(t, x) = Nothing
  BY EmptyIsTrie
<1>1. made = iter[DOMAIN ws]
  BY DEF M!NewCommands, M!FoldLeft, M!MapThenFoldSet
<1> HIDE DEF ws, t, made
<1>2. ASSUME NEW s \in SUBSET DOMAIN ws, s # {}
      PROVE  Most(s) \in s /\ Others(s) \in SUBSET DOMAIN ws
  BY <1>0, <1>2, LastOfFew
<1>3. ASSUME NEW s \in SUBSET DOMAIN ws, s # {}, Others(s) # {}, Others(Others(s)) # {}
      PROVE  Others(Others(Others(s))) = {}
  <2>1. Most(s) \in s /\ Most(Others(s)) \in Others(s) /\ Most(Others(Others(s))) \in Others(Others(s))
    BY <1>2, <1>3
  <2> HIDE DEF Most
  <2>2. s \in SUBSET {1, 2, 3}
    BY <1>0
  <2> QED BY <2>1, <2>2, ThreeAtMost
<1> HIDE DEF Most
<1>4. ASSUME NEW s \in SUBSET DOMAIN ws, s # {} PROVE all(Others(s)) = two(Others(s))
  <2>1. CASE Others(s) = {}
    BY <2>1
  <2>2. CASE Others(s) # {} /\ Others(Others(s)) = {}
    BY <2>2
  <2>3. CASE Others(s) # {} /\ Others(Others(s)) # {}
    <3>1. Others(Others(Others(s))) = {}
      BY <1>3, <1>4, <2>3
    <3> HIDE DEF Others
    <3> QED BY <3>1
  <2> QED BY <2>1, <2>2, <2>3
<1> HIDE DEF all, two, one
<1>5. Fold(f)
  <2>1. ASSUME NEW s \in SUBSET DOMAIN ws
        PROVE  all(s) = IF s = {} THEN t ELSE Add(f[Others(s)], s)
    <3>1. CASE s = {}
      BY <3>1 DEF all
    <3>2. CASE s # {}
      <4>1. f[Others(s)] = two(Others(s))
        BY <3>2, <1>2, <1>4
      <4> QED BY <4>1, <3>2 DEF all
    <3> QED BY <3>1, <3>2
  <2> QED BY <2>1
<1> HIDE DEF f
<1>6. Fold(iter)
  BY <1>5
<1> HIDE DEF iter
<1> DEFINE Good(s) == /\ Trie(iter[s])
                      /\ \A x : M!FindMsg(iter[s], x) = IF \E i \in s : x = ws[i] THEN v ELSE Nothing
<1>7. Good({})
  <2>1. iter[{}] = t
    BY <1>6
  <2> QED BY <2>1, <1>11
<1>8. ASSUME NEW s \in SUBSET DOMAIN ws, s # {}, Good(Others(s)) PROVE Good(s)
  <2>1. iter[s] = M!ModAddServcmd(iter[Others(s)], ws[Most(s)], v)
    BY <1>6, <1>8
  <2>2. ws[Most(s)] \in Words /\ Most(s) \in s
    BY <1>0, <1>2, <1>8
  <2>3. /\ Trie(iter[s])
        /\ \A x : M!FindMsg(iter[s], x) = IF x = ws[Most(s)] THEN v ELSE M!FindMsg(iter[Others(s)], x)
    <3>1. Trie(iter[Others(s)]) /\ M!FindMsg(iter[Others(s)], ws[Most(s)]) \in {v, Nothing}
      BY <1>8
    <3> HIDE DEF Good, Others
    <3>2. ws[Most(s)] \in Words
      BY <2>2
    <3>3. /\ Trie(M!ModAddServcmd(iter[Others(s)], ws[Most(s)], v))
          /\ \A x : M!FindMsg(M!ModAddServcmd(iter[Others(s)], ws[Most(s)], v), x)
                      = IF x = ws[Most(s)] THEN v ELSE M!FindMsg(iter[Others(s)], x)
      BY <3>1, <3>2, ServcmdSound
    <3> QED BY <3>3, <2>1
  <2> QED BY <1>8, <2>2, <2>3
<1> HIDE DEF Good
<1>9. CASE DOMAIN ws = {}
  BY <1>1, <1>7, <1>9 DEF Good, made, ws
<1>10. CASE DOMAIN ws # {}
  <2> DEFINE D == DOMAIN ws
  <2>1. Others(D) \in SUBSET D /\ Others(Others(D)) \in SUBSET D
    OBVIOUS
  <2>2. Others(Others(D)) # {} => Others(D) # {} /\ Others(Others(Others(D))) = {}
    <3>1. Others(D) = {} => Others(Others(D)) = {}
      OBVIOUS
    <3> QED BY <3>1, <1>3, <1>10
  <2>3. Good(Others(Others(D)))
    BY <2>1, <2>2, <1>7, <1>8
  <2>4. Good(Others(D))
    BY <2>1, <2>3, <1>7, <1>8
  <2>5. Good(D)
    BY <2>4, <1>8, <1>10
  <2> QED BY <2>5, <1>1 DEF Good, made, ws
<1> QED BY <1>9, <1>10 DEF made, ws

-----------------------------------------------------------------------------
(* Callback chains.                                                        *)

Distinct(c) == \A i, j \in DOMAIN c : c[i] = c[j] => i = j

\* uninstall_hook takes one hook off, and leaves the others in their order.
Removed(d, c, e) ==
  \E g \in [DOMAIN d -> DOMAIN c] :
    /\ \A i \in DOMAIN g : d[i] = c[g[i]] /\ c[g[i]] # e
    /\ \A i, j \in DOMAIN g : i < j <=> g[i] < g[j]
    /\ \A k \in DOMAIN c : c[k] # e => \E i \in DOMAIN g : g[i] = k

\* RemoveFirst of the address of a hook that is in the chain at most once.
LEMMA RemoveKeeps ==
  ASSUME NEW Set, NEW c \in Seq(Set), Distinct(c), NEW e
  PROVE  M!RemoveFirst(c, e) \in Seq(Set) /\ Removed(M!RemoveFirst(c, e), c, e)
<1> DEFINE r == M!RemoveFirst(c, e)
<1>1. CASE ~ \E i \in 1..Len(c) : c[i] = e
  <2>1. r = c
    BY <1>1 DEF M!RemoveFirst
  <2> DEFINE g == [i \in DOMAIN c |-> i]
  <2>2. g \in [DOMAIN r -> DOMAIN c]
    BY <2>1
  <2>3. \A i \in DOMAIN g : r[i] = c[g[i]] /\ c[g[i]] # e
    BY <1>1, <2>1
  <2> QED BY <2>1, <2>2, <2>3 DEF Removed
<1>2. ASSUME NEW n \in 1..Len(c), c[n] = e
      PROVE  r \in Seq(Set) /\ Removed(r, c, e)
  <2>1. M!SelectInSeq(c, LAMBDA v : v = e) = n
    <3>1. {i \in 1..Len(c) : c[i] = e} = {n}
      BY <1>2 DEF Distinct
    <3>2. M!Min({n}) = n
      BY DEF M!Min
    <3> QED BY <3>1, <3>2 DEF M!SelectInSeq
  <2>2. r = SubSeq(c, 1, n - 1) \o SubSeq(c, n + 1, Len(c))
    BY <1>2, <2>1 DEF M!RemoveFirst, M!RemoveAt
  <2>3. /\ r \in Seq(Set) /\ Len(r) = Len(c) - 1
        /\ \A i \in 1..Len(r) : r[i] = IF i < n THEN c[i] ELSE c[i + 1]
    <3> DEFINE a == SubSeq(c, 1, n - 1)
               b == SubSeq(c, n + 1, Len(c))
    <3>1. a \in Seq(Set) /\ Len(a) = n - 1 /\ \A i \in 1..(n - 1) : a[i] = c[i]
      OBVIOUS
    <3>2. b \in Seq(Set) /\ Len(b) = Len(c) - n /\ \A i \in 1..(Len(c) - n) : b[i] = c[i + n]
      OBVIOUS
    <3> HIDE DEF a, b, r
    <3>3. r = a \o b
      BY <2>2 DEF a, b
    <3>4. r \in Seq(Set) /\ Len(r) = Len(c) - 1
      BY <3>1, <3>2, <3>3
    <3>5. ASSUME NEW i \in 1..Len(r) PROVE r[i] = IF i < n THEN c[i] ELSE c[i + 1]
      <4>1. CASE i < n
        BY <4>1, <3>1, <3>2, <3>3, <3>4
      <4>2. CASE ~(i < n)
        <5>1. r[i] = b[i - (n - 1)]
          BY <4>2, <3>1, <3>2, <3>3, <3>4
        <5>2. i - (n - 1) \in 1..(Len(c) - n) /\ i - (n - 1) + n = i + 1
          BY <4>2, <3>4
        <5> QED BY <4>2, <5>1, <5>2, <3>2
      <4> QED BY <4>1, <4>2
    <3> QED BY <3>4, <3>5
  <2> DEFINE g == [i \in 1..Len(r) |-> IF i < n THEN i ELSE i + 1]
  <2> HIDE DEF r
  <2>4. DOMAIN r = 1..Len(r) /\ Len(r) \in Nat /\ DOMAIN c = 1..Len(c) /\ Len(c) \in Nat
    BY <2>3
  <2>5. g \in [DOMAIN r -> DOMAIN c]
    BY <2>3, <2>4
  <2>6. \A i \in DOMAIN g : r[i] = c[g[i]] /\ c[g[i]] # e
    <3>1. SUFFICES ASSUME NEW i \in 1..Len(r) PROVE r[i] = c[g[i]] /\ c[g[i]] # e
      OBVIOUS
    <3>2. g[i] \in 1..Len(c) /\ g[i] # n /\ r[i] = c[g[i]]
      BY <2>3, <2>4
    <3> QED BY <1>2, <2>4, <3>2 DEF Distinct
  <2>7. \A i, j \in DOMAIN g : i < j <=> g[i] < g[j]
    BY <2>4
  <2>8. ASSUME NEW k \in DOMAIN c, c[k] # e PROVE \E i \in DOMAIN g : g[i] = k
    <3>1. k # n
      BY <1>2, <2>8
    <3>2. CASE k < n
      <4>1. k \in 1..Len(r) /\ g[k] = k
        BY <2>3, <2>4, <3>2
      <4> QED BY <4>1
    <3>3. CASE k > n
      <4>1. k - 1 \in 1..Len(r) /\ g[k - 1] = k
        BY <2>3, <2>4, <3>3
      <4> QED BY <4>1
    <3> QED BY <3>1, <3>2, <3>3, <2>4
  <2> QED BY <2>3, <2>5, <2>6, <2>7, <2>8 DEF Removed
<1> QED BY <1>1, <1>2

\* A chain of the callback cb, when L is loaded and n loads have been: a hook of
\* a load that is gone is one its module leaves, and behind that of its successor.
Loads == M!Modules \X (Nat \ {0})
LoadOf(v, L) == <<v[1], L[v[1]]>>
Hooked(c, cb, L, n) ==
  /\ c \in Seq(Loads) /\ Distinct(c)
  /\ \A i \in DOMAIN c :
       /\ cb \in M!Of(c[i][1]).hooks /\ c[i][2] <= n
       /\ \/ c[i] = LoadOf(c[i], L)
          \/ /\ cb \in M!Of(c[i][1]).left
             /\ L[c[i][1]] = 0 \/ \E j \in DOMAIN c : j < i /\ c[j] = LoadOf(c[i], L)

\* install_hook and uninstall_hook keep a chain that of the modules loaded.
LEMMA InstallHooked ==
  ASSUME NEW n \in Nat, NEW L \in [M!Modules -> 0..n], NEW m \in M!Modules, L[m] = 0,
         NEW cb, NEW c, Hooked(c, cb, L, n)
  PROVE  Hooked(IF cb \in M!Of(m).hooks THEN <<<<m, n + 1>>>> \o c ELSE c, cb,
                [L EXCEPT ![m] = n + 1], n + 1)
<1> DEFINE v == <<m, n + 1>>
           K == [L EXCEPT ![m] = n + 1]
           d == <<v>> \o c
<1>1. /\ c \in Seq(Loads) /\ v \in Loads
      /\ \A i \in DOMAIN c : c[i] \in Loads /\ c[i][1] \in M!Modules /\ c[i][2] \in Nat \ {0} /\ c[i][2] <= n
      /\ \A i \in DOMAIN c : c[i] = <<c[i][1], c[i][2]>>
  BY DEF Hooked, Loads
<1>2. \A i \in DOMAIN c : K[c[i][1]] = IF c[i][1] = m THEN n + 1 ELSE L[c[i][1]]
  BY <1>1
<1>3. CASE cb \in M!Of(m).hooks
  <2>1. /\ d \in Seq(Loads) /\ Len(d) = Len(c) + 1 /\ Len(c) \in Nat
        /\ d[1] = v /\ \A i \in DOMAIN c : d[i + 1] = c[i] /\ i + 1 \in DOMAIN d
        /\ \A i \in DOMAIN d : i = 1 \/ (i - 1 \in DOMAIN c /\ d[i] = c[i - 1] /\ i \in Nat)
    BY <1>1
  <2> HIDE DEF d
  <2>2. ASSUME NEW i \in DOMAIN c PROVE c[i] # v
    BY <1>1
  <2>3. Distinct(d)
    <3>1. SUFFICES ASSUME NEW i \in DOMAIN d, NEW j \in DOMAIN d, d[i] = d[j] PROVE i = j
      BY DEF Distinct
    <3>2. CASE i = 1 /\ j # 1
      BY <3>1, <3>2, <2>1, <2>2
    <3>3. CASE i # 1 /\ j = 1
      BY <3>1, <3>3, <2>1, <2>2
    <3>4. CASE i # 1 /\ j # 1
      <4>1. i - 1 = j - 1
        BY <3>1, <3>4, <2>1 DEF Hooked, Distinct
      <4> QED BY <4>1, <2>1, <3>4
    <3> QED BY <3>2, <3>3, <3>4
  <2>4. 1 \in DOMAIN d
    BY <2>1
  <2>5. ASSUME NEW i \in DOMAIN d
        PROVE  /\ cb \in M!Of(d[i][1]).hooks /\ d[i][2] <= n + 1
               /\ \/ d[i] = LoadOf(d[i], K)
                  \/ /\ cb \in M!Of(d[i][1]).left
                     /\ K[d[i][1]] = 0 \/ \E j \in DOMAIN d : j < i /\ d[j] = LoadOf(d[i], K)
    <3>1. CASE i = 1
      <4>1. d[i] = v /\ v[1] = m /\ v[2] = n + 1 /\ K[m] = n + 1
        BY <3>1, <2>1
      <4> QED BY <4>1, <1>3 DEF LoadOf
    <3>2. CASE i # 1
      <4> DEFINE k == i - 1
      <4>1. k \in DOMAIN c /\ d[i] = c[k] /\ 1 < i
        BY <3>2, <2>1
      <4>2. cb \in M!Of(c[k][1]).hooks /\ c[k][2] <= n + 1
        BY <4>1, <1>1 DEF Hooked
      <4>3. CASE c[k][1] = m
        <5>1. c[k] # LoadOf(c[k], L)
          BY <4>1, <4>3, <1>1 DEF LoadOf
        <5>2. cb \in M!Of(c[k][1]).left
          BY <4>1, <5>1 DEF Hooked
        <5>3. d[1] = LoadOf(d[i], K)
          BY <4>1, <4>3, <1>2, <2>1 DEF LoadOf
        <5> QED BY <4>1, <4>2, <5>2, <5>3, <2>4
      <4>4. CASE c[k][1] # m
        <5>1. LoadOf(c[k], K) = LoadOf(c[k], L) /\ K[c[k][1]] = L[c[k][1]]
          BY <4>1, <4>4, <1>2 DEF LoadOf
        <5>2. \A j \in DOMAIN c : j < k => j + 1 \in DOMAIN d /\ j + 1 < i /\ d[j + 1] = c[j]
          BY <2>1, <4>1
        <5>3. \/ c[k] = LoadOf(c[k], L)
              \/ /\ cb \in M!Of(c[k][1]).left
                 /\ L[c[k][1]] = 0 \/ \E j \in DOMAIN c : j < k /\ c[j] = LoadOf(c[k], L)
          BY <4>1 DEF Hooked
        <5> HIDE DEF k, K
        <5> QED BY <4>1, <4>2, <5>1, <5>2, <5>3
      <4> QED BY <4>3, <4>4
    <3> QED BY <3>1, <3>2
  <2> QED BY <1>3, <2>1, <2>3, <2>5 DEF Hooked, d
<1>4. CASE cb \notin M!Of(m).hooks
  <2>1. \A i \in DOMAIN c : c[i][1] # m
    BY <1>4 DEF Hooked
  <2>2. \A i \in DOMAIN c : LoadOf(c[i], K) = LoadOf(c[i], L) /\ K[c[i][1]] = L[c[i][1]]
    BY <2>1, <1>2 DEF LoadOf
  <2>3. \A i \in DOMAIN c : c[i][2] <= n + 1
    BY <1>1
  <2> HIDE DEF K
  <2>4. Hooked(c, cb, K, n + 1)
    BY <2>2, <2>3 DEF Hooked
  <2> QED BY <1>4, <2>4 DEF K
<1> QED BY <1>3, <1>4

LEMMA UninstallHooked ==
  ASSUME NEW n \in Nat, NEW L \in [M!Modules -> 0..n], NEW m \in M!Modules, L[m] # 0,
         NEW cb, NEW c, Hooked(c, cb, L, n)
  PROVE  Hooked(IF cb \in M!Of(m).hooks \ M!Of(m).left THEN M!RemoveFirst(c, <<m, L[m]>>) ELSE c, cb,
                [L EXCEPT ![m] = 0], n)
<1> DEFINE e == <<m, L[m]>>
           K == [L EXCEPT ![m] = 0]
           d == M!RemoveFirst(c, e)
<1>1. /\ c \in Seq(Loads) /\ Distinct(c)
      /\ \A i \in DOMAIN c : c[i][1] \in M!Modules /\ c[i] = <<c[i][1], c[i][2]>>
  BY DEF Hooked, Loads
<1>2. \A i \in DOMAIN c : K[c[i][1]] = IF c[i][1] = m THEN 0 ELSE L[c[i][1]]
  BY <1>1
<1>3. \A i \in DOMAIN c : c[i][1] # m => LoadOf(c[i], K) = LoadOf(c[i], L) /\ K[c[i][1]] = L[c[i][1]]
  BY <1>2 DEF LoadOf
<1>4. \A i \in DOMAIN c : c[i][1] = m => LoadOf(c[i], L) = e /\ K[c[i][1]] = 0
  BY <1>2 DEF LoadOf
<1> HIDE DEF K
<1>5. CASE cb \in M!Of(m).hooks \ M!Of(m).left
  <2>1. d \in Seq(Loads) /\ Removed(d, c, e)
    BY <1>1, RemoveKeeps
  <2>2. PICK g \in [DOMAIN d -> DOMAIN c] :
              /\ \A i \in DOMAIN g : d[i] = c[g[i]] /\ c[g[i]] # e
              /\ \A i, j \in DOMAIN g : i < j <=> g[i] < g[j]
              /\ \A k \in DOMAIN c : c[k] # e => \E i \in DOMAIN g : g[i] = k
    <3> HIDE DEF d, e
    <3> QED BY <2>1 DEF Removed
  <2> HIDE DEF d, e
  <2>3. DOMAIN d \subseteq Nat
    BY <2>1
  <2>4. Distinct(d)
    <3>1. SUFFICES ASSUME NEW i \in DOMAIN d, NEW j \in DOMAIN d, d[i] = d[j] PROVE i = j
      BY DEF Distinct
    <3>2. g[i] = g[j]
      BY <3>1, <2>2, <1>1 DEF Distinct
    <3>3. g[i] \in Nat
      BY <2>2, <1>1
    <3>4. ~(i < j) /\ ~(j < i)
      BY <3>2, <3>3, <2>2
    <3> QED BY <3>4, <2>3
  <2>5. ASSUME NEW i \in DOMAIN d
        PROVE  /\ cb \in M!Of(d[i][1]).hooks /\ d[i][2] <= n
               /\ \/ d[i] = LoadOf(d[i], K)
                  \/ /\ cb \in M!Of(d[i][1]).left
                     /\ K[d[i][1]] = 0 \/ \E j \in DOMAIN d : j < i /\ d[j] = LoadOf(d[i], K)
    <3>1. PICK k \in DOMAIN c : k = g[i]
      BY <2>2
    <3>2. d[i] = c[k] /\ c[k] # e
      BY <3>1, <2>2
    <3>3. /\ cb \in M!Of(c[k][1]).hooks /\ c[k][2] <= n
          /\ \/ c[k] = LoadOf(c[k], L)
             \/ /\ cb \in M!Of(c[k][1]).left
                /\ L[c[k][1]] = 0 \/ \E j \in DOMAIN c : j < k /\ c[j] = LoadOf(c[k], L)
      BY DEF Hooked
    <3>4. c[k][1] # m
      BY <3>2, <3>3, <1>4, <1>5
    <3>5. ASSUME NEW j \in DOMAIN c, j < k, c[j] = LoadOf(c[k], L)
          PROVE  \E h \in DOMAIN d : h < i /\ d[h] = LoadOf(d[i], K)
      <4>1. c[j] # e
        <5>1. c[j][1] # m /\ e[1] = m
          BY <3>4, <3>5 DEF LoadOf, e
        <5> QED BY <5>1
      <4>2. PICK h \in DOMAIN d : g[h] = j
        BY <4>1, <2>2
      <4> QED BY <4>2, <3>1, <3>2, <3>4, <3>5, <2>2, <1>3
    <3> QED BY <3>2, <3>3, <3>4, <3>5, <1>3
  <2>6. Hooked(d, cb, K, n)
    BY <2>1, <2>4, <2>5 DEF Hooked
  <2> QED BY <1>5, <2>6 DEF d, e, K
<1>6. CASE cb \notin M!Of(m).hooks \ M!Of(m).left
  <2>1. ASSUME NEW i \in DOMAIN c
        PROVE  \/ c[i] = LoadOf(c[i], K)
               \/ /\ cb \in M!Of(c[i][1]).left
                  /\ K[c[i][1]] = 0 \/ \E j \in DOMAIN c : j < i /\ c[j] = LoadOf(c[i], K)
    <3>1. cb \in M!Of(c[i][1]).hooks
      BY DEF Hooked
    <3>2. CASE c[i][1] = m
      BY <3>1, <3>2, <1>4, <1>6
    <3>3. CASE c[i][1] # m
      BY <3>3, <1>3 DEF Hooked
    <3> QED BY <3>2, <3>3
  <2>2. Hooked(c, cb, K, n)
    BY <2>1 DEF Hooked
  <2> QED BY <1>6, <2>2 DEF K
<1> QED BY <1>5, <1>6 DEF K

-----------------------------------------------------------------------------
(* Loading and unloading.                                                  *)

IsState(s) ==
  s \in [loaded : {s.loaded}, tree : {s.tree}, chain : {s.chain}, services : {s.services},
        commands : {s.commands}, events : {s.events}, clients : {s.clients}]

\* The msg_tree of the load v: its commands while it is loaded, and none after.
Served(t, m, v, on) ==
  IF on THEN Trie(t) /\ \A x : M!FindMsg(t, x) = IF \E i \in DOMAIN M!Of(m).commands : x = M!Of(m).commands[i]
                                                THEN v ELSE Nothing
        ELSE DOMAIN t = {<<>>} /\ ~M!Of(m).delisted

Tables(s, n) ==
  /\ s.loaded \in [M!Modules -> 0..n]
  /\ Trie(s.tree)
  /\ \A x : M!FindMsg(s.tree, x) # Nothing =>
       \E m \in M!Modules : x \in M!Of(m).messages /\ s.loaded[m] # 0
                          /\ M!FindMsg(s.tree, x) = <<m, s.loaded[m]>>
  /\ DOMAIN s.chain = M!Callbacks /\ \A cb \in M!Callbacks : Hooked(s.chain[cb], cb, s.loaded, n)
  /\ \A v \in s.events : \E m \in M!Modules : s.loaded[m] # 0 /\ v = <<m, s.loaded[m]>>
  /\ DOMAIN s.commands = s.services
  /\ \A v \in s.services : \E m \in M!Modules, k \in 1..n :
       /\ v = <<m, k>> /\ M!IsService(m)
       /\ Served(s.commands[v], m, v, s.loaded[m] = k)

Loaded(l, s, m, v) ==
  /\ IsState(l)
  /\ l.loaded = [s.loaded EXCEPT ![m] = v[2]]
  /\ l.tree = M!AddMessages(s.tree, m, v)
  /\ l.chain = M!InstallHooks(s.chain, m, v)
  /\ l.services = IF M!IsService(m) THEN s.services \cup {v} ELSE s.services
  /\ l.commands = IF M!IsService(m)
                  THEN [w \in DOMAIN s.commands \cup {v} |->
                          IF w = v THEN M!NewCommands(m, v) ELSE s.commands[w]]
                  ELSE s.commands
  /\ l.events = IF M!Of(m).event THEN s.events \cup {v} ELSE s.events

LEMMA LoadFields ==
  ASSUME NEW s, IsState(s), NEW m, NEW v PROVE Loaded(M!Load(s, m, v), s, m, v)
BY DEF Loaded, IsState, M!Load

Unloaded(l, s, m, v) ==
  /\ IsState(l)
  /\ l.loaded = [s.loaded EXCEPT ![m] = 0]
  /\ l.tree = M!DelMessages(s.tree, m)
  /\ l.chain = M!UninstallHooks(s.chain, m)
  /\ l.services = IF M!Of(m).delisted THEN s.services \ {v} ELSE s.services
  /\ l.commands = [w \in l.services |->
                     IF w = v THEN M!ServClearMessages(s.commands[w]) ELSE s.commands[w]]
  /\ l.events = s.events \ {v}

LEMMA UnloadFields ==
  ASSUME NEW s, IsState(s), NEW m PROVE Unloaded(M!Unload(s, m), s, m, <<m, s.loaded[m]>>)
BY DEF Unloaded, IsState, M!Unload

\* init_module and unload_module keep every table sound.
LEMMA LoadSound ==
  ASSUME NEW n \in Nat, NEW s, IsState(s), Tables(s, n), NEW m \in M!Modules, s.loaded[m] = 0
  PROVE  Tables(M!Load(s, m, <<m, n + 1>>), n + 1)
<1> DEFINE v == <<m, n + 1>>
           l == M!Load(s, m, v)
           L == s.loaded
           K == [L EXCEPT ![m] = n + 1]
<1>1. /\ l.loaded = K
      /\ l.tree = M!AddMessages(s.tree, m, v)
      /\ l.chain = M!InstallHooks(s.chain, m, v)
      /\ l.services = IF M!IsService(m) THEN s.services \cup {v} ELSE s.services
      /\ l.commands = IF M!IsService(m)
                      THEN [w \in DOMAIN s.commands \cup {v} |->
                              IF w = v THEN M!NewCommands(m, v) ELSE s.commands[w]]
                      ELSE s.commands
      /\ l.events = IF M!Of(m).event THEN s.events \cup {v} ELSE s.events
  <2> HIDE DEF v, l
  <2>1. v[2] = n + 1
    BY DEF v
  <2>2. Loaded(l, s, m, v)
    BY LoadFields DEF l
  <2> QED BY <2>1, <2>2 DEF Loaded
<1> HIDE DEF l
<1>2. L \in [M!Modules -> 0..n] /\ K \in [M!Modules -> 0..(n + 1)] /\ L[m] = 0 /\ K[m] = n + 1
  BY DEF Tables
<1>3. \A w \in M!Modules : (w # m => K[w] = L[w]) /\ (L[w] # 0 => K[w] = L[w])
  BY <1>2
<1>4. v # Nothing /\ v \in M!Modules \X Nat
  <2>1. v \in M!Modules \X Nat
    OBVIOUS
  <2> QED BY <2>1, ModulesAssumption
<1> HIDE DEF L, K
<1>5. l.loaded \in [M!Modules -> 0..(n + 1)]
  BY <1>1, <1>2
<1>6. /\ Trie(l.tree)
      /\ \A x : M!FindMsg(l.tree, x) # Nothing =>
           \E w \in M!Modules : x \in M!Of(w).messages /\ l.loaded[w] # 0
                              /\ M!FindMsg(l.tree, x) = <<w, l.loaded[w]>>
  <2>1. Trie(s.tree)
    BY DEF Tables
  <2>2. /\ Trie(l.tree)
        /\ \A x : M!FindMsg(l.tree, x) = IF x \in M!Of(m).messages THEN v ELSE M!FindMsg(s.tree, x)
    <3> HIDE DEF v
    <3> QED BY <1>1, <1>4, <2>1, MessagesAdded
  <2>3. ASSUME NEW x, M!FindMsg(l.tree, x) # Nothing
        PROVE  \E w \in M!Modules : x \in M!Of(w).messages /\ l.loaded[w] # 0
                                 /\ M!FindMsg(l.tree, x) = <<w, l.loaded[w]>>
    <3>1. CASE x \in M!Of(m).messages
      <4>1. M!FindMsg(l.tree, x) = <<m, l.loaded[m]>> /\ l.loaded[m] # 0
        BY <3>1, <2>2, <1>1, <1>2
      <4> QED BY <4>1, <3>1
    <3>2. CASE x \notin M!Of(m).messages
      <4>1. M!FindMsg(s.tree, x) # Nothing /\ M!FindMsg(s.tree, x) = M!FindMsg(l.tree, x)
        BY <3>2, <2>2, <2>3
      <4>2. PICK w \in M!Modules : x \in M!Of(w).messages /\ L[w] # 0
                                 /\ M!FindMsg(s.tree, x) = <<w, L[w]>>
        BY <4>1 DEF Tables, L
      <4> QED BY <4>1, <4>2, <1>1, <1>3
    <3> QED BY <3>1, <3>2
  <2> QED BY <2>2, <2>3
<1>7. DOMAIN l.chain = M!Callbacks /\ \A cb \in M!Callbacks : Hooked(l.chain[cb], cb, l.loaded, n + 1)
  <2>1. DOMAIN l.chain = M!Callbacks
    BY <1>1 DEF M!InstallHooks
  <2>2. ASSUME NEW cb \in M!Callbacks PROVE Hooked(l.chain[cb], cb, K, n + 1)
    <3> DEFINE c == s.chain[cb]
    <3>1. Hooked(c, cb, L, n)
      BY DEF Tables, L
    <3>2. l.chain[cb] = IF cb \in M!Of(m).hooks THEN <<v>> \o c ELSE c
      BY <1>1 DEF M!InstallHooks
    <3> HIDE DEF c
    <3>3. Hooked(IF cb \in M!Of(m).hooks THEN <<<<m, n + 1>>>> \o c ELSE c, cb,
                 [L EXCEPT ![m] = n + 1], n + 1)
      BY <1>2, <3>1, InstallHooked
    <3> QED BY <3>2, <3>3 DEF K
  <2> QED BY <2>1, <2>2, <1>1
<1>8. \A e \in l.events : \E w \in M!Modules : l.loaded[w] # 0 /\ e = <<w, l.loaded[w]>>
  <2>1. SUFFICES ASSUME NEW e \in l.events PROVE \E w \in M!Modules : K[w] # 0 /\ e = <<w, K[w]>>
    BY <1>1
  <2>2. CASE e = v
    BY <2>2, <1>2
  <2>3. CASE e # v
    <3>1. e \in s.events
      BY <1>1, <2>3
    <3>2. PICK w \in M!Modules : L[w] # 0 /\ e = <<w, L[w]>>
      BY <3>1 DEF Tables, L
    <3> QED BY <3>2, <1>3
  <2> QED BY <2>2, <2>3
<1>9. DOMAIN l.commands = l.services
  BY <1>1 DEF Tables
<1>10. ASSUME NEW e \in l.services
       PROVE  \E w \in M!Modules, k \in 1..(n + 1) :
                 /\ e = <<w, k>> /\ M!IsService(w)
                 /\ Served(l.commands[e], w, e, l.loaded[w] = k)
  <2>1. CASE e = v /\ M!IsService(m)
    <3>1. l.commands[e] = M!NewCommands(m, v)
      BY <1>1, <2>1
    <3>2. Served(l.commands[e], m, e, TRUE)
      BY <3>1, <2>1, <1>4, CommandsAdded DEF Served
    <3>3. n + 1 \in 1..(n + 1) /\ (l.loaded[m] = n + 1) = TRUE
      BY <1>1, <1>2
    <3> QED BY <2>1, <3>2, <3>3
  <2>2. CASE ~(e = v /\ M!IsService(m))
    <3>1. e \in s.services
      BY <1>1, <2>2
    <3>2. PICK w \in M!Modules, k \in 1..n :
                 /\ e = <<w, k>> /\ M!IsService(w)
                 /\ Served(s.commands[e], w, e, L[w] = k)
      BY <3>1 DEF Tables, L
    <3>3. e # v
      BY <3>2
    <3>4. l.commands[e] = s.commands[e]
      BY <1>1, <3>1, <3>3 DEF Tables
    <3>5. (L[w] = k) = (K[w] = k)
      <4>1. CASE w = m
        <5>1. L[w] # k /\ K[w] # k
          BY <4>1, <1>2
        <5> QED BY <5>1
      <4>2. CASE w # m
        BY <4>2, <1>3
      <4> QED BY <4>1, <4>2
    <3>6. k \in 1..(n + 1)
      OBVIOUS
    <3>7. Served(l.commands[e], w, e, l.loaded[w] = k)
      BY <3>2, <3>4, <3>5, <1>1
    <3> QED BY <3>2, <3>6, <3>7
  <2> QED BY <2>1, <2>2
<1>11. Tables(l, n + 1)
  BY <1>5, <1>6, <1>7, <1>8, <1>9, <1>10 DEF Tables
<1> QED BY <1>11 DEF l, v

LEMMA UnloadSound ==
  ASSUME NEW n \in Nat, NEW s, IsState(s), Tables(s, n), s.loaded = modules,
         NEW m \in M!Modules, s.loaded[m] # 0
  PROVE  Tables(M!Unload(s, m), n)
<1> DEFINE v == <<m, s.loaded[m]>>
           l == M!Unload(s, m)
           L == s.loaded
           K == [L EXCEPT ![m] = 0]
<1>1. Unloaded(l, s, m, v)
  BY UnloadFields
<1> HIDE DEF l
<1>2. L \in [M!Modules -> 0..n] /\ K \in [M!Modules -> 0..n] /\ L[m] # 0 /\ K[m] = 0
  BY DEF Tables
<1>3. \A w \in M!Modules : w # m => K[w] = L[w]
  BY <1>2
<1>4. v = <<m, L[m]>> /\ l.loaded = K
  BY <1>1 DEF Unloaded
<1> HIDE DEF L, K, v
<1>5. l.loaded \in [M!Modules -> 0..n]
  BY <1>4, <1>2
<1>6. /\ Trie(l.tree)
      /\ \A x : M!FindMsg(l.tree, x) # Nothing =>
           \E w \in M!Modules : x \in M!Of(w).messages /\ l.loaded[w] # 0
                              /\ M!FindMsg(l.tree, x) = <<w, l.loaded[w]>>
  <2>1. Trie(s.tree)
    BY DEF Tables
  <2>2. /\ Trie(l.tree)
        /\ \A x : M!FindMsg(l.tree, x) = IF x \in M!Of(m).messages THEN Nothing ELSE M!FindMsg(s.tree, x)
    BY <1>1, <2>1, MessagesDeleted DEF Unloaded
  <2>3. ASSUME NEW x, M!FindMsg(l.tree, x) # Nothing
        PROVE  \E w \in M!Modules : x \in M!Of(w).messages /\ l.loaded[w] # 0
                                 /\ M!FindMsg(l.tree, x) = <<w, l.loaded[w]>>
    <3>1. x \notin M!Of(m).messages /\ M!FindMsg(s.tree, x) = M!FindMsg(l.tree, x)
      BY <2>2, <2>3
    <3>2. PICK w \in M!Modules : x \in M!Of(w).messages /\ L[w] # 0
                               /\ M!FindMsg(s.tree, x) = <<w, L[w]>>
      BY <3>1, <2>3 DEF Tables, L
    <3> QED BY <3>1, <3>2, <1>3, <1>4
  <2> QED BY <2>2, <2>3
<1>7. DOMAIN l.chain = M!Callbacks /\ \A cb \in M!Callbacks : Hooked(l.chain[cb], cb, l.loaded, n)
  <2>1. l.chain = M!UninstallHooks(s.chain, m)
    BY <1>1 DEF Unloaded
  <2>2. DOMAIN l.chain = M!Callbacks
    BY <2>1 DEF M!UninstallHooks
  <2>3. ASSUME NEW cb \in M!Callbacks PROVE Hooked(l.chain[cb], cb, K, n)
    <3> DEFINE c == s.chain[cb]
    <3>1. Hooked(c, cb, L, n)
      BY DEF Tables, L
    <3>2. l.chain[cb] = IF cb \in M!Of(m).hooks \ M!Of(m).left THEN M!RemoveFirst(c, <<m, L[m]>>) ELSE c
      BY <2>1 DEF M!UninstallHooks, L
    <3> HIDE DEF c
    <3>3. Hooked(IF cb \in M!Of(m).hooks \ M!Of(m).left THEN M!RemoveFirst(c, <<m, L[m]>>) ELSE c, cb,
                 [L EXCEPT ![m] = 0], n)
      BY <1>2, <3>1, UninstallHooked
    <3> QED BY <3>2, <3>3 DEF K
  <2> QED BY <2>2, <2>3, <1>4
<1>8. \A e \in l.events : \E w \in M!Modules : l.loaded[w] # 0 /\ e = <<w, l.loaded[w]>>
  <2>1. SUFFICES ASSUME NEW e \in l.events PROVE \E w \in M!Modules : K[w] # 0 /\ e = <<w, K[w]>>
    BY <1>4
  <2>2. e \in s.events /\ e # v
    BY <1>1 DEF Unloaded
  <2>3. PICK w \in M!Modules : L[w] # 0 /\ e = <<w, L[w]>>
    BY <2>2 DEF Tables, L
  <2> QED BY <2>2, <2>3, <1>3, <1>4
<1>9. DOMAIN l.commands = l.services
  BY <1>1 DEF Unloaded
<1>10. ASSUME NEW e \in l.services
       PROVE  \E w \in M!Modules, k \in 1..n :
                 /\ e = <<w, k>> /\ M!IsService(w)
                 /\ Served(l.commands[e], w, e, l.loaded[w] = k)
  <2>1. e \in s.services
    BY <1>1 DEF Unloaded
  <2>2. PICK w \in M!Modules, k \in 1..n :
               /\ e = <<w, k>> /\ M!IsService(w)
               /\ Served(s.commands[e], w, e, L[w] = k)
    BY <2>1 DEF Tables, L
  <2>3. CASE e = v
    <3>1. w = m /\ k = L[m] /\ K[w] # k
      BY <2>2, <2>3, <1>2, <1>4
    <3>2. ~M!Of(w).delisted
      BY <1>1, <2>3, <3>1 DEF Unloaded
    <3>3. l.commands[e] = M!ServClearMessages(s.commands[e])
      BY <1>1, <2>3 DEF Unloaded
    <3>4. DOMAIN l.commands[e] = {<<>>}
      BY <3>3 DEF M!ServClearMessages
    <3>5. Served(l.commands[e], w, e, l.loaded[w] = k)
      BY <3>1, <3>2, <3>4, <1>4 DEF Served
    <3> QED BY <2>2, <3>5
  <2>4. CASE e # v
    <3>1. l.commands[e] = s.commands[e]
      BY <1>1, <2>4 DEF Unloaded
    <3>2. (L[w] = k) = (K[w] = k)
      <4>1. CASE w = m
        <5>1. L[w] # k /\ K[w] # k
          BY <4>1, <2>2, <2>4, <1>2, <1>4
        <5> QED BY <5>1
      <4>2. CASE w # m
        BY <4>2, <1>3
      <4> QED BY <4>1, <4>2
    <3>3. Served(l.commands[e], w, e, l.loaded[w] = k)
      BY <2>2, <3>1, <3>2, <1>4
    <3> QED BY <2>2, <3>3
  <2> QED BY <2>3, <2>4
<1>11. Tables(l, n)
  BY <1>5, <1>6, <1>7, <1>8, <1>9, <1>10 DEF Tables
<1> QED BY <1>11 DEF l

\* A load of m, also one right after m was unloaded, in the table of messages.
LEMMA LoadHandles ==
  ASSUME NEW s, IsState(s), Trie(s.tree), NEW m \in M!Modules, NEW n \in Nat
  PROVE  LET v == <<m, n>> IN
         \A x : M!FindMsg(M!Load(s, m, v).tree, x)
                = IF x \in M!Of(m).messages THEN v ELSE M!FindMsg(s.tree, x)
<1> DEFINE v == <<m, n>>
           l == M!Load(s, m, v)
<1>1. v # Nothing
  <2>1. v \in M!Modules \X Nat
    OBVIOUS
  <2> QED BY <2>1, ModulesAssumption
<1> HIDE DEF v
<1>2. Loaded(l, s, m, v)
  BY LoadFields
<1> HIDE DEF l
<1>3. \A x : M!FindMsg(l.tree, x) = IF x \in M!Of(m).messages THEN v ELSE M!FindMsg(s.tree, x)
  BY <1>1, <1>2, MessagesAdded DEF Loaded
<1> QED BY <1>3 DEF l, v

LEMMA UnloadHandles ==
  ASSUME NEW s, IsState(s), Trie(s.tree), NEW m \in M!Modules
  PROVE  /\ IsState(M!Unload(s, m)) /\ Trie(M!Unload(s, m).tree)
         /\ \A x : M!FindMsg(M!Unload(s, m).tree, x)
                     = IF x \in M!Of(m).messages THEN Nothing ELSE M!FindMsg(s.tree, x)
<1> DEFINE l == M!Unload(s, m)
<1>1. Unloaded(l, s, m, <<m, s.loaded[m]>>)
  BY UnloadFields
<1> HIDE DEF l
<1>2. /\ IsState(l) /\ Trie(l.tree)
      /\ \A x : M!FindMsg(l.tree, x) = IF x \in M!Of(m).messages THEN Nothing ELSE M!FindMsg(s.tree, x)
  BY <1>1, MessagesDeleted DEF Unloaded
<1> QED BY <1>2 DEF l

\* While oftc is loaded, its messages and the heads of its chains are its own.
ProtocolHolds(s) ==
  s.loaded["oftc"] # 0 =>
    /\ \A w \in M!Oftc.messages : M!FindMsg(s.tree, w) = <<"oftc", s.loaded["oftc"]>>
    /\ \A cb \in {"connected", "newuser", "svsnick"} :
         s.chain[cb] # <<>> /\ s.chain[cb][1] = <<"oftc", s.loaded["oftc"]>>

LEMMA LoadProtocol ==
  ASSUME NEW n \in Nat, NEW s, IsState(s), Tables(s, n), NEW m \in M!Modules \ {"irc"},
         NEW k \in Nat, m = "oftc" \/ ProtocolHolds(s)
  PROVE  ProtocolHolds(M!Load(s, m, <<m, k>>))
<1> DEFINE v == <<m, k>>
           l == M!Load(s, m, v)
<1>1. Loaded(l, s, m, v)
  BY LoadFields
<1>2. \A x : M!FindMsg(l.tree, x) = IF x \in M!Of(m).messages THEN v ELSE M!FindMsg(s.tree, x)
  BY LoadHandles DEF Tables
<1>3. v[2] = k
  OBVIOUS
<1>0. SUFFICES ProtocolHolds(l)
  OBVIOUS
<1> HIDE DEF l
<1>4. l.loaded = [s.loaded EXCEPT ![m] = k] /\ l.chain = M!InstallHooks(s.chain, m, v)
  BY <1>1, <1>3 DEF Loaded
<1>5. "oftc" \in DOMAIN s.loaded /\ {"connected", "newuser", "svsnick"} \subseteq M!Callbacks
  <2>1. "oftc" \in M!Modules
    BY DEF M!Modules
  <2>2. {"connected", "newuser", "svsnick"} \subseteq M!Of("oftc").hooks
    BY OfIs, OftcEntry
  <2> QED BY <2>1, <2>2, HooksOf DEF Tables
<1>6. CASE m = "oftc"
  <2>1. l.loaded["oftc"] = k /\ M!Of(m).messages = M!Oftc.messages
    BY <1>4, <1>5, <1>6, OfIs
  <2>2. ASSUME NEW cb \in {"connected", "newuser", "svsnick"}
        PROVE  l.chain[cb] # <<>> /\ l.chain[cb][1] = v
    <3>1. cb \in M!Of(m).hooks /\ cb \in M!Callbacks
      BY <1>5, <1>6, OfIs, OftcEntry
    <3>2. l.chain[cb] = <<v>> \o s.chain[cb] /\ s.chain[cb] \in Seq(Loads)
      BY <1>4, <3>1 DEF M!InstallHooks, Tables, Hooked
    <3> HIDE DEF v
    <3>3. Len(l.chain[cb]) # 0 /\ l.chain[cb][1] = v
      BY <3>2
    <3> QED BY <3>3
  <2>3. v = <<"oftc", l.loaded["oftc"]>>
    BY <2>1, <1>6
  <2> HIDE DEF v
  <2> QED BY <1>2, <2>1, <2>2, <2>3 DEF ProtocolHolds
<1>7. CASE m # "oftc"
  <2>1. l.loaded["oftc"] = s.loaded["oftc"] /\ M!Of(m).messages = {}
    BY <1>4, <1>5, <1>7, MessagesOf
  <2>2. \A x : M!FindMsg(l.tree, x) = M!FindMsg(s.tree, x)
    BY <1>2, <2>1
  <2>3. \A cb \in {"connected", "newuser", "svsnick"} : l.chain[cb] = s.chain[cb]
    BY <1>4, <1>5, <1>7, HooksOf DEF M!InstallHooks
  <2> QED BY <1>7, <2>1, <2>2, <2>3 DEF ProtocolHolds
<1> QED BY <1>6, <1>7

LEMMA UnloadProtocol ==
  ASSUME NEW n \in Nat, NEW s, IsState(s), Tables(s, n), NEW m \in M!Modules \ {"irc", "oftc"},
         ProtocolHolds(s)
  PROVE  ProtocolHolds(M!Unload(s, m))
<1> DEFINE l == M!Unload(s, m)
<1>1. Unloaded(l, s, m, <<m, s.loaded[m]>>)
  BY UnloadFields
<1>2. \A x : M!FindMsg(l.tree, x) = IF x \in M!Of(m).messages THEN Nothing ELSE M!FindMsg(s.tree, x)
  BY UnloadHandles DEF Tables
<1> HIDE DEF l
<1>3. l.loaded = [s.loaded EXCEPT ![m] = 0] /\ l.chain = M!UninstallHooks(s.chain, m)
  BY <1>1 DEF Unloaded
<1>4. "oftc" \in DOMAIN s.loaded /\ {"connected", "newuser", "svsnick"} \subseteq M!Callbacks
  <2>1. "oftc" \in M!Modules
    BY DEF M!Modules
  <2>2. {"connected", "newuser", "svsnick"} \subseteq M!Of("oftc").hooks
    BY OfIs, OftcEntry
  <2> QED BY <2>1, <2>2, HooksOf DEF Tables
<1>5. l.loaded["oftc"] = s.loaded["oftc"] /\ M!Of(m).messages = {}
  BY <1>3, <1>4, MessagesOf
<1>6. \A cb \in {"connected", "newuser", "svsnick"} : l.chain[cb] = s.chain[cb]
  BY <1>3, <1>4, HooksOf DEF M!UninstallHooks
<1>7. ProtocolHolds(l)
  BY <1>2, <1>5, <1>6 DEF ProtocolHolds
<1> QED BY <1>7 DEF l

-----------------------------------------------------------------------------
(* What the tables of the modules are for.                                 *)

LEMMA NowFields ==
  /\ IsState(M!Now)
  /\ M!Now.loaded = modules /\ M!Now.tree = tree /\ M!Now.chain = chain
  /\ M!Now.services = services /\ M!Now.commands = commands /\ M!Now.events = events
BY DEF IsState, M!Now

\* Sound tables are what TreesAreSound, CallsAreLive and ProtocolIsOftc say.
LEMMA TreesSound ==
  ASSUME NEW n \in Nat, Tables(M!Now, n) PROVE M!TreesAreSound
<1>1. M!WellFormed(tree)
  BY NowFields DEF Tables, Trie
<1>2. ASSUME NEW v \in services
      PROVE  /\ M!Live(v) => M!WellFormed(commands[v]) /\ M!Listed(commands[v]) = {v}
             /\ \A w \in M!ToSet(M!Of(v[1]).commands) :
                  M!FindMsg(commands[v], w) = IF M!Live(v) THEN v ELSE Nothing
  <2>1. PICK m \in M!Modules, k \in 1..n :
               /\ v = <<m, k>> /\ M!IsService(m)
               /\ Served(commands[v], m, v, modules[m] = k)
    BY NowFields DEF Tables
  <2>2. v[1] = m /\ v # <<>> /\ (M!Live(v) <=> modules[m] = k)
    BY <2>1 DEF M!Live
  <2>3. v # Nothing
    <3>1. v \in M!Modules \X Nat
      BY <2>1
    <3> QED BY <3>1, ModulesAssumption
  <2>4. \A w \in M!ToSet(M!Of(m).commands) :
          w # <<>> /\ \E i \in DOMAIN M!Of(m).commands : w = M!Of(m).commands[i]
    BY CommandsOf DEF M!ToSet
  <2> DEFINE t == commands[v]
  <2> HIDE DEF t
  <2>5. CASE modules[m] = k
    <3>1. Trie(t) /\ \A x : M!FindMsg(t, x) = IF \E i \in DOMAIN M!Of(m).commands : x = M!Of(m).commands[i]
                                              THEN v ELSE Nothing
      BY <2>1, <2>5 DEF Served, t
    <3>2. PICK i \in DOMAIN M!Of(m).commands : TRUE
      BY <2>1, CommandsOf
    <3>3. M!FindMsg(t, M!Of(m).commands[i]) = v
      BY <3>1, <3>2
    <3>4. M!Of(m).commands[i] \in DOMAIN t /\ t[M!Of(m).commands[i]].msg = v
      BY <3>3, <2>3 DEF M!FindMsg
    <3>5. \A p \in DOMAIN t : t[p].msg \in {v, Nothing}
      <4>1. SUFFICES ASSUME NEW p \in DOMAIN t PROVE t[p].msg \in {v, Nothing}
        OBVIOUS
      <4>2. M!FindMsg(t, p) = t[p].msg
        BY DEF M!FindMsg
      <4> QED BY <4>2, <3>1
    <3>6. M!Listed(t) = {v}
      BY <3>4, <3>5, <2>3 DEF M!Listed
    <3>7. M!WellFormed(t)
      BY <3>1 DEF Trie
    <3>8. \A w \in M!ToSet(M!Of(m).commands) : M!FindMsg(t, w) = v
      BY <3>1, <2>4
    <3> QED BY <2>2, <2>5, <3>6, <3>7, <3>8 DEF t
  <2>6. CASE modules[m] # k
    <3>1. DOMAIN t = {<<>>}
      BY <2>1, <2>6 DEF Served, t
    <3>2. \A w \in M!ToSet(M!Of(m).commands) : M!FindMsg(t, w) = Nothing
      BY <3>1, <2>4 DEF M!FindMsg
    <3> QED BY <2>2, <2>6, <3>2 DEF t
  <2> QED BY <2>5, <2>6
<1> QED BY <1>1, <1>2 DEF M!TreesAreSound

LEMMA CallsLive ==
  ASSUME NEW n \in Nat, Tables(M!Now, n) PROVE M!CallsAreLive
<1>1. ASSUME NEW cb \in M!Callbacks, NEW v \in M!Called(chain, cb)
      PROVE  M!Live(v) \/ cb = "drop" \/ (cb \in M!Of(v[1]).left /\ modules[v[1]] = 0)
  <2> DEFINE c == chain[cb]
  <2>1. Hooked(c, cb, modules, n)
    BY NowFields DEF Tables
  <2>2. PICK i \in 1..Len(c) : v = c[i] /\ \A j \in 1..(i - 1) : cb \in M!Of(c[j][1]).passes
    BY DEF M!Called
  <2> HIDE DEF c
  <2>3. c \in Seq(Loads) /\ v \in Loads /\ v[1] \in M!Modules /\ v = <<v[1], v[2]>> /\ v # <<>>
    BY <2>1, <2>2 DEF Hooked, Loads
  <2>4. CASE v = LoadOf(v, modules)
    <3>1. modules[v[1]] = v[2]
      BY <2>3, <2>4 DEF LoadOf
    <3> QED BY <3>1, <2>3 DEF M!Live
  <2>5. CASE v # LoadOf(v, modules)
    <3>1. /\ cb \in M!Of(v[1]).left
          /\ modules[v[1]] = 0 \/ \E j \in DOMAIN c : j < i /\ c[j] = LoadOf(v, modules)
      BY <2>1, <2>2, <2>3, <2>5 DEF Hooked
    <3>2. ASSUME NEW j \in DOMAIN c, j < i, c[j] = LoadOf(v, modules) PROVE cb = "drop"
      <4>1. j \in 1..(i - 1) /\ c[j][1] = v[1]
        BY <2>3, <3>2 DEF LoadOf
      <4>2. cb \in M!Of(v[1]).passes
        BY <4>1, <2>2
      <4> QED BY <4>2, <3>1, <2>3, HooksOf
    <3> QED BY <3>1, <3>2
  <2> QED BY <2>4, <2>5
<1>2. ASSUME NEW v, NEW m \in M!Modules, v = <<m, modules[m]>> PROVE M!Live(v)
  <2>1. v # <<>> /\ v[1] = m /\ v[2] = modules[m]
    BY <1>2
  <2> QED BY <2>1 DEF M!Live
<1>3. \A v \in events : M!Live(v)
  BY <1>2, NowFields DEF Tables
<1>4. ASSUME NEW w \in DOMAIN tree, tree[w].msg # Nothing PROVE M!Live(tree[w].msg)
  <2>1. M!FindMsg(tree, w) = tree[w].msg
    BY DEF M!FindMsg
  <2>2. \E m \in M!Modules : M!FindMsg(tree, w) = <<m, modules[m]>>
    BY <2>1, <1>4, NowFields DEF Tables
  <2> QED BY <2>1, <2>2, <1>2
<1>5. ASSUME NEW v \in services PROVE M!Live(v) \/ ~M!Of(v[1]).delisted
  <2>1. PICK m \in M!Modules, k \in 1..n :
               /\ v = <<m, k>> /\ M!IsService(m)
               /\ Served(commands[v], m, v, modules[m] = k)
    BY NowFields DEF Tables
  <2>2. v[1] = m
    BY <2>1
  <2>3. modules[m] # k => ~M!Of(m).delisted
    BY <2>1 DEF Served
  <2>4. modules[m] = k => M!Live(v)
    BY <2>1, <1>2
  <2> QED BY <2>2, <2>3, <2>4
<1> QED BY <1>1, <1>3, <1>4, <1>5 DEF M!CallsAreLive

LEMMA ProtocolLive ==
  ASSUME ~protocolMoved => ProtocolHolds(M!Now) PROVE M!ProtocolIsOftc
<1>1. M!Oftc.hooks \ M!Oftc.passes = {"connected", "newuser", "svsnick"}
  BY OftcEntry
<1>2. SUFFICES ASSUME modules["oftc"] # 0, ~protocolMoved
               PROVE  /\ \A w \in M!Oftc.messages : M!FindMsg(tree, w) = <<"oftc", modules["oftc"]>>
                      /\ \A cb \in {"connected", "newuser", "svsnick"} :
                           Head(chain[cb]) = <<"oftc", modules["oftc"]>>
  BY <1>1 DEF M!ProtocolIsOftc
<1>3. /\ \A w \in M!Oftc.messages : M!FindMsg(tree, w) = <<"oftc", modules["oftc"]>>
      /\ \A cb \in {"connected", "newuser", "svsnick"} :
           chain[cb] # <<>> /\ chain[cb][1] = <<"oftc", modules["oftc"]>>
  BY <1>2, NowFields DEF ProtocolHolds
<1> QED BY <1>3

-----------------------------------------------------------------------------
(* The steps of services with their modules.                               *)

\* Every table is sound and, unless irc moved, oftc's protocol holds; modules
\* that boot_modules has not come to are not loaded.
ModulesInv ==
  /\ loads \in Nat /\ Tables(M!Now, loads)
  /\ ~protocolMoved => ProtocolHolds(M!Now)
  /\ \A i \in 1..6 : loads < i => modules[M!BootOrder[i]] = 0

\* The state after a step has the tables the step made.
LEMMA BecomesKeeps ==
  ASSUME NEW s, M!Becomes(s)
  PROVE  /\ \A n : Tables(s, n) => Tables(M!Now', n)
         /\ ProtocolHolds(s) => ProtocolHolds(M!Now')
         /\ modules' = s.loaded /\ tree' = s.tree
<1>1. /\ M!Now'.loaded = s.loaded /\ M!Now'.tree = s.tree /\ M!Now'.chain = s.chain
      /\ M!Now'.services = s.services /\ M!Now'.commands = s.commands /\ M!Now'.events = s.events
  BY DEF M!Becomes, M!Now
<1>2. modules' = s.loaded /\ tree' = s.tree
  BY DEF M!Becomes
<1>3. ASSUME NEW n, Tables(s, n) PROVE Tables(M!Now', n)
  BY <1>1, <1>3 DEF Tables
<1>4. ASSUME ProtocolHolds(s) PROVE ProtocolHolds(M!Now')
  BY <1>1, <1>4 DEF ProtocolHolds
<1> QED BY <1>2, <1>3, <1>4

LEMMA BootIs ==
  /\ Len(M!BootOrder) = 6
  /\ \A i \in 1..6 : M!BootOrder[i] \in M!Modules
  /\ \A i, j \in 1..6 : M!BootOrder[i] = M!BootOrder[j] => i = j
<1>1. Len(M!BootOrder) = 6
  BY DEF M!BootOrder
<1>2. /\ M!BootOrder[1] = "pgsql" /\ M!BootOrder[2] = "irc" /\ M!BootOrder[3] = "oftc"
      /\ M!BootOrder[4] = "nickserv" /\ M!BootOrder[5] = "chanserv" /\ M!BootOrder[6] = "floodserv"
  BY DEF M!BootOrder
<1>3. \A i \in 1..6 : i = 1 \/ i = 2 \/ i = 3 \/ i = 4 \/ i = 5 \/ i = 6
  OBVIOUS
<1>4. \A i \in 1..6 : M!BootOrder[i] \in M!Modules
  BY <1>2, <1>3 DEF M!Modules
<1>5. \A i, j \in 1..6 : M!BootOrder[i] = M!BootOrder[j] => i = j
  BY <1>2, <1>3
<1> QED BY <1>1, <1>4, <1>5

\* A load into the tables s, which are those of now or those a module has left.
LEMMA LoadStep ==
  ASSUME loads \in Nat, NEW s, IsState(s), Tables(s, loads), NEW m \in M!Modules, s.loaded[m] = 0,
         m \notin {"irc", "oftc"} => (~protocolMoved => ProtocolHolds(s)),
         loads' = loads + 1, M!Becomes(M!Load(s, m, <<m, loads'>>)), M!Moved(m, TRUE)
  PROVE  /\ Tables(M!Now', loads')
         /\ ~protocolMoved' => ProtocolHolds(M!Now')
         /\ modules' = [s.loaded EXCEPT ![m] = loads + 1]
<1> DEFINE v == <<m, loads + 1>>
           l == M!Load(s, m, v)
<1>1. M!Becomes(l)
  OBVIOUS
<1>2. Tables(l, loads + 1)
  BY LoadSound
<1>3. Loaded(l, s, m, v) /\ v[2] = loads + 1
  BY LoadFields
<1>4. m # "irc" /\ (m = "oftc" \/ ProtocolHolds(s)) => ProtocolHolds(l)
  BY LoadProtocol
<1> HIDE DEF l, v
<1>5. Tables(M!Now', loads') /\ modules' = [s.loaded EXCEPT ![m] = loads + 1]
  BY <1>1, <1>2, <1>3, BecomesKeeps DEF Loaded
<1>6. ~protocolMoved' => ProtocolHolds(M!Now')
  <2>1. CASE m = "irc"
    BY <2>1 DEF M!Moved
  <2>2. CASE m = "oftc"
    BY <2>2, <1>1, <1>4, BecomesKeeps
  <2>3. CASE m \notin {"irc", "oftc"}
    <3>1. protocolMoved' = protocolMoved
      BY <2>3 DEF M!Moved
    <3> QED BY <2>3, <3>1, <1>1, <1>4, BecomesKeeps
  <2> QED BY <2>1, <2>2, <2>3
<1> QED BY <1>5, <1>6

\* The invariant holds after each step of Modules.
LEMMA UnloadStep ==
  ASSUME ModulesInv, NEW m \in M!Modules, M!ModUnload(m)
  PROVE  ModulesInv'
<1> DEFINE l == M!Unload(M!Now, m)
<1>1. loads \in Nat /\ Tables(M!Now, loads) /\ modules[m] # 0 /\ loads' = loads /\ ~(loads < 6)
  BY BootIs DEF ModulesInv, M!ModUnload, M!Running
<1>2. Tables(l, loads)
  BY <1>1, NowFields, UnloadSound
<1>3. m \notin {"irc", "oftc"} /\ ProtocolHolds(M!Now) => ProtocolHolds(l)
  BY <1>1, NowFields, UnloadProtocol
<1>4. M!Becomes(l) /\ M!Moved(m, FALSE)
  BY DEF M!ModUnload
<1> HIDE DEF l
<1>5. Tables(M!Now', loads')
  BY <1>1, <1>2, <1>4, BecomesKeeps
<1>6. ~protocolMoved' => ProtocolHolds(M!Now')
  <2>1. CASE m \in {"irc", "oftc"}
    BY <2>1, <1>4 DEF M!Moved
  <2>2. CASE m \notin {"irc", "oftc"}
    <3>1. protocolMoved' = protocolMoved
      BY <2>2, <1>4 DEF M!Moved
    <3> QED BY <2>2, <3>1, <1>3, <1>4, BecomesKeeps DEF ModulesInv
  <2> QED BY <2>1, <2>2
<1>7. loads' \in Nat /\ ~(loads' < 6)
  BY <1>1
<1>8. \A i \in 1..6 : ~(loads' < i)
  BY <1>7
<1> QED BY <1>5, <1>6, <1>7, <1>8 DEF ModulesInv

LEMMA ReloadStep ==
  ASSUME ModulesInv, NEW m \in M!Modules, M!ModReload(m)
  PROVE  ModulesInv'
<1> DEFINE s == M!Unload(M!Now, m)
<1>1. loads \in Nat /\ Tables(M!Now, loads) /\ modules[m] # 0 /\ loads' = loads + 1 /\ ~(loads < 6)
  BY BootIs DEF ModulesInv, M!ModReload, M!Running, M!NewLoad
<1>2. Tables(s, loads)
  BY <1>1, NowFields, UnloadSound
<1>3. m \notin {"irc", "oftc"} /\ ProtocolHolds(M!Now) => ProtocolHolds(s)
  BY <1>1, NowFields, UnloadProtocol
<1>4. Unloaded(s, M!Now, m, <<m, modules[m]>>)
  BY NowFields, UnloadFields
<1>5. M!Becomes(M!Load(s, m, <<m, loads'>>)) /\ M!Moved(m, TRUE)
  BY DEF M!ModReload
<1> HIDE DEF s
<1>6. IsState(s) /\ s.loaded[m] = 0
  <2>1. s.loaded = [modules EXCEPT ![m] = 0] /\ m \in DOMAIN modules
    BY <1>1, <1>4, NowFields DEF Unloaded, Tables
  <2> QED BY <2>1, <1>4 DEF Unloaded
<1>7. Tables(M!Now', loads') /\ (~protocolMoved' => ProtocolHolds(M!Now'))
  BY <1>1, <1>2, <1>3, <1>5, <1>6, LoadStep DEF ModulesInv
<1>8. loads' \in Nat /\ \A i \in 1..6 : ~(loads' < i)
  BY <1>1
<1> QED BY <1>7, <1>8 DEF ModulesInv

LEMMA LoadModuleStep ==
  ASSUME ModulesInv, NEW m \in M!Modules, M!ModLoad(m)
  PROVE  ModulesInv'
<1>1. loads \in Nat /\ Tables(M!Now, loads) /\ modules[m] = 0 /\ loads' = loads + 1 /\ ~(loads < 6)
  BY BootIs DEF ModulesInv, M!ModLoad, M!Running, M!NewLoad
<1>2. M!Becomes(M!Load(M!Now, m, <<m, loads'>>)) /\ M!Moved(m, TRUE)
  BY DEF M!ModLoad
<1>3. Tables(M!Now', loads') /\ (~protocolMoved' => ProtocolHolds(M!Now'))
  BY <1>1, <1>2, NowFields, LoadStep DEF ModulesInv
<1>4. loads' \in Nat /\ \A i \in 1..6 : ~(loads' < i)
  BY <1>1
<1> QED BY <1>3, <1>4 DEF ModulesInv

LEMMA BootStep ==
  ASSUME ModulesInv, M!Boot
  PROVE  ModulesInv'
<1> DEFINE m == M!BootOrder[loads + 1]
<1>1. loads \in Nat /\ Tables(M!Now, loads) /\ loads < 6 /\ loads' = loads + 1 /\ loads + 1 \in 1..6
  BY BootIs DEF ModulesInv, M!Boot
<1>2. m \in M!Modules /\ modules[m] = 0
  BY <1>1, BootIs DEF ModulesInv
<1>3. M!Becomes(M!Load(M!Now, m, <<m, loads'>>)) /\ M!Moved(m, TRUE)
  BY <1>1 DEF M!Boot
<1>4. \A i \in 1..6 : loads + 1 < i => M!BootOrder[i] # m
  BY <1>1, BootIs
<1> HIDE DEF m
<1>5. /\ Tables(M!Now', loads') /\ (~protocolMoved' => ProtocolHolds(M!Now'))
      /\ modules' = [modules EXCEPT ![m] = loads + 1]
  BY <1>1, <1>2, <1>3, NowFields, LoadStep DEF ModulesInv
<1>6. ASSUME NEW i \in 1..6, loads' < i PROVE modules'[M!BootOrder[i]] = 0
  <2>1. loads < i /\ M!BootOrder[i] # m
    BY <1>1, <1>4, <1>6
  <2>2. modules[M!BootOrder[i]] = 0 /\ M!BootOrder[i] \in M!Modules
    BY <2>1, BootIs DEF ModulesInv
  <2>3. DOMAIN modules = M!Modules
    BY <1>1, NowFields DEF Tables
  <2> QED BY <2>1, <2>2, <2>3, <1>5
<1>7. loads' \in Nat
  BY <1>1
<1> QED BY <1>5, <1>6, <1>7 DEF ModulesInv

\* All that is kept when services connect, and when another part moves.
LEMMA ModulesStay ==
  ASSUME ModulesInv, UNCHANGED <<modules, loads, tree, chain, services, commands, events, protocolMoved>>
  PROVE  ModulesInv'
<1>1. /\ M!Now'.loaded = M!Now.loaded /\ M!Now'.tree = M!Now.tree /\ M!Now'.chain = M!Now.chain
      /\ M!Now'.services = M!Now.services /\ M!Now'.commands = M!Now.commands
      /\ M!Now'.events = M!Now.events
  BY DEF M!Now
<1>2. Tables(M!Now', loads)
  BY <1>1 DEF ModulesInv, Tables
<1>3. ProtocolHolds(M!Now) => ProtocolHolds(M!Now')
  BY <1>1 DEF ProtocolHolds
<1>4. \A i \in 1..6 : loads' < i => modules'[M!BootOrder[i]] = 0
  BY DEF ModulesInv
<1> QED BY <1>2, <1>3, <1>4 DEF ModulesInv

LEMMA ModulesBlank == ASSUME M!Init PROVE ModulesInv
<1>1. /\ M!Now.loaded = [m \in M!Modules |-> 0] /\ M!Now.tree = M!EmptyTree
      /\ M!Now.chain = [cb \in M!Callbacks |-> <<>>] /\ M!Now.services = {}
      /\ M!Now.commands = <<>> /\ M!Now.events = {} /\ loads = 0
  BY NowFields DEF M!Init, M!Blank
<1>2. \A cb \in M!Callbacks : Hooked(<<>>, cb, M!Now.loaded, 0)
  BY DEF Hooked, Distinct
<1>3. Tables(M!Now, 0)
  BY <1>1, <1>2, EmptyIsTrie DEF Tables
<1>4. "oftc" \in M!Modules
  BY DEF M!Modules
<1>5. ProtocolHolds(M!Now)
  BY <1>1, <1>4 DEF ProtocolHolds
<1>6. \A i \in 1..6 : modules[M!BootOrder[i]] = 0
  BY <1>1, NowFields, BootIs
<1> QED BY <1>1, <1>3, <1>5, <1>6 DEF ModulesInv

LEMMA ModulesStep ==
  ASSUME ModulesInv, [MCNext]_<<part, vars, evars, hvars, svars, mvars>> PROVE ModulesInv'
<1>1. CASE M!Boot
  BY <1>1, BootStep
<1>2. ASSUME NEW m \in M!Modules, M!ModLoad(m) \/ M!ModUnload(m) \/ M!ModReload(m) \/ M!ModReloadFile(m)
      PROVE  ModulesInv'
  BY <1>2, LoadModuleStep, UnloadStep, ReloadStep DEF M!ModReloadFile
<1>3. CASE M!Connected
  BY <1>3, ModulesStay DEF M!Connected
<1>4. CASE UNCHANGED mvars
  BY <1>4, ModulesStay DEF mvars
<1>5. M!Next \/ UNCHANGED mvars
  BY DEF MCNext
<1> QED BY <1>1, <1>2, <1>3, <1>4, <1>5 DEF M!Next

\* Whatever modules come and go, in any order and any number of times, what
\* services will call is mapped, the trees that find it are sound, and oftc's
\* protocol stands while irc does not move after it.
THEOREM NothingDangles == MCSpec => []CallsAreLive
<1>1. MCInit => ModulesInv
  BY ModulesBlank DEF MCInit
<1>2. ModulesInv /\ [MCNext]_<<part, vars, evars, hvars, svars, mvars>> => ModulesInv'
  BY ModulesStep
<1>3. ModulesInv => CallsAreLive
  <2>1. ASSUME ModulesInv PROVE M!TreesAreSound /\ M!CallsAreLive /\ M!ProtocolIsOftc
    BY <2>1, TreesSound, CallsLive, ProtocolLive DEF ModulesInv
  <2> QED BY <2>1 DEF CallsAreLive
<1> QED BY <1>1, <1>2, <1>3, PTL DEF MCSpec

LEMMA TableOf ==
  ASSUME NEW t, NEW u, NEW set, NEW v,
         \A x : M!FindMsg(u, x) = IF x \in set THEN v ELSE M!FindMsg(t, x)
  PROVE  LET names == M!Irc.messages \cup M!Oftc.messages IN
         [w \in names |-> M!FindMsg(u, w)]
           = [w \in names |-> IF w \in set THEN v ELSE [x \in names |-> M!FindMsg(t, x)][w]]
OBVIOUS

\* What a step of the modules is for the table.
LEMMA TableStep ==
  ASSUME ModulesInv, M!Next PROVE M!Table!Next \/ UNCHANGED tree
<1> DEFINE names == M!Irc.messages \cup M!Oftc.messages
           table == [w \in names |-> M!FindMsg(tree, w)]
<1>0. IsState(M!Now) /\ M!Now.tree = tree /\ Trie(tree) /\ loads \in Nat
  BY NowFields DEF ModulesInv, Tables
<1>1. ASSUME NEW m \in M!Modules, NEW s, M!Becomes(s), NEW v, v = Nothing \/ \E n \in 1..(MaxLoads + 6) : v = <<m, n>>,
             \A x : M!FindMsg(s.tree, x) = IF x \in M!Of(m).messages THEN v ELSE M!FindMsg(tree, x)
      PROVE  M!Table!Next
  <2>1. tree' = s.tree
    BY <1>1 DEF M!Becomes
  <2>2. [w \in names |-> M!FindMsg(tree', w)]
          = [w \in names |-> IF w \in M!Of(m).messages THEN v ELSE table[w]]
    BY <1>1, <2>1, TableOf
  <2>3. M!Table!Handle(m, v)
    BY <2>2 DEF M!Table!Handle
  <2> QED BY <1>1, <2>3, BootIs DEF M!Table!Next
<1>2. ASSUME NEW m \in M!Modules, NEW s, IsState(s), Trie(s.tree), loads' = loads + 1,
             loads' \in 1..(MaxLoads + 6), M!Becomes(M!Load(s, m, <<m, loads'>>)),
             \A x : x \in M!Of(m).messages \/ M!FindMsg(s.tree, x) = M!FindMsg(tree, x)
      PROVE  M!Table!Next
  BY <1>1, <1>2, LoadHandles
<1>3. CASE M!Boot
  BY <1>0, <1>2, <1>3, BootIs, ModulesAssumption DEF M!Boot
<1>4. CASE M!Connected
  BY <1>4 DEF M!Connected
<1>5. ASSUME NEW m \in M!Modules, M!ModLoad(m) PROVE M!Table!Next
  BY <1>0, <1>2, <1>5, ModulesAssumption DEF M!ModLoad, M!NewLoad
<1>6. ASSUME NEW m \in M!Modules, M!ModUnload(m) PROVE M!Table!Next
  BY <1>0, <1>1, <1>6, UnloadHandles DEF M!ModUnload
<1>7. ASSUME NEW m \in M!Modules, M!ModReload(m) PROVE M!Table!Next
  BY <1>0, <1>2, <1>7, UnloadHandles, ModulesAssumption DEF M!ModReload, M!NewLoad
<1> QED BY <1>3, <1>4, <1>5, <1>6, <1>7 DEF M!Next, M!ModReloadFile

\* The trie of messages implements the table: every load, unload and reload is
\* one step of the table, and nothing else is one.
THEOREM TrieIsTable == MCSpec => TreeIsTable
<1> DEFINE names == M!Irc.messages \cup M!Oftc.messages
           table == [w \in names |-> M!FindMsg(tree, w)]
<1>1. MCInit => ModulesInv /\ M!Table!Init
  <2>1. ASSUME M!Init PROVE M!Table!Init
    BY <2>1, EmptyIsTrie DEF M!Init, M!Blank, M!Table!Init
  <2> QED BY <2>1, ModulesBlank DEF MCInit
<1>2. ModulesInv /\ [MCNext]_<<part, vars, evars, hvars, svars, mvars>> => ModulesInv'
  BY ModulesStep
<1>3. ModulesInv /\ [MCNext]_<<part, vars, evars, hvars, svars, mvars>> => [M!Table!Next]_table
  <2>1. [MCNext]_<<part, vars, evars, hvars, svars, mvars>> => M!Next \/ UNCHANGED mvars
    BY DEF MCNext
  <2>2. UNCHANGED mvars => UNCHANGED tree
    BY DEF mvars
  <2>3. UNCHANGED tree => UNCHANGED table
    OBVIOUS
  <2> QED BY <2>1, <2>2, <2>3, TableStep
<1> QED BY <1>1, <1>2, <1>3, PTL DEF MCSpec, TreeIsTable, M!TreeIsTable, M!Table!Spec
=============================================================================
