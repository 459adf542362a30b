------------------------------ MODULE Resolver ------------------------------
(***************************************************************************)
(* The lookups of libio/net/res.c, of which comm_connect_tcp starts one    *)
(* when the uplink's host is a name.  A request asks for an IPv6 address   *)
(* and then for an IPv4 one; answers find it by the id of its last         *)
(* question, get lost, come late, twice or not at all, and a timer asks    *)
(* again and gives up.                                                     *)
(***************************************************************************)
EXTENDS Naturals

CONSTANTS
  Queries,       \* struct DNSQuery: one host name each
  Ids,           \* ids of questions, 16 bits in the code; 0 is one
  FirstTimeout   \* seconds to the first retry, 4 in the code

VARIABLES
  host,       \* what a query is about: a name, an address, or a name that
              \* irc_res_mkquery cannot put into a question
  open,       \* there is a socket and the event timeout_resolver
  request,    \* the request of a query, NoRequest if it has none
  result,     \* what its callback was given
  questions,  \* questions nameservers have got and may answer, once or more
  due,        \* requests the walk of timeout_query_list has still to visit
  reused      \* history: an id was taken that an unanswered question has

vars == <<host, open, request, result, questions, due, reused>>

Retries == 3
NoRequest == [state |-> "none"]
Waiting == {q \in Queries : request[q] # NoRequest}
Untold == [is |-> "untold"]
Failed == [is |-> "failed"]
\* A reply without an address: no record of proc_answer's message had one.
Empty == [is |-> "empty"]
Address(m) == [is |-> "address", of |-> m.q, type |-> m.type]

\* start_resolver adds the event only with a socket.
Init ==
  /\ host \in [Queries -> {"name", "address", "bad"}]
  /\ open \in BOOLEAN
  /\ request = [q \in Queries |-> NoRequest]
  /\ result = [q \in Queries |-> Untold]
  /\ questions = {} /\ due = {} /\ reused = FALSE

-----------------------------------------------------------------------------

LiveIds == {request[q].id : q \in Waiting}
Unanswered == {m.id : m \in questions}

\* Ids that find_id does not know.  Those no question has are alike.
FreeIds ==
  LET fresh == Ids \ (Unanswered \cup LiveIds)
  IN  {i \in fresh : \A j \in fresh : i <= j} \cup (Unanswered \ LiveIds)

\* Mutant: the id is not looked for among the requests.
QueryNameMutant(q, r, type) ==
  IF host[q] = "bad"
  THEN /\ request' = [request EXCEPT ![q] = [r EXCEPT !.type = type]]
       /\ reused' = (reused \/ r.id \in Unanswered)
       /\ UNCHANGED questions
  ELSE \E id \in Ids :
    /\ request' = [request EXCEPT ![q] = [r EXCEPT !.type = type, !.id = id]]
    /\ questions' = IF open THEN questions \cup {[id |-> id, q |-> q, type |-> type]} ELSE questions
    /\ reused' = (reused \/ id \in Unanswered \ LiveIds)

\* do_query_name with query_name and send_res_msg: a question with a new id.
QueryName(q, r, type) ==
  IF host[q] = "bad"
  THEN /\ request' = [request EXCEPT ![q] = [r EXCEPT !.type = type]]
       /\ reused' = (reused \/ r.id \in Unanswered)
       /\ UNCHANGED questions
  ELSE \E id \in FreeIds :
    /\ request' = [request EXCEPT ![q] = [r EXCEPT !.type = type, !.id = id]]
    /\ questions' = IF open THEN questions \cup {[id |-> id, q |-> q, type |-> type]} ELSE questions
    /\ reused' = (reused \/ id \in Unanswered)

\* make_request, in state REQ_AAAA.
NewRequest == [state |-> "AAAA", type |-> "AAAA", id |-> 0, retries |-> Retries,
               age |-> 0, timeout |-> FirstTimeout]

\* comm_connect_tcp: no lookup of an address, else gethost_byname.
Connect(q) ==
  /\ due = {} /\ request[q] = NoRequest /\ result[q] = Untold
  /\ IF host[q] = "address"
     THEN result' = [result EXCEPT ![q] = Address([q |-> q, type |-> "A"])]
          /\ UNCHANGED <<request, questions, reused>>
     ELSE QueryName(q, NewRequest, "AAAA") /\ UNCHANGED result
  /\ UNCHANGED <<host, open, due>>

\* resend_query: after the IPv6 address the IPv4 address is asked for.
ResendQuery(q, r) == QueryName(q, r, "A")

\* The callback of the query, then rem_request.
Finish(q, what) ==
  /\ result' = [result EXCEPT ![q] = what]
  /\ request' = [request EXCEPT ![q] = NoRequest]

-----------------------------------------------------------------------------
(* timeout_resolver, every second *)

\* A second passes; the requests whose time is up are visited one by one.
Tick ==
  /\ open /\ due = {} /\ Waiting # {}
  /\ request' = [q \in Queries |->
       IF q \in Waiting THEN [request[q] EXCEPT !.age = @ + 1] ELSE NoRequest]
  /\ due' = {q \in Waiting : request'[q].age >= request'[q].timeout}
  /\ UNCHANGED <<host, open, result, questions, reused>>

\* Mutant: the last retry removes the request without a word.
TimeoutQueryMutant(q) ==
  LET r == [request[q] EXCEPT !.retries = @ - 1]
  IN  /\ q \in due /\ due' = due \ {q}
      /\ IF r.retries = 0
         THEN request' = [request EXCEPT ![q] = NoRequest] /\ UNCHANGED <<result, questions, reused>>
         ELSE ResendQuery(q, [r EXCEPT !.age = 0, !.timeout = @ + @]) /\ UNCHANGED result
      /\ UNCHANGED <<host, open>>

\* timeout_query_list, for one request.
TimeoutQuery(q) ==
  LET r == [request[q] EXCEPT !.retries = @ - 1]
  IN  /\ q \in due /\ due' = due \ {q}
      /\ IF r.retries = 0 THEN Finish(q, Failed) /\ UNCHANGED <<questions, reused>>
         ELSE ResendQuery(q, [r EXCEPT !.age = 0, !.timeout = @ + @]) /\ UNCHANGED result
      /\ UNCHANGED <<host, open>>

-----------------------------------------------------------------------------
(* Answers *)

\* What a nameserver may say: the address, that there is no such name, another
\* error or no record at all, an alias or another kind of address or something
\* broken, a record of a type proc_answer does not know or a cut one.
Answers == {"address", "nxdomain", "error", "unusable", "strange"}

\* proc_answer: "0" and "1" with or without an address.
ProcAnswer(r, m, answer) ==
  CASE answer = "address" /\ m.type = r.type -> Address(m)
    [] answer = "strange" -> Empty
    [] OTHER -> Untold

\* res_readreply, for an answer to question m
ReadReply(m, answer) ==
  /\ due = {} /\ m \in questions
  /\ \E q \in Waiting :
       /\ request[q].id = m.id
       /\ LET r == request[q]
              asks == r.state = "AAAA" /\ r.type = "AAAA"
          IN  CASE answer = "nxdomain" /\ asks ->
                     ResendQuery(q, [r EXCEPT !.timeout = @ + FirstTimeout]) /\ UNCHANGED result
                [] answer = "error" \/ (answer = "nxdomain" /\ ~asks) ->
                     Finish(q, Failed) /\ UNCHANGED <<questions, reused>>
                [] OTHER -> /\ ProcAnswer(r, m, answer) # Untold
                            /\ Finish(q, ProcAnswer(r, m, answer))
                            /\ UNCHANGED <<questions, reused>>
  /\ UNCHANGED <<host, open, due>>

-----------------------------------------------------------------------------

Next ==
  \/ \E q \in Queries : Connect(q) \/ TimeoutQuery(q)
  \/ Tick
  \/ \E m \in questions, answer \in Answers : ReadReply(m, answer)

Spec == Init /\ [][Next]_vars

\* The event loop runs timeout_resolver every second.
FairSpec == Spec /\ WF_vars(Tick) /\ WF_vars(\E q \in Queries : TimeoutQuery(q))

-----------------------------------------------------------------------------

\* The address a lookup ends with is its own name's, not that of another
\* lookup or of an earlier question of another one, unless an id came back
\* while an answer to it was under way; and no answer finds a lookup that has
\* ended.  (query_name, find_id, proc_answer, rem_request)
AnswersAreOwn ==
  \A q \in Queries :
    /\ result[q].is = "address" /\ ~reused => result[q].of = q
    /\ result[q] # Untold => request[q] = NoRequest

\* A lookup ends whatever becomes of its questions, if the resolver has its
\* socket: comm_connect_tcp sets no other timeout before it has an address.
\* (timeout_query_list, start_resolver)
LookupsEnd == \A q \in Queries : (open /\ request[q] # NoRequest) ~> result[q] # Untold
=============================================================================
