------------------------------ MODULE Database ------------------------------
(***************************************************************************)
(* The database layer: dbm.c, which reconnects before a statement when the *)
(* connection is known to be lost, and modules/pgsql.c on libpq, under the *)
(* functions of nickname.c, group.c and dbchannel.c that run transactions. *)
(* The server's session and what libpq thinks of it are separate: a loss   *)
(* shows only when something is sent or read.  A write is the place of its *)
(* statement in the function that runs.                                    *)
(***************************************************************************)
EXTENDS Naturals, Sequences

CONSTANTS
  QUERY_COUNT,   \* statements of pgsql.c, prepared by every connect
  MaxPrepared,   \* bound: statements a script prepares in addition
  MaxAttempts,   \* attempts to reconnect, 30 in the code
  Values         \* what a column is set to

VARIABLES
  conn,        \* up: the session lives; ok: PQstatus says so; armed: consumeInput waits
  tx,          \* the session's transaction: idle, open or aborted
  pending,     \* writes of the open transaction
  prepared,    \* statements the session knows
  last_index,  \* database->last_index
  handed,      \* ids db_prepare has returned, dynamic_queries
  attempts,    \* num_attempts of a db_try_reconnect under way
  died,        \* services_die or a failed assertion ended the process
  call,        \* the functions that run, outermost first
  kept,        \* writes of this call the database has for good
  done,        \* writes of this call reported as done
  told,        \* what the last call returned
  torn,        \* history: the connection was lost during the call
  row, cached, \* a column of a row, and a struct's copy of it
  unsure       \* history: the connection was lost while the column was set

vars == <<conn, tx, pending, prepared, last_index, handed, attempts, died,
          call, kept, done, told, torn, row, cached, unsure>>

session == <<conn, tx, pending, prepared, attempts, died>>
column == <<row, cached, unsure>>
dynamic == <<last_index, handed>>

\* The statements between BEGIN and COMMIT of each function.  A failing "write"
\* or "read" goes to failure; "late" goes on and fails in the end; a "find" that
\* fails or finds nothing skips the next statement; "delete" is a call of
\* nickname_delete whose result is ignored.
nickname_register == <<"id", "write", "id", "write", "assert", "write">>
nickname_delete == <<"read", "write", "write", "write", "write">>
nickname_forbid == <<"find", "delete", "write">>
nickname_link == <<"write", "write", "write", "write">>
nickname_unlink == <<"write", "id", "read", "write", "write", "write">>
nickname_save == <<"write", "write">>
nickname_reset_pass == <<"late", "late">>
group_register == <<"write", "id", "write">>
dbchannel_register == <<"write", "id", "write">>
dbchannel_forbid == <<"find", "write", "write">>

\* pg_nextid and pg_insertid return 0 when their query fails, which nobody takes
\* for an error; nickname_register asserts the last one ("assert").
Ids == {"id", "assert"}

Script ==
  [nickname_register |-> nickname_register, nickname_delete |-> nickname_delete,
   nickname_forbid |-> nickname_forbid, nickname_link |-> nickname_link,
   nickname_unlink |-> nickname_unlink, nickname_save |-> nickname_save,
   nickname_reset_pass |-> nickname_reset_pass, group_register |-> group_register,
   dbchannel_register |-> dbchannel_register, dbchannel_forbid |-> dbchannel_forbid]

Handlers == DOMAIN Script
Builtin == 0 .. QUERY_COUNT - 1
Handed == {handed[i] : i \in DOMAIN handed}

\* init_db ends the process unless the first connect succeeds.
Init ==
  /\ conn = [up |-> TRUE, ok |-> TRUE, armed |-> TRUE]
  /\ tx = "idle" /\ pending = {} /\ prepared = Builtin
  /\ last_index = 0 /\ handed = <<>>
  /\ attempts = 0 /\ died = FALSE
  /\ call = <<>> /\ kept = {} /\ done = {} /\ told = "none" /\ torn = FALSE
  /\ row = "none" /\ cached \in Values /\ unsure = FALSE

-----------------------------------------------------------------------------
(* The connection. *)

\* The server restarts or the network fails; libpq does not know yet.
Lose ==
  /\ conn.up /\ ~died
  /\ conn' = [conn EXCEPT !.up = FALSE]
  /\ tx' = "idle" /\ pending' = {} /\ prepared' = {}
  /\ torn' = (torn \/ call # <<>>)
  /\ UNCHANGED <<dynamic, attempts, died, call, kept, done, told, column>>

\* The handler is not set again, so this happens once per connection.
consumeInput ==
  /\ call = <<>> /\ ~died /\ conn.ok /\ conn.armed
  /\ conn' = [conn EXCEPT !.ok = conn.up, !.armed = FALSE]
  /\ UNCHANGED <<tx, pending, prepared, attempts, died, dynamic, call, kept, done, told, torn, column>>

\* Mutant: the statements of scripts are not prepared again.
pg_connectMutant ==
  /\ conn' = [up |-> TRUE, ok |-> TRUE, armed |-> TRUE]
  /\ prepared' = Builtin
  /\ tx' = "idle" /\ pending' = {}

\* A reset session, with what db_try_reconnect prepares after it.
pg_connect ==
  /\ conn' = [up |-> TRUE, ok |-> TRUE, armed |-> TRUE]
  /\ prepared' = Builtin \cup Handed
  /\ tx' = "idle" /\ pending' = {}

\* Every db_ function reconnects first when PQstatus is bad, and nothing else
\* runs meanwhile.
db_try_reconnect ==
  /\ ~died /\ ~conn.ok
  /\ \/ pg_connect /\ attempts' = 0 /\ UNCHANGED died
     \/ /\ attempts + 1 < MaxAttempts /\ attempts' = attempts + 1
        /\ UNCHANGED <<conn, tx, pending, prepared, died>>
     \/ /\ attempts + 1 = MaxAttempts /\ attempts' = 0 /\ died' = TRUE
        /\ UNCHANGED <<conn, tx, pending, prepared>>
  /\ UNCHANGED <<dynamic, call, kept, done, told, torn, column>>

\* Mutant: a prepared statement leaves last_index where it was.
db_prepareMutant ==
  LET id == IF last_index = 0 THEN QUERY_COUNT ELSE last_index
  IN  /\ call = <<>> /\ ~died /\ attempts = 0 /\ Len(handed) < MaxPrepared
      /\ last_index' = id /\ handed' = Append(handed, id)
      /\ prepared' = prepared \cup {id} /\ conn.up
      /\ UNCHANGED <<conn, tx, pending, attempts, died, call, kept, done, told, torn, column>>

\* Prepare of a script: no reconnect; a failure gives the id back.
db_prepare ==
  LET id == IF last_index = 0 THEN QUERY_COUNT ELSE last_index
  IN  /\ call = <<>> /\ ~died /\ attempts = 0 /\ Len(handed) < MaxPrepared
      /\ \/ /\ conn.up
            /\ last_index' = id + 1 /\ handed' = Append(handed, id)
            /\ prepared' = prepared \cup {id} /\ UNCHANGED conn
         \/ /\ last_index' = id /\ UNCHANGED <<handed, prepared>>
            /\ conn' = [conn EXCEPT !.ok = conn.ok /\ conn.up]
      /\ UNCHANGED <<tx, pending, attempts, died, call, kept, done, told, torn, column>>

-----------------------------------------------------------------------------
(* Statements.  Each says what it does to the session, and how it ends. *)

\* A statement that writes ws is executed.
Done(ws) ==
  /\ conn.up /\ tx # "aborted"
  /\ kept' = IF tx = "idle" THEN kept \cup ws ELSE kept
  /\ pending' = IF tx = "idle" THEN pending ELSE pending \cup ws
  /\ done' = done \cup ws
  /\ UNCHANGED <<conn, tx, prepared, torn>>

\* The server refuses it, which aborts an open transaction.
Refused ==
  /\ conn.up
  /\ tx' = IF tx = "idle" THEN "idle" ELSE "aborted"
  /\ pending' = {}
  /\ UNCHANGED <<conn, prepared, torn, kept, done>>

\* There is no session any more, and libpq finds out.
Unsent ==
  /\ ~conn.up
  /\ conn' = [conn EXCEPT !.ok = FALSE] /\ torn' = TRUE
  /\ UNCHANGED <<tx, pending, prepared, kept, done>>

\* The server does what gives ws for good, and the answer is lost.
Unanswered(ws) ==
  /\ conn.up
  /\ conn' = [conn EXCEPT !.up = FALSE, !.ok = FALSE] /\ torn' = TRUE
  /\ tx' = "idle" /\ pending' = {} /\ prepared' = {}
  /\ kept' = kept \cup ws
  /\ UNCHANGED done

-----------------------------------------------------------------------------
(* The functions that run transactions. *)

Top == call[Len(call)]
Goes == call # <<>> /\ ~died /\ conn.ok
Go(pc) == call' = [call EXCEPT ![Len(call)].pc = pc]
Frame(f) == [f |-> f, pc |-> 0, bad |-> FALSE]

\* Return to the caller: nickname_forbid goes on whatever it is told.
Return(result) ==
  IF Len(call) = 1
  THEN call' = <<>> /\ told' = result
  ELSE call' = [SubSeq(call, 1, Len(call) - 1) EXCEPT ![Len(call) - 1].pc = @ + 1] /\ UNCHANGED told

\* The way a statement that failed leads.
Fail == call' = [call EXCEPT ![Len(call)] = [@ EXCEPT !.pc = Len(Script[Top.f]) + 1, !.bad = TRUE]]

Start(f) ==
  /\ call = <<>> /\ ~died /\ attempts = 0
  /\ call' = <<Frame(f)>>
  /\ kept' = {} /\ done' = {} /\ told' = "none" /\ torn' = FALSE
  /\ UNCHANGED <<session, dynamic, column>>

\* The result of BEGIN is ignored; inside a transaction it is a warning.
db_begin_transaction ==
  /\ Goes /\ Top.pc = 0 /\ Go(1)
  /\ \/ /\ conn.up /\ tx' = (IF tx = "idle" THEN "open" ELSE tx)
        /\ UNCHANGED <<conn, pending, prepared, kept, done, torn>>
     \/ Unsent
  /\ UNCHANGED <<attempts, died, dynamic, told, column>>

Step ==
  /\ Goes /\ Top.pc \in DOMAIN Script[Top.f]
  /\ LET kind == Script[Top.f][Top.pc]
         ws == IF kind \in {"write", "late"} THEN {<<Top.f, Top.pc>>} ELSE {}
         broken == Refused \/ Unsent \/ Unanswered(IF tx = "idle" THEN ws ELSE {})
         \* nickname_delete: which of the writes there are depends on the links.
         short == Top.f = "nickname_delete" /\ Top.pc < 5
     IN  \/ /\ kind # "delete" /\ Done(ws)
            /\ \/ Go(Top.pc + 1)
               \/ kind = "find" /\ Go(Top.pc + 2)
               \/ short /\ ws # {} /\ Go(6)
            /\ UNCHANGED died
         \/ /\ kind \in {"write", "read"} /\ broken /\ Fail /\ UNCHANGED died
         \/ /\ kind \in Ids /\ broken /\ Go(Top.pc + 1) /\ died' = (kind = "assert")
         \/ /\ kind = "find" /\ broken /\ Go(Top.pc + 2) /\ UNCHANGED died
         \/ /\ kind = "late" /\ broken /\ UNCHANGED died
            /\ call' = [call EXCEPT ![Len(call)] = [@ EXCEPT !.pc = Top.pc + 1, !.bad = TRUE]]
         \/ /\ kind = "delete" /\ call' = Append(call, Frame("nickname_delete"))
            /\ UNCHANGED <<conn, tx, pending, prepared, kept, done, torn, died>>
  /\ UNCHANGED <<attempts, dynamic, told, column>>

\* COMMIT of an aborted transaction rolls back and is no error, and without a
\* transaction it is a warning.  nickname_reset_pass ignores the result.
db_commit_transaction ==
  /\ Goes /\ Top.pc = Len(Script[Top.f]) + 1 /\ ~Top.bad
  /\ LET end(result) == Return(IF Top.f = "nickname_reset_pass" THEN "yes" ELSE result)
         checked == Top.f \in {"nickname_register", "group_register"}
     IN  \/ /\ conn.up /\ end("yes")
            /\ kept' = kept \cup pending /\ tx' = "idle" /\ pending' = {}
            /\ UNCHANGED <<conn, prepared, torn, done>>
         \/ /\ conn.up /\ tx = "open" /\ tx' = "idle" /\ pending' = {}
            /\ IF checked THEN Fail /\ UNCHANGED told ELSE end("no")
            /\ UNCHANGED <<conn, prepared, torn, kept, done>>
         \/ /\ Unsent \/ Unanswered(pending)
            /\ IF checked THEN Fail /\ UNCHANGED told ELSE end("no")
  /\ UNCHANGED <<attempts, died, dynamic, column>>

\* Mutant: ROLLBACK is forgotten.
db_rollback_transactionMutant ==
  /\ Goes /\ Top.pc = Len(Script[Top.f]) + 1 /\ Top.bad
  /\ Return("no")
  /\ UNCHANGED <<conn, tx, pending, prepared, torn, kept, done, attempts, died, dynamic, column>>

\* ROLLBACK without a transaction, after a lost connection, is a warning.
db_rollback_transaction ==
  /\ Goes /\ Top.pc = Len(Script[Top.f]) + 1 /\ Top.bad
  /\ Return("no")
  /\ \/ /\ conn.up /\ tx' = "idle" /\ pending' = {}
        /\ UNCHANGED <<conn, prepared, torn, kept, done>>
     \/ Unsent
  /\ UNCHANGED <<attempts, died, dynamic, column>>

-----------------------------------------------------------------------------
(* The setters of the structs, each one statement outside a transaction. *)

\* Mutant: the copy is set whatever becomes of the statement.
UpdateMutant(v) ==
  /\ call = <<>> /\ ~died /\ conn.ok /\ conn.up
  /\ cached' = v /\ row' \in {row} \cup (IF row \in Values THEN {v} ELSE {})
  /\ UNCHANGED <<conn, unsure, prepared>>
  /\ UNCHANGED <<tx, pending, attempts, died, dynamic, call, kept, done, told, torn>>

\* Only a statement that changed a row changes the copy.
Update(v) ==
  /\ call = <<>> /\ ~died /\ conn.ok
  /\ \/ /\ conn.up /\ row \in Values /\ row' = v /\ cached' = v
        /\ UNCHANGED <<conn, unsure, prepared>>
     \/ /\ conn.up /\ UNCHANGED <<conn, column, prepared>>   \* refused, or no row
     \/ /\ ~conn.up /\ conn' = [conn EXCEPT !.ok = FALSE] /\ UNCHANGED <<column, prepared>>
     \/ /\ conn.up /\ row \in Values /\ row' = v /\ unsure' = TRUE
        /\ conn' = [conn EXCEPT !.up = FALSE, !.ok = FALSE]
        /\ prepared' = {} /\ UNCHANGED cached
  /\ UNCHANGED <<tx, pending, attempts, died, dynamic, call, kept, done, told, torn>>

\* Before the registration a struct has the id 0 and some setters only set it.
Prepare(v) ==
  /\ call = <<>> /\ ~died /\ row = "none" /\ cached' = v
  /\ UNCHANGED <<session, dynamic, call, kept, done, told, torn, row, unsure>>

\* pass, salt and email may be set early; description and last_used; email and desc.
SetNickname(v) == Prepare(v) \/ Update(v)
SetDBChannel(v) == Prepare(v) \/ Update(v)
SetGroup(v) == Prepare(v) \/ Update(v)

\* The INSERT of a registration takes the struct's values.
InsertRow ==
  /\ call = <<>> /\ ~died /\ conn.ok /\ conn.up /\ row = "none" /\ row' = cached
  /\ UNCHANGED <<session, dynamic, call, kept, done, told, torn, cached, unsure>>

\* Another copy of the row is used to delete it.
DropRow ==
  /\ call = <<>> /\ ~died /\ row \in Values /\ row' = "gone"
  /\ UNCHANGED <<session, dynamic, call, kept, done, told, torn, cached, unsure>>

-----------------------------------------------------------------------------

Next ==
  \/ Lose \/ consumeInput \/ db_try_reconnect \/ db_prepare
  \/ \E f \in Handlers : Start(f)
  \/ db_begin_transaction \/ Step \/ db_commit_transaction \/ db_rollback_transaction
  \/ \E v \in Values : SetNickname(v) \/ SetDBChannel(v) \/ SetGroup(v)
  \/ InsertRow \/ DropRow

Spec == Init /\ [][Next]_vars

-----------------------------------------------------------------------------

Inner(ws) == {w \in ws : w[1] = "nickname_delete"}

\* The writes of a function that returned are all kept if it returned TRUE and
\* none is kept otherwise, and no transaction is left open for the next
\* function's statements to be lost in.  This is so in spite of the ids whose
\* failure nobody sees, and except that a lost connection tears the
\* transaction (dbm.c goes on without one), that nickname_reset_pass returns
\* TRUE when COMMIT failed, and that nickname_forbid runs nickname_delete in
\* its transaction: only the deletion is whole there.
CallsAreWhole ==
  call = <<>> /\ ~died =>
    /\ tx = "idle"
    /\ told # "none" /\ ~torn =>
         CASE "nickname_forbid" \in {w[1] : w \in done} \/ Inner(done) # {} ->
                Inner(kept) \in {{}, Inner(done)}
           [] "nickname_reset_pass" \in {w[1] : w \in done} ->
                kept \in {{}, done} /\ (told = "no" => kept = {})
           [] OTHER -> kept = IF told = "yes" THEN done ELSE {}

\* Whatever was prepared is there to be executed in every session, under an id
\* no other statement has.
StatementsStayPrepared ==
  /\ conn.up => prepared = Builtin \cup Handed
  /\ \A i, j \in DOMAIN handed : handed[i] = handed[j] => i = j
  /\ Handed \cap Builtin = {}

\* A struct shows what its row has unless the answer to a setter was lost.
CopiesAgree == row \in {"none", "gone"} \/ unsure \/ cached = row

\* What the services take for granted of the database layer.
TransactionsHold == CallsAreWhole /\ StatementsStayPrepared /\ CopiesAgree
=============================================================================
