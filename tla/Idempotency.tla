---------------------------- MODULE Idempotency ----------------------------
(***************************************************************************)
(* PostgresIdempotencyStore.execute (src/api/state.py): every mutation of  *)
(* the API runs inside it.  A request reserves its key, executes its       *)
(* action, records the result; an exception gives the reservation back.    *)
(* Each of these is a transaction of its own, so requests with one key     *)
(* interleave, the database may fail between them and the process may die. *)
(*                                                                         *)
(* The action is the business of the module that extends this one: a       *)
(* request enters it at pc "act" and leaves it by Succeed or Fail.         *)
(***************************************************************************)
EXTENDS Naturals

CONSTANTS
  Requests,        \* executions: a retry is another request with the same key
  NoRequest,
  KeyOf,           \* request -> its Idempotency-Key
  BodyOf,          \* request -> its payload, told apart by its digest
  MaxTrouble       \* bound: failures of the database and deaths of a process

Keys == {KeyOf[r] : r \in Requests}

ASSUME IdempotencyAssumption ==
  /\ NoRequest \notin Requests
  /\ DOMAIN KeyOf = Requests /\ DOMAIN BodyOf = Requests
  /\ MaxTrouble \in Nat

VARIABLES
  records,   \* key -> its row of api_idempotency_records
  calls,     \* request -> how far it is, whether it holds the reservation, its answer
  trouble    \* failures and deaths so far

idempotencyVars == <<records, calls, trouble>>

NoRecord == [state |-> "none", by |-> NoRequest, result |-> NoRequest]
NewCall == [pc |-> "new", inserted |-> FALSE, answer |-> "none", result |-> NoRequest]

IdempotencyInit ==
  /\ records = [k \in Keys |-> NoRecord]
  /\ calls = [r \in Requests |-> NewCall]
  /\ trouble = 0

Record(r) == records[KeyOf[r]]
At(r, pc) == calls[r].pc = pc
Become(r, pc) == calls' = [calls EXCEPT ![r].pc = pc]
\* The answer the client gets; a result is named after the request that made it.
Answer(r, answer, result) ==
  calls' = [calls EXCEPT ![r].pc = "done", ![r].answer = answer, ![r].result = result]

(* Mutant of Reserve: a row of another request is taken over.              *)
ReserveAnyway(r) ==
  /\ At(r, "reserve")
  /\ records' = [records EXCEPT ![KeyOf[r]] =
                   [state |-> "running", by |-> r, result |-> NoRequest]]
  /\ calls' = [calls EXCEPT ![r].pc = "inspect", ![r].inserted = TRUE]
  /\ UNCHANGED trouble

(* INSERT ... ON CONFLICT DO NOTHING.                                      *)
Reserve(r) ==
  LET free == Record(r).state = "none" IN
  /\ At(r, "reserve")
  /\ records' = IF free THEN [records EXCEPT ![KeyOf[r]] =
                                [state |-> "running", by |-> r, result |-> NoRequest]]
                        ELSE records
  /\ calls' = [calls EXCEPT ![r].pc = "inspect", ![r].inserted = free]
  /\ UNCHANGED trouble

(* The row the following SELECT meets is gone again, or for this payload.  *)
Gone(r) == Record(r).state = "none"
Mine(r) == ~ Gone(r) /\ BodyOf[Record(r).by] = BodyOf[r]

(* Mutant of Inspect: the digest of the payload is not compared.           *)
InspectKeyOnly(r) ==
  /\ At(r, "inspect")
  /\ \/ Gone(r) /\ Answer(r, "error", NoRequest)
     \/ calls[r].inserted /\ Become(r, "act")
     \/ /\ ~ calls[r].inserted
        /\ \/ Record(r).state = "completed" /\ Answer(r, "ok", Record(r).result)
           \/ Record(r).state = "running" /\ Answer(r, "in_progress", NoRequest)
  /\ UNCHANGED <<records, trouble>>

Inspect(r) ==
  /\ At(r, "inspect")
  /\ \/ Gone(r) /\ Answer(r, "error", NoRequest)
     \/ ~ Gone(r) /\ ~ Mine(r) /\ Answer(r, "conflict", NoRequest)
     \/ Mine(r) /\ calls[r].inserted /\ Become(r, "act")
     \/ /\ Mine(r) /\ ~ calls[r].inserted
        /\ \/ Record(r).state = "completed" /\ Answer(r, "ok", Record(r).result)
           \/ Record(r).state = "running" /\ Answer(r, "in_progress", NoRequest)
  /\ UNCHANGED <<records, trouble>>

(* How the action ends.                                                    *)
Succeed(r, result) == calls' = [calls EXCEPT ![r].pc = "complete", ![r].result = result]
Fail(r, answer) ==
  calls' = [calls EXCEPT ![r].pc = "undo", ![r].answer = answer, ![r].result = NoRequest]

Owns(r) == Record(r).state = "running" /\ Record(r).by = r

(* UPDATE ... WHERE owner_token: without the row it is an error.           *)
RecordResult(r) ==
  records' = [records EXCEPT ![KeyOf[r]].state = "completed",
                             ![KeyOf[r]].result = calls[r].result]
Complete(r) ==
  /\ At(r, "complete")
  /\ IF Owns(r)
     THEN /\ RecordResult(r)
          /\ Answer(r, "ok", calls[r].result)
     ELSE Fail(r, "error") /\ UNCHANGED records
  /\ UNCHANGED trouble

(* Mutant of Undo: the row is deleted whatever its state is.               *)
UndoAnyState(r) ==
  /\ At(r, "undo")
  /\ records' = IF Record(r).by = r THEN [records EXCEPT ![KeyOf[r]] = NoRecord] ELSE records
  /\ Answer(r, calls[r].answer, NoRequest)
  /\ UNCHANGED trouble

(* The except branch: the reservation is given back, the error raised; a   *)
(* result that was recorded after all stays.                               *)
Undo(r) ==
  /\ At(r, "undo")
  /\ records' = IF Owns(r) THEN [records EXCEPT ![KeyOf[r]] = NoRecord] ELSE records
  /\ Answer(r, calls[r].answer, NoRequest)
  /\ UNCHANGED trouble

Trouble == trouble < MaxTrouble /\ trouble' = trouble + 1

(* The database fails: before the reservation or in the except branch the  *)
(* error goes to the client, in between the except branch is taken.  The   *)
(* result may have been recorded although its transaction failed.          *)
DatabaseFails(r, inAction) ==
  /\ Trouble
  /\ \/ calls[r].pc \in inAction \cup {"complete"} /\ Fail(r, "error") /\ UNCHANGED records
     \/ At(r, "complete") /\ Owns(r) /\ RecordResult(r) /\ Fail(r, "error")
     \/ /\ calls[r].pc \in {"reserve", "inspect", "undo"} /\ Answer(r, "error", NoRequest)
        /\ UNCHANGED records

ProcessDies(r) ==
  /\ calls[r].pc \notin {"new", "done", "dead"}
  /\ Trouble
  /\ Become(r, "dead")
  /\ UNCHANGED records

Execute(r) == Reserve(r) \/ Inspect(r) \/ Complete(r) \/ Undo(r)

-----------------------------------------------------------------------------
(* Properties                                                              *)

\* Between its reservation and the end of execute's try block.
Executing(r) == calls[r].pc \notin {"new", "reserve", "inspect", "undo", "done", "dead"}

(* Of the requests with one key at most one executes its action at a time, *)
(* and only while its reservation stands (execute's unique key and owner   *)
(* token).                                                                 *)
OneRunPerKey ==
  \A r \in Requests : Executing(r) =>
    /\ Owns(r)
    /\ \A s \in Requests : Executing(s) /\ KeyOf[s] = KeyOf[r] => s = r

(* A key stands for one result: whoever is told of success under it, the   *)
(* first request or a repetition, has what is recorded for an identical    *)
(* request, and it stays: no other request replaces it, nor does the one   *)
(* that recorded it take it back when the database fails in the very end   *)
(* ("retry recovery"; the except branch deletes a running row only).       *)
RepeatsAgree ==
  \A r \in Requests : At(r, "done") /\ calls[r].answer = "ok" =>
    /\ Record(r).state = "completed" /\ Record(r).result = calls[r].result
    /\ BodyOf[Record(r).by] = BodyOf[r]

=============================================================================
