------------------------- MODULE IdempotencyProofs -------------------------
(***************************************************************************)
(* What the reservation of a key promises, whatever is executed under it.  *)
(*                                                                         *)
(* ReservationSpec is Idempotency with an action left open: a request may  *)
(* work as long as it likes, alone or while others do, and then succeed or *)
(* fail; database and processes may fail at any time, several requests at  *)
(* once with their process.  What is proved of it here holds of every      *)
(* mutation of the API: the modules that prove things of CandidateReview,  *)
(* Reanalysis and ModelRegistry show that each of them implements it.      *)
(***************************************************************************)
EXTENDS Idempotency, TLAPS

Rows ==
  [state: {"none", "running", "completed"}, by: Requests \cup {NoRequest},
   result: Requests \cup {NoRequest}]

\* The shape of the requests; answers, and the places in an action, may have any name.
Shape(places, answers) ==
  [Requests -> [pc: places, inserted: BOOLEAN, answer: answers,
                result: Requests \cup {NoRequest}]]
Conducts == \E places, answers : calls \in Shape(places, answers)
Conducted == Conducts /\ records \in [Keys -> Rows]

-----------------------------------------------------------------------------
(* The specification.                                                      *)

\* Request r alone goes on, in a way that is its own business.
StepsAlone(r) ==
  /\ Conducts'
  /\ \A q \in Requests \ {r} : calls'[q] = calls[q]
  /\ UNCHANGED records

(* It comes to reserve its key, or is refused before.                      *)
EntryStep(r) ==
  /\ At(r, "new") /\ StepsAlone(r)
  /\ \/ At(r, "reserve")'
     \/ At(r, "done")' /\ calls'[r].answer # "ok"

(* It takes a step of its action, which may be the last one.               *)
ActionStep(r) ==
  /\ Executing(r) /\ ~ At(r, "complete") /\ StepsAlone(r)
  /\ \/ Executing(r)'
     \/ At(r, "undo")' /\ calls'[r].answer # "ok"

AtWork(r) == IF Executing(r) THEN {calls[r].pc} ELSE {}

(* Any requests die with their process.                                    *)
Die ==
  /\ Conducts' /\ UNCHANGED records
  /\ \A r \in Requests : calls'[r] = calls[r] \/ At(r, "dead")'

ReservationStep ==
  \/ \E r \in Requests :
       EntryStep(r) \/ ActionStep(r) \/ Execute(r) \/ DatabaseFails(r, AtWork(r))
  \/ Die

ReservationSpec == IdempotencyInit /\ [][ReservationStep]_<<records, calls>>

-----------------------------------------------------------------------------
(* The invariant.                                                          *)

\* A request between its reservation and its result owns the row, and one
\* that gives up does not answer with success.
Entitled(r) ==
  /\ Executing(r) \/ (At(r, "inspect") /\ calls[r].inserted) => Owns(r)
  /\ At(r, "undo") => calls[r].answer # "ok"

ReservationInv ==
  /\ Conducted
  /\ \A r \in Requests : Entitled(r)
  /\ RepeatsAgree

\* Request r alone moves: to pc, with this answer and result.
Turns(r, pc, answer, result) ==
  /\ Conducts'
  /\ calls'[r].pc = pc /\ calls'[r].answer = answer /\ calls'[r].result = result
  /\ \A q \in Requests \ {r} : calls'[q] = calls[q]

LEMMA Wider ==
  ASSUME Conducted, NEW pc, NEW a
  PROVE  \E places, answers : calls \in Shape(places \cup {pc}, answers \cup {a})
  BY DEF Conducted, Conducts, Shape

LEMMA BecomeTurns ==
  ASSUME Conducted, NEW r \in Requests, NEW pc, Become(r, pc)
  PROVE  /\ Turns(r, pc, calls[r].answer, calls[r].result)
         /\ calls'[r].inserted = calls[r].inserted
<1>1. PICK places, answers : calls \in Shape(places \cup {pc}, answers \cup {calls[r].answer})
  BY Wider
<1>2. calls' \in Shape(places \cup {pc}, answers \cup {calls[r].answer})
  BY <1>1 DEF Shape, Become
<1> QED
  BY <1>1, <1>2 DEF Turns, Conducts, Shape, Become

LEMMA AnswerTurns ==
  ASSUME Conducted, NEW r \in Requests, NEW a,
         NEW result \in Requests \cup {NoRequest}, Answer(r, a, result)
  PROVE  Turns(r, "done", a, result)
<1>1. PICK places, answers : calls \in Shape(places \cup {"done"}, answers \cup {a})
  BY Wider
<1>2. calls' \in Shape(places \cup {"done"}, answers \cup {a})
  BY <1>1 DEF Shape, Answer
<1> QED
  BY <1>1, <1>2 DEF Turns, Conducts, Shape, Answer

LEMMA FailTurns ==
  ASSUME Conducted, NEW r \in Requests, NEW a, Fail(r, a)
  PROVE  Turns(r, "undo", a, NoRequest)
<1>1. PICK places, answers : calls \in Shape(places \cup {"undo"}, answers \cup {a})
  BY Wider
<1>2. calls' \in Shape(places \cup {"undo"}, answers \cup {a})
  BY <1>1 DEF Shape, Fail
<1> QED
  BY <1>1, <1>2 DEF Turns, Conducts, Shape, Fail

LEMMA InsertedTurns ==
  ASSUME Conducted, NEW r \in Requests, NEW b \in BOOLEAN,
         calls' = [calls EXCEPT ![r].pc = "inspect", ![r].inserted = b]
  PROVE  Turns(r, "inspect", calls[r].answer, calls[r].result) /\ calls'[r].inserted = b
<1>1. PICK places, answers : calls \in Shape(places \cup {"inspect"}, answers \cup {calls[r].answer})
  BY Wider
<1>2. calls' \in Shape(places \cup {"inspect"}, answers \cup {calls[r].answer})
  BY <1>1 DEF Shape
<1> QED
  BY <1>1, <1>2 DEF Turns, Conducts, Shape

-----------------------------------------------------------------------------
(* What a step does, in the words of the invariant.                        *)

\* r finds its key free and takes it, or finds it taken.
Takes(r) ==
  /\ At(r, "reserve") /\ Turns(r, "inspect", calls[r].answer, calls[r].result)
  /\ IF Record(r).state = "none"
     THEN records' = [records EXCEPT ![KeyOf[r]] =
                        [state |-> "running", by |-> r, result |-> NoRequest]]
     ELSE UNCHANGED records /\ ~ calls'[r].inserted
\* r goes on under the reservation, gives up or is refused.
Passes(r) ==
  /\ UNCHANGED records
  /\ \E pc, a, result :
       /\ Turns(r, pc, a, result)
       /\ \/ pc = "reserve"
          \/ pc \in {"undo", "done"} /\ a # "ok"
          \/ pc \notin {"inspect", "undo", "done"} /\ Owns(r)
\* r is answered what is recorded for an identical request.
RepeatsRow(r) ==
  /\ UNCHANGED records /\ Record(r).state = "completed" /\ Mine(r)
  /\ Turns(r, "done", "ok", Record(r).result)
\* r's result is recorded, and r told so or not.
Finishes(r) ==
  /\ Owns(r) /\ RecordResult(r)
  /\ Turns(r, "done", "ok", calls[r].result) \/ Turns(r, "undo", "error", NoRequest)
\* r gives the reservation back.
GivesBack(r) ==
  /\ At(r, "undo") /\ Owns(r) /\ records' = [records EXCEPT ![KeyOf[r]] = NoRecord]
  /\ Turns(r, "done", calls[r].answer, NoRequest)

Kind(r) == Takes(r) \/ Passes(r) \/ RepeatsRow(r) \/ Finishes(r) \/ GivesBack(r)

LEMMA ExecuteKinds ==
  ASSUME ReservationInv, NEW r \in Requests, Execute(r)
  PROVE  Kind(r)
<1>0. /\ Conducted /\ Entitled(r) /\ calls[r].result \in Requests \cup {NoRequest}
      /\ KeyOf[r] \in Keys
  BY DEF ReservationInv, Conducted, Conducts, Shape, Keys
<1>1. CASE Reserve(r)
  BY <1>0, <1>1, InsertedTurns DEF Reserve, Takes, Kind
<1>2. CASE Inspect(r)
  <2>1. CASE Gone(r) /\ Answer(r, "error", NoRequest)
    BY <1>0, <1>2, <2>1, AnswerTurns DEF Inspect, Passes, Kind
  <2>2. CASE Answer(r, "conflict", NoRequest)
    BY <1>0, <1>2, <2>2, AnswerTurns DEF Inspect, Passes, Kind
  <2>3. CASE calls[r].inserted /\ Become(r, "act")
    <3>1. Owns(r)
      BY <1>0, <1>2, <2>3 DEF Inspect, Entitled
    <3> QED
      BY <1>0, <1>2, <2>3, <3>1, BecomeTurns DEF Inspect, Passes, Kind
  <2>4. CASE Mine(r) /\ Record(r).state = "completed" /\ Answer(r, "ok", Record(r).result)
    <3>1. Record(r).result \in Requests \cup {NoRequest}
      BY <1>0 DEF Conducted, Rows, Record
    <3> QED
      BY <1>0, <1>2, <2>4, <3>1, AnswerTurns DEF Inspect, RepeatsRow, Kind
  <2>5. CASE Answer(r, "in_progress", NoRequest)
    BY <1>0, <1>2, <2>5, AnswerTurns DEF Inspect, Passes, Kind
  <2> QED
    BY <1>2, <2>1, <2>2, <2>3, <2>4, <2>5 DEF Inspect
<1>3. CASE Complete(r)
  BY <1>0, <1>3, AnswerTurns, FailTurns DEF Complete, Finishes, Passes, Kind
<1>4. CASE Undo(r)
  <2>1. Turns(r, "done", calls[r].answer, NoRequest) /\ calls[r].answer # "ok"
    BY <1>0, <1>4, AnswerTurns DEF Undo, Entitled
  <2> QED
    BY <1>4, <2>1 DEF Undo, GivesBack, Passes, Kind
<1> QED
  BY <1>1, <1>2, <1>3, <1>4 DEF Execute

LEMMA FailureKinds ==
  ASSUME ReservationInv, NEW r \in Requests, DatabaseFails(r, AtWork(r))
  PROVE  Kind(r)
<1>0. Conducted
  BY DEF ReservationInv
<1> QED
  BY <1>0, AnswerTurns, FailTurns DEF DatabaseFails, Finishes, Passes, Kind

LEMMA WorkKinds ==
  ASSUME ReservationInv, NEW r \in Requests, EntryStep(r) \/ ActionStep(r)
  PROVE  Kind(r)
<1>1. Turns(r, calls'[r].pc, calls'[r].answer, calls'[r].result) /\ UNCHANGED records
  BY DEF EntryStep, ActionStep, StepsAlone, Turns
<1>2. Executing(r) => Owns(r)
  BY DEF ReservationInv, Entitled
<1> QED
  BY <1>1, <1>2 DEF EntryStep, ActionStep, At, Executing, Passes, Kind

-----------------------------------------------------------------------------
(* The invariant is kept.                                                  *)

(* Only a running row is completed or deleted, and only by its owner.      *)
LEMMA RowsStay ==
  ASSUME ReservationInv, NEW r \in Requests, Kind(r), NEW q \in Requests
  PROVE  /\ Record(q).state = "completed" => Record(q)' = Record(q)
         /\ q # r /\ Owns(q) => Owns(q)'
<1>1. records \in [Keys -> Rows] /\ KeyOf[r] \in Keys /\ KeyOf[q] \in Keys
  BY DEF ReservationInv, Conducted, Keys
<1> QED
  BY <1>1 DEF Kind, Takes, Passes, RepeatsRow, Finishes, GivesBack, Owns, Record, RecordResult, Rows

LEMMA ConductedKept ==
  ASSUME ReservationInv, NEW r \in Requests, Kind(r)
  PROVE  Conducted'
<1>1. records \in [Keys -> Rows] /\ KeyOf[r] \in Keys
      /\ calls[r].result \in Requests \cup {NoRequest}
  BY DEF ReservationInv, Conducted, Conducts, Shape, Keys
<1>2. Conducts'
  BY DEF Kind, Takes, Passes, RepeatsRow, Finishes, GivesBack, Turns
<1>3. records' \in [Keys -> Rows]
  BY <1>1 DEF Kind, Takes, Passes, RepeatsRow, Finishes, GivesBack, RecordResult, NoRecord, Rows
<1> QED
  BY <1>2, <1>3 DEF Conducted

LEMMA EntitledKept ==
  ASSUME ReservationInv, NEW r \in Requests, Kind(r), NEW q \in Requests
  PROVE  Entitled(q)'
<1>0. /\ records \in [Keys -> Rows] /\ KeyOf[q] \in Keys
      /\ Entitled(q)
  BY DEF ReservationInv, Conducted, Keys
<1>1. CASE q # r
  <2>1. calls'[q] = calls[q]
    BY <1>1 DEF Kind, Takes, Passes, RepeatsRow, Finishes, GivesBack, Turns
  <2> QED
    BY <1>0, <1>1, <2>1, RowsStay DEF Entitled, Executing, At
<1>2. CASE q = r /\ Takes(r)
  BY <1>0, <1>2 DEF Takes, Turns, Entitled, Executing, At, Owns, Record
<1>3. CASE q = r /\ Passes(r)
  BY <1>0, <1>3 DEF Passes, Turns, Entitled, Executing, At, Owns, Record
<1>4. CASE q = r /\ (RepeatsRow(r) \/ Finishes(r) \/ GivesBack(r))
  BY <1>0, <1>4 DEF RepeatsRow, Finishes, GivesBack, Turns, Entitled, Executing, At
<1> QED
  BY <1>1, <1>2, <1>3, <1>4 DEF Kind

LEMMA RepeatsKept ==
  ASSUME ReservationInv, NEW r \in Requests, Kind(r)
  PROVE  RepeatsAgree'
<1> SUFFICES ASSUME NEW q \in Requests, At(q, "done")', calls'[q].answer = "ok"
             PROVE  /\ Record(q)'.state = "completed" /\ Record(q)'.result = calls'[q].result
                    /\ BodyOf[Record(q)'.by] = BodyOf[q]
  BY DEF RepeatsAgree
<1>0. /\ records \in [Keys -> Rows] /\ KeyOf[q] \in Keys
      /\ RepeatsAgree /\ Entitled(q)
  BY DEF ReservationInv, Conducted, Keys
<1>1. CASE q # r
  <2>1. calls'[q] = calls[q]
    BY <1>1 DEF Kind, Takes, Passes, RepeatsRow, Finishes, GivesBack, Turns
  <2>2. /\ Record(q).state = "completed" /\ Record(q).result = calls[q].result
        /\ BodyOf[Record(q).by] = BodyOf[q]
    BY <2>1 DEF RepeatsAgree, ReservationInv, At
  <2> QED
    BY <2>1, <2>2, RowsStay
<1>2. CASE q = r /\ RepeatsRow(r)
  BY <1>2 DEF RepeatsRow, Turns, Mine, Record
<1>3. CASE q = r /\ Finishes(r)
  BY <1>0, <1>3 DEF Finishes, Turns, Owns, Record, RecordResult, Rows, At
<1>4. CASE q = r /\ (Takes(r) \/ Passes(r) \/ GivesBack(r))
  BY <1>0, <1>4 DEF Takes, Passes, GivesBack, Turns, Entitled, At
<1> QED
  BY <1>1, <1>2, <1>3, <1>4 DEF Kind

LEMMA ReservationInvInit == IdempotencyInit => ReservationInv
<1> SUFFICES ASSUME IdempotencyInit PROVE ReservationInv
  OBVIOUS
<1>1. calls \in Shape({"new"}, {"none"}) /\ records \in [Keys -> Rows]
  BY DEF IdempotencyInit, NewCall, NoRecord, Shape, Rows
<1>2. \A r \in Requests : calls[r].pc = "new"
  BY DEF IdempotencyInit, NewCall
<1> QED
  BY <1>1, <1>2 DEF ReservationInv, Conducted, Conducts, Entitled, Executing, At, RepeatsAgree

LEMMA ReservationInvStep ==
  ReservationInv /\ [ReservationStep]_<<records, calls>> => ReservationInv'
<1> SUFFICES ASSUME ReservationInv, [ReservationStep]_<<records, calls>>
             PROVE  ReservationInv'
  OBVIOUS
<1>1. CASE UNCHANGED <<records, calls>>
  BY <1>1 DEF ReservationInv, Conducted, Conducts, Entitled, Executing, Owns, At, RepeatsAgree,
     Record
<1>2. CASE Die
  <2>1. Conducted' /\ UNCHANGED records
    BY <1>2 DEF Die, ReservationInv, Conducted
  <2>2. ASSUME NEW r \in Requests PROVE calls'[r] = calls[r] \/ calls'[r].pc = "dead"
    BY <1>2 DEF Die, At
  <2>3. \A r \in Requests : Entitled(r)'
    BY <2>1, <2>2 DEF ReservationInv, Entitled, Executing, Owns, At, Record
  <2>4. RepeatsAgree'
    BY <2>1, <2>2 DEF ReservationInv, RepeatsAgree, At, Record
  <2> QED
    BY <2>1, <2>3, <2>4 DEF ReservationInv
<1>3. ASSUME NEW r \in Requests, Kind(r) PROVE ReservationInv'
  BY <1>3, ConductedKept, EntitledKept, RepeatsKept DEF ReservationInv
<1> QED
  BY <1>1, <1>2, <1>3, ExecuteKinds, FailureKinds, WorkKinds DEF ReservationStep

-----------------------------------------------------------------------------
(* What every mutation of the API can rely on.                             *)

(* Whoever executes an action owns the row of its key, and a success that  *)
(* was answered is the recorded one, whatever the action is and whatever   *)
(* fails.                                                                  *)
THEOREM ReservationInvariant == ReservationSpec => []ReservationInv
  BY ReservationInvInit, ReservationInvStep, PTL DEF ReservationSpec

(* Of the requests with one key at most one executes its action at a time, *)
(* and only while its reservation stands (execute's unique key and owner   *)
(* token).                                                                 *)
THEOREM OneRunOfAnyAction == ReservationSpec => []OneRunPerKey
<1>1. ReservationInv => OneRunPerKey
  <2> SUFFICES ASSUME ReservationInv, NEW r \in Requests, NEW s \in Requests, Executing(r)
               PROVE  Owns(r) /\ (Executing(s) /\ KeyOf[s] = KeyOf[r] => s = r)
    BY DEF OneRunPerKey
  <2>1. \A q \in Requests : Executing(q) => Owns(q)
    BY DEF ReservationInv, Entitled
  <2> QED
    BY <2>1 DEF Owns, Record
<1> QED
  BY <1>1, ReservationInvariant, PTL

(* A key stands for one result: who is told of success has what is         *)
(* recorded for an identical request, and it stays, also when the database *)
(* fails in the very end and nobody has been told yet.                     *)
THEOREM RepeatsOfAnyAction == ReservationSpec => []RepeatsAgree
<1>1. ReservationInv => RepeatsAgree
  BY DEF ReservationInv
<1> QED
  BY <1>1, ReservationInvariant, PTL

-----------------------------------------------------------------------------
(* How the actions of a specification that uses the reservation are its    *)
(* steps.                                                                  *)

\* Where no action is executed.
Outside == {"new", "reserve", "inspect", "undo", "done", "dead"}

LEMMA TurnsOn ==
  ASSUME Conducted, NEW r \in Requests, UNCHANGED records, NEW pc, NEW a, NEW result,
         Turns(r, pc, a, result)
  PROVE  StepsAlone(r)
  BY DEF Turns, StepsAlone

LEMMA BecomeEnters ==
  ASSUME Conducted, NEW r \in Requests, At(r, "new"), UNCHANGED records, Become(r, "reserve")
  PROVE  EntryStep(r)
  BY BecomeTurns, TurnsOn DEF EntryStep, At, Turns

LEMMA AnswerEnters ==
  ASSUME Conducted, NEW r \in Requests, At(r, "new"), UNCHANGED records,
         NEW a, a # "ok", Answer(r, a, NoRequest)
  PROVE  EntryStep(r)
  BY AnswerTurns, TurnsOn DEF EntryStep, At, Turns

LEMMA BecomeWorks ==
  ASSUME Conducted, NEW r \in Requests, Executing(r), ~ At(r, "complete"), UNCHANGED records,
         NEW pc, pc \notin Outside, Become(r, pc)
  PROVE  ActionStep(r)
  BY BecomeTurns, TurnsOn DEF ActionStep, Executing, Outside, Turns

LEMMA ResultWorks ==
  ASSUME Conducted, NEW r \in Requests, Executing(r), ~ At(r, "complete"), UNCHANGED records,
         NEW pc, pc \notin Outside, NEW result \in Requests \cup {NoRequest},
         calls' = [calls EXCEPT ![r].pc = pc, ![r].result = result]
  PROVE  ActionStep(r)
<1>1. PICK places, answers : calls \in Shape(places \cup {pc}, answers \cup {calls[r].answer})
  BY Wider
<1>2. calls' \in Shape(places \cup {pc}, answers \cup {calls[r].answer})
  BY <1>1 DEF Shape
<1>3. Turns(r, pc, calls[r].answer, result)
  BY <1>1, <1>2 DEF Turns, Conducts, Shape
<1> QED
  BY <1>3, TurnsOn DEF ActionStep, Executing, Outside, Turns

LEMMA SucceedWorks ==
  ASSUME Conducted, NEW r \in Requests, Executing(r), ~ At(r, "complete"), UNCHANGED records,
         NEW result \in Requests \cup {NoRequest}, Succeed(r, result)
  PROVE  ActionStep(r)
  BY ResultWorks DEF Succeed, Outside

LEMMA FailWorks ==
  ASSUME Conducted, NEW r \in Requests, Executing(r), ~ At(r, "complete"), UNCHANGED records,
         NEW a, a # "ok", Fail(r, a)
  PROVE  ActionStep(r)
  BY FailTurns, TurnsOn DEF ActionStep, At, Turns

LEMMA BecomeDies ==
  ASSUME Conducted, NEW r \in Requests, UNCHANGED records, Become(r, "dead")
  PROVE  Die
  BY BecomeTurns DEF Die, At, Turns

LEMMA FailsAtWork ==
  ASSUME NEW r \in Requests, NEW inside, inside \cap Outside = {}, DatabaseFails(r, inside)
  PROVE  DatabaseFails(r, AtWork(r))
<1>1. calls[r].pc \in inside => calls[r].pc \in AtWork(r)
  BY DEF AtWork, Executing, Outside
<1> QED
  BY <1>1 DEF DatabaseFails

=============================================================================
