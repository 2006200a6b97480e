----------------------------- MODULE ApiProofs -----------------------------
(* Two parts of the API that share no variable, each with its inductive    *)
(* invariant and the theorems that follow from it: the review of a         *)
(* candidate under an idempotency key (ReviewInv), and the response        *)
(* contacts with their numbers and the cases that name them (ContactInv).  *)
(* For each part: what the invariant says, what each action does to the    *)
(* state in the words of the invariant (its kind), one lemma per conjunct  *)
(* of the invariant over the kinds, and the theorems.                      *)
(*                                                                         *)
(* Everything is proved of the parts' own specifications.  MCApi, whose    *)
(* constants are as free here as the parts' are, puts them side by side,   *)
(* and its specification implies both.                                     *)
EXTENDS MCApi, IdempotencyProofs, FiniteSetTheorems, TLAPS

-----------------------------------------------------------------------------
(* One request per reservation, one decision per candidate.                *)

\* Where a request holds the reservation of its key; one that undoes it may
\* have recorded its result all the same.
Holding == InAction \cup {"complete"}
\* Where it has not stored a review yet.
BeforeWrite == {"new", "reserve", "inspect", "act", "decide", "write"}

HoldInv(r) ==
  /\ calls[r].pc \in Holding => Owns(r)
  /\ calls[r].pc = "inspect" /\ calls[r].inserted => Owns(r)

OutcomeInv ==
  /\ OutcomeFollowsReview
  /\ review # NoRequest => calls[review].pc \notin BeforeWrite
  /\ \A r \in Reviews : At(r, "write") =>
       /\ seen[r] < ExpiresAt
       /\ ~ (simulated /\ Verdict(r) = "confirmed")

\* The stored review is the result, and it is what r asks for.
Stands(r, result) == result = review /\ review # NoRequest /\ BodyOf[review] = BodyOf[r]
Audited(k) == \E other \in audited : KeyOf[other] = k

AnswerInv(r) ==
  /\ At(r, "log") => review = r
  /\ At(r, "audit") => Stands(r, calls[r].result)
  /\ At(r, "complete") => Stands(r, calls[r].result) /\ r \in audited
  /\ At(r, "undo") => calls[r].answer # "ok"
  /\ At(r, "done") /\ calls[r].answer = "ok" => Stands(r, calls[r].result) /\ Audited(KeyOf[r])

RecordInv(k) ==
  records[k].state # "none" =>
    /\ records[k].by \in Reviews /\ KeyOf[records[k].by] = k
    /\ records[k].state = "completed" => Stands(records[k].by, records[k].result) /\ Audited(k)

ReviewInv ==
  /\ ReviewTypeOK
  /\ \A r \in Requests : HoldInv(r)
  /\ \A r \in Requests \ Reviews : At(r, "new")
  /\ OutcomeInv
  /\ \A r \in Reviews : AnswerInv(r)
  /\ \A k \in Keys : RecordInv(k)

-----------------------------------------------------------------------------
(* What a step does to the request that takes it.                          *)

Pcs == InAction \cup {"new", "reserve", "inspect", "complete", "undo", "done", "dead"}
Answers == {"none", "ok", "error", "conflict", "in_progress", "not_found", "already_final",
            "expired", "prohibited"}
CallRecords ==
  [pc: Pcs, inserted: BOOLEAN, answer: Answers, result: Requests \cup {NoRequest}]
RecordRecords == [state: {"none", "running", "completed"}, by: Requests \cup {NoRequest},
                  result: Requests \cup {NoRequest}]

\* Request r alone moves, to pc; its reservation, answer and result become these.
Moved(r, pc, inserted, answer, result) ==
  /\ calls' \in [Requests -> CallRecords]
  /\ calls'[r].pc = pc /\ calls'[r].inserted = inserted
  /\ calls'[r].answer = answer /\ calls'[r].result = result
  /\ \A q \in Requests \ {r} : calls'[q] = calls[q]

LEMMA ReviewTypes ==
  ASSUME ReviewTypeOK
  PROVE  /\ calls \in [Requests -> CallRecords] /\ records \in [Keys -> RecordRecords]
         /\ \A r \in Requests : KeyOf[r] \in Keys
         /\ Reviews \subseteq Requests /\ NoRequest \notin Requests
  BY IdempotencyAssumption, ReviewAssumption DEF ReviewTypeOK, Keys, CallRecords, Pcs, Answers,
     RecordRecords

LEMMA Becoming ==
  ASSUME ReviewTypeOK, NEW r \in Reviews, NEW pc \in Pcs, Become(r, pc)
  PROVE  Moved(r, pc, calls[r].inserted, calls[r].answer, calls[r].result)
  BY ReviewTypes DEF Become, Moved, CallRecords

LEMMA Answering ==
  ASSUME ReviewTypeOK, NEW r \in Reviews, NEW a \in Answers,
         NEW result \in Requests \cup {NoRequest}, Answer(r, a, result)
  PROVE  Moved(r, "done", calls[r].inserted, a, result)
  BY ReviewTypes DEF Answer, Moved, CallRecords, Pcs

LEMMA Failing ==
  ASSUME ReviewTypeOK, NEW r \in Reviews, NEW a \in Answers, Fail(r, a)
  PROVE  Moved(r, "undo", calls[r].inserted, a, NoRequest)
  BY ReviewTypes DEF Fail, Moved, CallRecords, Pcs

\* Only the row of r's key is written.
RowOnly(r) == \A k \in Keys \ {KeyOf[r]} : records'[k] = records[k]
Kept == UNCHANGED <<simulated, candidate, review, event, seen, audited, sweep>>

(* The kinds of step that take a request on.                               *)
Finds(r) ==
  /\ At(r, "new") /\ UNCHANGED records /\ Kept
  /\ \/ Moved(r, "reserve", calls[r].inserted, calls[r].answer, calls[r].result)
     \/ Moved(r, "done", calls[r].inserted, "not_found", NoRequest)
Reserves(r) ==
  /\ At(r, "reserve") /\ Kept
  /\ IF Record(r).state = "none"
     THEN /\ Moved(r, "inspect", TRUE, calls[r].answer, calls[r].result)
          /\ records' = [records EXCEPT ![KeyOf[r]] =
                           [state |-> "running", by |-> r, result |-> NoRequest]]
     ELSE Moved(r, "inspect", FALSE, calls[r].answer, calls[r].result) /\ UNCHANGED records
Inspects(r) ==
  /\ At(r, "inspect") /\ UNCHANGED records /\ Kept
  /\ \/ \E a \in Answers \ {"ok"} : Moved(r, "done", calls[r].inserted, a, NoRequest)
     \/ /\ calls[r].inserted
        /\ Moved(r, "act", calls[r].inserted, calls[r].answer, calls[r].result)
     \/ /\ Record(r).state = "completed" /\ BodyOf[Record(r).by] = BodyOf[r]
        /\ Moved(r, "done", calls[r].inserted, "ok", Record(r).result)
Acts(r, from, to) ==
  /\ At(r, from) /\ UNCHANGED records
  /\ Moved(r, to, calls[r].inserted, calls[r].answer, calls[r].result)
Fails(r) ==
  /\ calls[r].pc \in InAction \cup {"complete"} /\ UNCHANGED records /\ Kept
  /\ \E a \in Answers \ {"ok"} : Moved(r, "undo", calls[r].inserted, a, NoRequest)
Sees(r) ==
  /\ At(r, "act") /\ UNCHANGED records /\ Kept
  /\ review # NoRequest /\ BodyOf[review] = BodyOf[r]
  /\ Moved(r, "audit", calls[r].inserted, calls[r].answer, review)
Writes(r) ==
  /\ Acts(r, "write", "log")
  /\ review = NoRequest /\ candidate # "absent"
  /\ review' = r /\ candidate' = Verdict(r)
  /\ event' = IF Verdict(r) = "confirmed" THEN r ELSE event
  /\ UNCHANGED <<simulated, seen, audited, sweep>>
Decides(r) ==
  /\ Acts(r, "decide", "write")
  /\ now < ExpiresAt /\ ~ (simulated /\ Verdict(r) = "confirmed")
  /\ seen' = [seen EXCEPT ![r] = now]
  /\ UNCHANGED <<simulated, candidate, review, event, audited, sweep>>
Audits(r) ==
  /\ At(r, "audit") /\ UNCHANGED records
  /\ Moved(r, "complete", calls[r].inserted, calls[r].answer, calls[r].result)
  /\ audited' = audited \cup {r}
  /\ UNCHANGED <<simulated, candidate, review, event, seen, sweep>>
Completes(r) ==
  /\ At(r, "complete") /\ Kept
  /\ \/ /\ Owns(r) /\ RecordResult(r)
        /\ \/ Moved(r, "done", calls[r].inserted, "ok", calls[r].result)
           \/ Moved(r, "undo", calls[r].inserted, "error", NoRequest)
     \/ ~ Owns(r) /\ Moved(r, "undo", calls[r].inserted, "error", NoRequest) /\ UNCHANGED records
Undoes(r) ==
  /\ At(r, "undo") /\ Kept
  /\ records' = IF Owns(r) THEN [records EXCEPT ![KeyOf[r]] = NoRecord] ELSE records
  /\ Moved(r, "done", calls[r].inserted, calls[r].answer, NoRequest)
Breaks(r) ==
  /\ UNCHANGED records /\ Kept
  /\ \/ Moved(r, "dead", calls[r].inserted, calls[r].answer, calls[r].result)
     \/ Moved(r, "done", calls[r].inserted, "error", NoRequest)
Others ==
  /\ UNCHANGED <<calls, records, simulated, review, event, seen, audited>>
  /\ \/ UNCHANGED candidate
     \/ candidate = "absent" /\ candidate' = "awaiting_review"
     \/ candidate = "awaiting_review" /\ review = NoRequest /\ candidate' = "absent"
     \/ candidate # "absent" /\ candidate' = "expired"

Logs(r) ==
  /\ At(r, "log") /\ UNCHANGED records /\ Kept
  /\ Moved(r, "audit", calls[r].inserted, calls[r].answer, r)
Looks(r) == Acts(r, "act", "decide") /\ review = NoRequest /\ Kept

ReviewKind(r) ==
  \/ Finds(r) \/ Reserves(r) \/ Inspects(r) \/ Looks(r) \/ Sees(r) \/ Decides(r) \/ Writes(r)
  \/ Logs(r) \/ Audits(r) \/ Completes(r) \/ Undoes(r) \/ Fails(r) \/ Breaks(r)

LEMMA ReviewKinds ==
  ASSUME ReviewTypeOK, [ReviewNext]_allVars
  PROVE  Others \/ \E r \in Reviews : ReviewKind(r)
<1> USE DEF reviewVars, Kept
<1>a. ReviewTypeOK /\ Reviews \subseteq Requests
  BY ReviewTypes
<1>1. CASE UNCHANGED allVars
  BY <1>1 DEF allVars, idempotencyVars, Others
<1>2. ASSUME NEW r \in Reviews, Find(r) PROVE Finds(r)
  BY <1>2, Answering, Becoming DEF Find, Finds, Pcs, Answers
<1>3. ASSUME NEW r \in Reviews, Look(r) PROVE Looks(r) \/ Sees(r) \/ Fails(r)
  <2>1. CASE review = NoRequest
    BY <1>3, <2>1, Becoming DEF Look, Looks, Acts, Pcs, InAction
  <2>2. CASE review # NoRequest /\ BodyOf[review] = BodyOf[r]
    <3>1. /\ calls' = [calls EXCEPT ![r].pc = "audit", ![r].result = review]
          /\ review \in Requests /\ calls \in [Requests -> CallRecords]
      BY <1>3, <2>2, ReviewTypes DEF Look, ReviewTypeOK
    <3>2. Moved(r, "audit", calls[r].inserted, calls[r].answer, review)
      BY <1>a, <3>1 DEF Moved, CallRecords, Pcs, InAction
    <3> QED
      BY <1>3, <2>2, <3>2 DEF Look, Sees
  <2>3. CASE review # NoRequest /\ BodyOf[review] # BodyOf[r]
    <3>1. Moved(r, "undo", calls[r].inserted, "already_final", NoRequest)
      BY <1>3, <2>3, Failing DEF Look, Answers
    <3> QED
      BY <1>3, <2>3, <3>1 DEF Look, Fails, At, Answers, InAction
  <2> QED
    BY <2>1, <2>2, <2>3
<1>4. ASSUME NEW r \in Reviews, Decide(r) PROVE Decides(r) \/ Fails(r)
  <2>1. CASE Refused(r) = "none"
    <3>1. now < ExpiresAt /\ ~ (simulated /\ Verdict(r) = "confirmed")
      BY <2>1, ReviewAssumption DEF Refused, ReviewTypeOK
    <3> QED
      BY <1>4, <2>1, <3>1, Becoming DEF Decide, Decides, Acts, Pcs, InAction
  <2>2. CASE Refused(r) # "none"
    <3>1. Refused(r) \in Answers \ {"ok"}
      BY DEF Refused, Answers
    <3>2. Moved(r, "undo", calls[r].inserted, Refused(r), NoRequest)
      BY <1>4, <2>2, <3>1, Failing DEF Decide
    <3> QED
      BY <1>4, <2>2, <3>1, <3>2 DEF Decide, Fails, At, InAction
  <2> QED
    BY <2>1, <2>2
<1>5. ASSUME NEW r \in Reviews, Write(r) PROVE Writes(r) \/ Fails(r)
  <2>1. CASE review # NoRequest \/ candidate = "absent"
    <3> DEFINE a == IF review # NoRequest THEN "already_final" ELSE "error"
    <3>1. a \in Answers \ {"ok"}
      BY DEF Answers
    <3>2. Fail(r, a)
      BY <1>5, <2>1 DEF Write
    <3> HIDE DEF a
    <3>3. Moved(r, "undo", calls[r].inserted, a, NoRequest)
      BY <3>1, <3>2, Failing
    <3> QED
      BY <1>5, <2>1, <3>1, <3>3 DEF Write, Fails, At, InAction
  <2>2. CASE ~ (review # NoRequest \/ candidate = "absent")
    BY <1>5, <2>2, Becoming DEF Write, Writes, Acts, Pcs, InAction
  <2> QED
    BY <2>1, <2>2
<1>6. ASSUME NEW r \in Reviews, Log(r) PROVE Logs(r)
  <2>1. calls' = [calls EXCEPT ![r].pc = "audit", ![r].result = r]
    BY <1>6 DEF Log
  <2>2. Moved(r, "audit", calls[r].inserted, calls[r].answer, r)
    BY <1>a, <2>1, ReviewTypes DEF Moved, CallRecords, Pcs, InAction
  <2> QED
    BY <1>6, <2>2 DEF Log, Logs
<1>7. ASSUME NEW r \in Reviews, Audit(r) PROVE Audits(r)
  <2>1. calls' = [calls EXCEPT ![r].pc = "complete", ![r].result = calls[r].result]
    BY <1>7 DEF Audit, Succeed
  <2>2. Moved(r, "complete", calls[r].inserted, calls[r].answer, calls[r].result)
    BY <1>a, <2>1, ReviewTypes DEF Moved, CallRecords, Pcs
  <2> QED
    BY <1>7, <2>2 DEF Audit, Audits
<1>8. ASSUME NEW r \in Reviews, Reserve(r), UNCHANGED reviewVars PROVE Reserves(r)
  <2> DEFINE free == Record(r).state = "none"
  <2>1. calls' = [calls EXCEPT ![r].pc = "inspect", ![r].inserted = free]
    BY <1>8 DEF Reserve
  <2>2. Moved(r, "inspect", free, calls[r].answer, calls[r].result)
    <3> HIDE DEF free
    <3>1. free \in BOOLEAN
      BY DEF free
    <3> QED
      BY <1>a, <2>1, <3>1, ReviewTypes DEF Moved, CallRecords, Pcs
  <2>3. CASE free
    <3>1. Moved(r, "inspect", TRUE, calls[r].answer, calls[r].result)
      BY <2>2, <2>3 DEF Moved
    <3> QED
      BY <1>8, <2>3, <3>1 DEF Reserve, Reserves
  <2>4. CASE ~ free
    <3>1. Moved(r, "inspect", FALSE, calls[r].answer, calls[r].result)
      BY <2>2, <2>4 DEF Moved
    <3> QED
      BY <1>8, <2>4, <3>1 DEF Reserve, Reserves
  <2> QED
    BY <2>3, <2>4
<1>9. ASSUME NEW r \in Reviews, Inspect(r), UNCHANGED reviewVars PROVE Inspects(r)
  <2>1. CASE \E a \in {"error", "conflict", "in_progress"} : Answer(r, a, NoRequest)
    BY <1>9, <2>1, Answering DEF Inspect, Inspects, Answers
  <2>2. CASE calls[r].inserted /\ Become(r, "act")
    BY <1>9, <2>2, Becoming DEF Inspect, Inspects, Pcs, InAction
  <2>3. CASE Mine(r) /\ Record(r).state = "completed" /\ Answer(r, "ok", Record(r).result)
    <3>1. Record(r).result \in Requests \cup {NoRequest} /\ "ok" \in Answers
      BY <1>a, ReviewTypes DEF Record, RecordRecords, Answers
    <3>2. Moved(r, "done", calls[r].inserted, "ok", Record(r).result)
      BY <2>3, <3>1, Answering
    <3> QED
      BY <1>9, <2>3, <3>2 DEF Inspect, Inspects, Mine
  <2> QED
    BY <1>9, <2>1, <2>2, <2>3 DEF Inspect
<1>10. ASSUME NEW r \in Reviews, Complete(r), UNCHANGED reviewVars PROVE Completes(r)
  <2>1. calls[r].result \in Requests \cup {NoRequest} /\ {"ok", "error"} \subseteq Answers
    BY <1>a, ReviewTypes DEF CallRecords, Answers
  <2> QED
    BY <1>10, <2>1, Answering, Failing DEF Complete, Completes, RecordResult
<1>11. ASSUME NEW r \in Reviews, Undo(r), UNCHANGED reviewVars PROVE Undoes(r)
  <2>1. calls[r].answer \in Answers
    BY <1>a, ReviewTypes DEF CallRecords
  <2> QED
    BY <1>11, <2>1, Answering DEF Undo, Undoes
<1>12. ASSUME NEW r \in Reviews, ReviewFault(r) PROVE Fails(r) \/ Breaks(r) \/ Completes(r)
  <2>1. "error" \in Answers \ {"ok"} /\ "dead" \in Pcs
    BY DEF Answers, Pcs
  <2> QED
    BY <1>12, <2>1, Answering, Failing, Becoming
       DEF ReviewFault, DatabaseFails, ProcessDies, Fails, Breaks, Completes
<1>13. CASE PutCandidate \/ DeletePendingCandidates \/ ListDue \/ WriteExpired \/ Tick
  BY <1>13 DEF PutCandidate, DeletePendingCandidates, ListDue, WriteExpired, Tick,
     idempotencyVars, Others
<1> QED
  BY <1>1, <1>2, <1>3, <1>4, <1>5, <1>6, <1>7, <1>8, <1>9, <1>10, <1>11, <1>12, <1>13
     DEF ReviewNext, Reviewing, Execute, ReviewKind

(* The shape of the state is kept.                                         *)
LEMMA ReviewTypeStep ==
  ASSUME ReviewTypeOK, [ReviewNext]_allVars
  PROVE  ReviewTypeOK'
<1>1. /\ trouble' \in 0..MaxTrouble
      /\ sweep' \in BOOLEAN /\ now' \in 0..MaxTime
      /\ left' \in [analyses: 0..MaxAnalyses, sessions: 0..MaxSessions]
  <2>1. CASE UNCHANGED allVars
    BY <2>1 DEF allVars, idempotencyVars, reviewVars, ReviewTypeOK
  <2>2. ASSUME NEW r \in Reviews, Reviewing(r) PROVE UNCHANGED <<trouble, sweep, now, left>>
    BY <2>2 DEF Reviewing, Find, Look, Decide, Write, Log, Audit, Execute, Reserve, Inspect,
       Complete, Undo, reviewVars
  <2>3. ASSUME NEW r \in Reviews, ReviewFault(r)
        PROVE  /\ trouble < MaxTrouble /\ trouble' = trouble + 1
               /\ UNCHANGED <<sweep, now, left>>
    BY <2>3 DEF ReviewFault, DatabaseFails, ProcessDies, Trouble, reviewVars
  <2>4. CASE PutCandidate \/ DeletePendingCandidates \/ ListDue \/ WriteExpired \/ Tick
    <3>1. /\ left.analyses \in 0..MaxAnalyses /\ left.sessions \in 0..MaxSessions
          /\ {MaxTime, MaxAnalyses, MaxSessions} \subseteq Nat
      BY ReviewAssumption DEF ReviewTypeOK
    <3>2. \/ left' = left
          \/ left.analyses > 0 /\ left' = [left EXCEPT !.analyses = left.analyses - 1]
          \/ left.sessions > 0 /\ left' = [left EXCEPT !.sessions = left.sessions - 1]
      BY <2>4 DEF PutCandidate, DeletePendingCandidates, ListDue, WriteExpired, Tick
    <3>3. left' \in [analyses: 0..MaxAnalyses, sessions: 0..MaxSessions]
      BY <3>1, <3>2 DEF ReviewTypeOK
    <3>4. now' \in 0..MaxTime
      <4>1. CASE Tick
        BY <3>1, <4>1 DEF Tick, ReviewTypeOK
      <4>2. CASE PutCandidate \/ DeletePendingCandidates \/ ListDue \/ WriteExpired
        <5>1. now' = now
          BY <4>2 DEF PutCandidate, DeletePendingCandidates, ListDue, WriteExpired
        <5> QED
          BY <5>1 DEF ReviewTypeOK
      <4> QED
        BY <2>4, <4>1, <4>2
    <3>5. trouble' = trouble /\ sweep' \in BOOLEAN
      BY <2>4 DEF PutCandidate, DeletePendingCandidates, ListDue, WriteExpired, Tick,
         idempotencyVars, ReviewTypeOK
    <3> QED
      BY <3>3, <3>4, <3>5 DEF ReviewTypeOK
  <2> QED
    BY <2>1, <2>2, <2>3, <2>4, IdempotencyAssumption DEF ReviewNext, ReviewTypeOK
<1>2. /\ calls' \in [Requests -> CallRecords] /\ records' \in [Keys -> RecordRecords]
      /\ simulated' \in BOOLEAN /\ audited' \subseteq Reviews
      /\ candidate' \in {"absent", "awaiting_review", "confirmed", "rejected", "expired"}
      /\ {review', event'} \subseteq Reviews \cup {NoRequest}
      /\ seen' \in [Reviews -> 0..MaxTime]
  <2>1. CASE Others
    BY <2>1, ReviewTypes DEF Others, ReviewTypeOK
  <2>2. ASSUME NEW r \in Reviews, ReviewKind(r)
        PROVE calls' \in [Requests -> CallRecords]
    BY <2>2 DEF ReviewKind, Finds, Reserves, Inspects, Looks, Sees, Decides, Writes, Logs, Audits,
       Completes, Undoes, Fails, Breaks, Acts, Moved
  <2>3. ASSUME NEW r \in Reviews, ReviewKind(r)
        PROVE records' \in [Keys -> RecordRecords]
    <3>1. \/ UNCHANGED records
          \/ records' = [records EXCEPT ![KeyOf[r]] =
                           [state |-> "running", by |-> r, result |-> NoRequest]]
          \/ RecordResult(r)
          \/ records' = [records EXCEPT ![KeyOf[r]] = NoRecord]
      BY <2>3 DEF ReviewKind, Finds, Reserves, Inspects, Looks, Sees, Decides, Writes, Logs, Audits,
         Completes, Undoes, Fails, Breaks, Acts
    <3>2. calls[r].result \in Requests \cup {NoRequest}
      BY ReviewTypes DEF CallRecords
    <3> QED
      BY <3>1, <3>2, ReviewTypes DEF RecordRecords, NoRecord, RecordResult
  <2>4. ASSUME NEW r \in Reviews, ReviewKind(r)
        PROVE /\ simulated' \in BOOLEAN /\ audited' \subseteq Reviews
              /\ candidate' \in {"absent", "awaiting_review", "confirmed", "rejected", "expired"}
              /\ {review', event'} \subseteq Reviews \cup {NoRequest}
              /\ seen' \in [Reviews -> 0..MaxTime]
    <3>1. /\ Verdict(r) \in {"confirmed", "rejected"} /\ now \in 0..MaxTime
          /\ Kept => UNCHANGED <<simulated, candidate, review, event, seen, audited>>
      BY ReviewAssumption DEF Verdict, ReviewTypeOK, Kept
    <3> QED
      BY <2>4, <3>1 DEF ReviewKind, Finds, Reserves, Inspects, Looks, Sees, Decides, Writes, Logs,
         Audits, Completes, Undoes, Fails, Breaks, ReviewTypeOK
  <2> QED
    BY <2>1, <2>2, <2>3, <2>4, ReviewKinds
<1> QED
  BY <1>1, <1>2 DEF ReviewTypeOK, CallRecords, RecordRecords, Pcs, Answers

(* Only the request that made it takes a running reservation away.         *)
LEMMA HoldStep ==
  ASSUME ReviewTypeOK, \A r \in Requests : HoldInv(r), [ReviewNext]_allVars, NEW r \in Requests
  PROVE  HoldInv(r)'
<1>0. \A q \in Requests : KeyOf[q] \in Keys
  BY ReviewTypes
<1>1. CASE Others
  BY <1>1 DEF Others, HoldInv, Owns, Record
<1>2. ASSUME NEW q \in Reviews, ReviewKind(q), q # r PROVE HoldInv(r)'
  <2>1. calls'[r] = calls[r]
    BY <1>2 DEF ReviewKind, Finds, Reserves, Inspects, Looks, Sees, Decides, Writes, Logs, Audits,
         Completes, Undoes, Fails, Breaks, Acts, Moved
  <2>2. Owns(r) => Owns(r)'
    BY <1>0, <1>2, ReviewTypes
       DEF ReviewKind, Finds, Reserves, Inspects, Looks, Sees, Decides, Writes, Logs, Audits,
         Completes, Undoes, Fails, Breaks, Acts, Owns, Record, RecordResult, RecordRecords
  <2> QED
    BY <2>1, <2>2 DEF HoldInv
<1>3. ASSUME r \in Reviews, ReviewKind(r) PROVE HoldInv(r)'
  <2>1. CASE Reserves(r)
    BY <1>0, <2>1, ReviewTypes DEF Reserves, HoldInv, Owns, Record, Moved, Holding, InAction
  <2>2. CASE Completes(r)
    BY <1>0, <2>2, ReviewTypes DEF Completes, At, HoldInv, Owns, Record, Moved, Holding, InAction
  <2>3. CASE Undoes(r)
    BY <1>0, <2>3, ReviewTypes DEF Undoes, HoldInv, Owns, Record, Moved, Holding, InAction
  <2>4. CASE Finds(r) \/ Inspects(r) \/ Looks(r) \/ Sees(r) \/ Decides(r) \/ Writes(r) \/ Logs(r)
             \/ Audits(r) \/ Fails(r) \/ Breaks(r)
    BY <2>4 DEF Finds, Inspects, Looks, Sees, Decides, Writes, Logs, Audits, Fails, Breaks, Acts,
       At, HoldInv, Owns, Record, Moved, Holding, InAction
  <2> QED
    BY <1>3, <2>1, <2>2, <2>3, <2>4 DEF ReviewKind
<1> QED
  BY <1>1, <1>2, <1>3, ReviewKinds

LEMMA OutcomeStep ==
  ASSUME ReviewTypeOK, OutcomeInv, [ReviewNext]_allVars
  PROVE  OutcomeInv'
<1>1. CASE Others
  BY <1>1, ReviewAssumption
     DEF Others, OutcomeInv, OutcomeFollowsReview, Verdict, At, ReviewTypeOK
<1>2. ASSUME NEW r \in Reviews, ReviewKind(r), ~ Decides(r), ~ Writes(r) PROVE OutcomeInv'
  <2>1. UNCHANGED <<simulated, candidate, review, event, seen>>
    BY <1>2 DEF ReviewKind, Finds, Reserves, Inspects, Looks, Sees, Logs, Audits, Completes,
       Undoes, Fails, Breaks, Kept
  <2>2. /\ \A q \in Requests \ {r} : calls'[q] = calls[q]
        /\ calls'[r].pc # "write"
        /\ calls'[r].pc \in BeforeWrite => calls[r].pc \in BeforeWrite
    BY <1>2 DEF ReviewKind, Finds, Reserves, Inspects, Looks, Sees, Logs, Audits, Completes,
       Undoes, Fails, Breaks, Acts, Moved, BeforeWrite, At
  <2> QED
    BY <2>1, <2>2, ReviewTypes DEF OutcomeInv, OutcomeFollowsReview, Verdict, At, ReviewTypeOK
<1>3. ASSUME NEW r \in Reviews, Decides(r) PROVE OutcomeInv'
  BY <1>3, ReviewTypes DEF Decides, Acts, Moved, Kept, OutcomeInv, OutcomeFollowsReview, Verdict,
     At, ReviewTypeOK, BeforeWrite
<1>4. ASSUME NEW r \in Reviews, Writes(r) PROVE OutcomeInv'
  BY <1>4, ReviewTypes DEF Writes, Acts, Moved, OutcomeInv, OutcomeFollowsReview, Verdict,
     At, ReviewTypeOK, BeforeWrite
<1> QED
  BY <1>1, <1>2, <1>3, <1>4, ReviewKinds

(* A stored review is final: neither it nor what is logged is lost.        *)
LEMMA ReviewStays ==
  ASSUME ReviewTypeOK, [ReviewNext]_allVars
  PROVE  /\ review # NoRequest => review' = review
         /\ audited \subseteq audited'
  BY ReviewKinds, ReviewTypes
     DEF Others, ReviewKind, Finds, Reserves, Inspects, Looks, Sees, Decides, Writes, Logs,
         Audits, Completes, Undoes, Fails, Breaks, Kept

LEMMA RecordStep ==
  ASSUME ReviewInv, [ReviewNext]_allVars, NEW k \in Keys
  PROVE  RecordInv(k)'
<1>0. /\ ReviewTypeOK /\ RecordInv(k) /\ \A r \in Requests : KeyOf[r] \in Keys
      /\ records \in [Keys -> RecordRecords] /\ Reviews \subseteq Requests
  BY ReviewTypes DEF ReviewInv
<1>1. /\ \A r, result : Stands(r, result) => Stands(r, result)'
      /\ Audited(k) => Audited(k)'
  BY <1>0, ReviewStays DEF Stands, Audited
<1>2. ASSUME records'[k] = records[k] PROVE RecordInv(k)'
  BY <1>0, <1>1, <1>2 DEF RecordInv
<1>3. ASSUME NEW r \in Reviews, Reserves(r) PROVE RecordInv(k)'
  <2>1. CASE Record(r).state = "none" /\ k = KeyOf[r]
    BY <1>0, <1>3, <2>1 DEF Reserves, RecordInv
  <2>2. CASE ~ (Record(r).state = "none" /\ k = KeyOf[r])
    BY <1>0, <1>2, <1>3, <2>2 DEF Reserves
  <2> QED
    BY <2>1, <2>2
<1>4. ASSUME NEW r \in Reviews, Completes(r) PROVE RecordInv(k)'
  <2>1. CASE Owns(r) /\ k = KeyOf[r]
    <3>1. AnswerInv(r) /\ At(r, "complete")
      BY <1>4 DEF Completes, ReviewInv
    <3>2. Stands(r, calls[r].result) /\ r \in audited /\ records[k].by = r
      BY <2>1, <3>1 DEF AnswerInv, Owns, Record, At
    <3>3. /\ records'[k].by = r /\ records'[k].result = calls[r].result
      BY <1>0, <1>4, <2>1, <3>2 DEF Completes, RecordResult, RecordRecords
    <3>4. review' = review /\ audited' = audited
      BY <1>4 DEF Completes, Kept
    <3> QED
      BY <1>0, <2>1, <3>2, <3>3, <3>4 DEF RecordInv, Stands, Audited
  <2>2. CASE ~ (Owns(r) /\ k = KeyOf[r])
    BY <1>0, <1>2, <1>4, <2>2 DEF Completes, RecordResult
  <2> QED
    BY <2>1, <2>2
<1>5. ASSUME NEW r \in Reviews, Undoes(r) PROVE RecordInv(k)'
  <2>1. CASE Owns(r) /\ k = KeyOf[r]
    BY <1>0, <1>5, <2>1 DEF Undoes, NoRecord, RecordInv
  <2>2. CASE ~ (Owns(r) /\ k = KeyOf[r])
    BY <1>0, <1>2, <1>5, <2>2 DEF Undoes
  <2> QED
    BY <2>1, <2>2
<1>6. CASE Others
  BY <1>2, <1>6 DEF Others
<1>7. ASSUME NEW r \in Reviews, ReviewKind(r), ~ Reserves(r), ~ Completes(r), ~ Undoes(r)
      PROVE  RecordInv(k)'
  BY <1>2, <1>7 DEF ReviewKind, Finds, Inspects, Looks, Sees, Decides, Writes, Logs,
     Audits, Fails, Breaks, Acts
<1> QED
  BY <1>0, <1>3, <1>4, <1>5, <1>6, <1>7, ReviewKinds

LEMMA AnswerStep ==
  ASSUME ReviewInv, [ReviewNext]_allVars, NEW q \in Reviews
  PROVE  AnswerInv(q)'
<1>0. /\ ReviewTypeOK /\ AnswerInv(q) /\ \A r \in Requests : KeyOf[r] \in Keys
      /\ Reviews \subseteq Requests
  BY ReviewTypes DEF ReviewInv
<1>1. /\ \A r, result : Stands(r, result) => Stands(r, result)'
      /\ Audited(KeyOf[q]) => Audited(KeyOf[q])'
      /\ review # NoRequest => review' = review /\ audited \subseteq audited'
      /\ q \in audited => q \in audited'
      /\ NoRequest \notin Reviews
  BY <1>0, ReviewStays, ReviewTypes DEF Stands, Audited
<1>2. ASSUME calls'[q] = calls[q] PROVE AnswerInv(q)'
  BY <1>0, <1>1, <1>2 DEF AnswerInv, At
<1>3. ASSUME NEW pc, calls'[q].pc = pc,
             pc \notin {"log", "audit", "complete", "undo", "done"}
      PROVE  AnswerInv(q)'
  BY <1>3 DEF AnswerInv, At
<1>4. ASSUME calls'[q].pc = "done", calls'[q].answer # "ok" PROVE AnswerInv(q)'
  BY <1>4 DEF AnswerInv, At
<1>5. CASE Others
  BY <1>2, <1>5 DEF Others
<1>6. ASSUME NEW r \in Reviews, ReviewKind(r), r # q PROVE AnswerInv(q)'
  BY <1>0, <1>2, <1>6 DEF ReviewKind, Finds, Reserves, Inspects, Looks, Sees, Decides, Writes, Logs,
     Audits, Completes, Undoes, Fails, Breaks, Acts, Moved
<1>7. CASE Finds(q) \/ Reserves(q) \/ Looks(q) \/ Decides(q) \/ Breaks(q)
  BY <1>3, <1>4, <1>7 DEF Finds, Reserves, Looks, Decides, Breaks, Acts, Moved
<1>8. CASE Inspects(q)
  <2>1. CASE /\ Record(q).state = "completed" /\ BodyOf[Record(q).by] = BodyOf[q]
             /\ Moved(q, "done", calls[q].inserted, "ok", Record(q).result)
    <3>1. RecordInv(KeyOf[q])
      BY <1>0 DEF ReviewInv
    <3>2. /\ Stands(Record(q).by, Record(q).result) /\ Audited(KeyOf[q])
      BY <2>1, <3>1 DEF RecordInv, Record
    <3>3. Stands(q, Record(q).result)
      BY <2>1, <3>2 DEF Stands
    <3>4. Stands(q, Record(q).result)' /\ Audited(KeyOf[q])' /\ records' = records
      BY <1>1, <1>8, <3>2, <3>3 DEF Inspects, Stands, Record, Kept
    <3> QED
      BY <2>1, <3>4 DEF AnswerInv, At, Moved, Stands, Record
  <2> QED
    BY <1>3, <1>4, <1>8, <2>1 DEF Inspects, Moved
<1>9. CASE Sees(q)
  <2>1. Stands(q, review) /\ calls'[q].pc = "audit" /\ calls'[q].result = review /\ review' = review
    BY <1>9 DEF Sees, Stands, Moved, Kept
  <2> QED
    BY <2>1 DEF AnswerInv, At, Stands
<1>10. CASE Writes(q)
  BY <1>10 DEF Writes, Acts, Moved, AnswerInv, At
<1>11. CASE Logs(q)
  <2>1. review = q /\ calls'[q].pc = "audit" /\ calls'[q].result = q /\ review' = review
    BY <1>0, <1>11 DEF Logs, Moved, Kept, AnswerInv
  <2> QED
    BY <1>1, <2>1 DEF AnswerInv, At, Stands
<1>12. CASE Audits(q)
  <2>1. /\ Stands(q, calls[q].result) /\ calls'[q].pc = "complete" /\ q \in audited'
        /\ calls'[q].result = calls[q].result /\ review' = review
    BY <1>0, <1>12 DEF Audits, Moved, AnswerInv
  <2> QED
    BY <2>1 DEF AnswerInv, At, Stands
<1>13. CASE Completes(q)
  <2>1. CASE Moved(q, "done", calls[q].inserted, "ok", calls[q].result)
    <3>1. Stands(q, calls[q].result) /\ q \in audited /\ review' = review /\ audited' = audited
      BY <1>0, <1>13 DEF Completes, AnswerInv, Kept
    <3> QED
      BY <2>1, <3>1 DEF AnswerInv, At, Moved, Stands, Audited
  <2>2. CASE Moved(q, "undo", calls[q].inserted, "error", NoRequest)
    BY <2>2 DEF AnswerInv, At, Moved
  <2> QED
    BY <1>13, <2>1, <2>2 DEF Completes
<1>14. CASE Undoes(q)
  <2>1. calls[q].answer # "ok" /\ calls'[q].answer = calls[q].answer /\ calls'[q].pc = "done"
    BY <1>0, <1>14 DEF Undoes, Moved, AnswerInv
  <2> QED
    BY <1>4, <2>1
<1>15. CASE Fails(q)
  BY <1>15 DEF Fails, Moved, AnswerInv, At
<1> QED
  BY <1>0, <1>5, <1>6, <1>7, <1>8, <1>9, <1>10, <1>11, <1>12, <1>13, <1>14, <1>15, ReviewKinds
     DEF ReviewKind

LEMMA ReviewInvInit == ReviewInit => ReviewInv
<1> SUFFICES ASSUME ReviewInit PROVE ReviewInv
  OBVIOUS
<1> USE IdempotencyAssumption, ReviewAssumption DEF ReviewInit, IdempotencyInit
<1>1. ReviewTypeOK
  <2>1. calls \in [Requests -> CallRecords] /\ records \in [Keys -> RecordRecords]
    BY DEF NoRecord, NewCall, CallRecords, RecordRecords, Pcs, Answers
  <2>2. /\ trouble \in 0..MaxTrouble /\ now \in 0..MaxTime
        /\ left \in [analyses: 0..MaxAnalyses, sessions: 0..MaxSessions]
        /\ seen \in [Reviews -> 0..MaxTime]
    OBVIOUS
  <2>3. /\ simulated \in BOOLEAN /\ sweep \in BOOLEAN
        /\ candidate = "absent" /\ review = NoRequest /\ event = NoRequest /\ audited = {}
    OBVIOUS
  <2> QED
    BY <2>1, <2>2, <2>3 DEF ReviewTypeOK, CallRecords, RecordRecords, Pcs, Answers
<1>2. \A r \in Requests : calls[r].pc = "new" /\ calls[r].inserted = FALSE
  BY DEF NewCall
<1>3. \A r \in Requests : HoldInv(r) /\ At(r, "new")
  BY <1>2 DEF HoldInv, Holding, InAction, At
<1>4. OutcomeInv
  BY <1>2 DEF OutcomeInv, OutcomeFollowsReview, At
<1>5. \A r \in Reviews : AnswerInv(r)
  BY <1>2 DEF AnswerInv, At
<1>6. \A k \in Keys : RecordInv(k)
  BY DEF RecordInv, NoRecord
<1> QED
  BY <1>1, <1>3, <1>4, <1>5, <1>6 DEF ReviewInv

LEMMA ReviewInvStep == ReviewInv /\ [ReviewNext]_allVars => ReviewInv'
<1> SUFFICES ASSUME ReviewInv, [ReviewNext]_allVars PROVE ReviewInv'
  OBVIOUS
<1>1. ReviewTypeOK' /\ OutcomeInv'
  BY ReviewTypeStep, OutcomeStep DEF ReviewInv
<1>2. \A r \in Requests : HoldInv(r)'
  BY HoldStep DEF ReviewInv
<1>3. \A r \in Reviews : AnswerInv(r)'
  BY AnswerStep
<1>4. \A k \in Keys : RecordInv(k)'
  BY RecordStep
<1>5. \A r \in Requests \ Reviews : At(r, "new")'
  <2> SUFFICES ASSUME NEW r \in Requests \ Reviews PROVE calls'[r].pc = "new"
    BY DEF At
  <2>1. Others => calls'[r] = calls[r]
    BY DEF Others
  <2>2. ASSUME NEW q \in Reviews, ReviewKind(q) PROVE calls'[r] = calls[r]
    <3>1. r # q
      OBVIOUS
    <3>2. CASE Finds(q) \/ Reserves(q) \/ Inspects(q) \/ Looks(q) \/ Sees(q) \/ Decides(q)
      BY <3>1, <3>2 DEF Finds, Reserves, Inspects, Looks, Sees, Decides, Acts, Moved
    <3>3. CASE Writes(q) \/ Logs(q) \/ Audits(q)
      BY <3>1, <3>3 DEF Writes, Logs, Audits, Acts, Moved
    <3>4. CASE Completes(q) \/ Undoes(q) \/ Fails(q) \/ Breaks(q)
      BY <3>1, <3>4 DEF Completes, Undoes, Fails, Breaks, Acts, Moved
    <3> QED
      BY <2>2, <3>2, <3>3, <3>4 DEF ReviewKind
  <2>3. calls'[r] = calls[r]
    BY <2>1, <2>2, ReviewKinds DEF ReviewInv
  <2> QED
    BY <2>3 DEF ReviewInv, At
<1> QED
  BY <1>1, <1>2, <1>3, <1>4, <1>5 DEF ReviewInv

(* At every moment a running reservation is held by the one request that   *)
(* inserted it, a recorded answer is that of the review in the store, and  *)
(* whoever is between the two knows so: what a retried or racing           *)
(* Idempotency-Key finds is never half a review.                           *)
THEOREM ReviewInvariant == ReviewSpec => []ReviewInv
  BY ReviewInvInit, ReviewInvStep, PTL DEF ReviewSpec

(* However many requests, keys, failures and analyses there are, the state *)
(* keeps its shape.                                                        *)
THEOREM ReviewTypeCorrect == ReviewSpec => []ReviewTypeOK
<1>1. ReviewInv => ReviewTypeOK
  BY DEF ReviewInv
<1> QED
  BY <1>1, ReviewInvariant, PTL

(* A review is an action executed under the reservation.                   *)
LEMMA ReviewReserves ==
  ASSUME ReviewTypeOK, [ReviewNext]_allVars
  PROVE  [ReservationStep]_<<records, calls>>
<1>0. /\ Conducted /\ Reviews \subseteq Requests
      /\ \A r \in Requests : calls[r].result \in Requests \cup {NoRequest}
      /\ review \in Requests \cup {NoRequest}
  BY ReviewTypes DEF Conducted, Conducts, Shape, Rows, CallRecords, RecordRecords, ReviewTypeOK
<1>1. ASSUME NEW r \in Reviews, Find(r) PROVE ReservationStep
  BY <1>0, <1>1, BecomeEnters, AnswerEnters DEF Find, ReservationStep
<1>2. ASSUME NEW r \in Reviews, Look(r) \/ Decide(r) \/ Write(r) \/ Log(r) \/ Audit(r)
      PROVE  ReservationStep
  <2>1. r \in Requests /\ Executing(r) /\ ~ At(r, "complete") /\ UNCHANGED records
    BY <1>0, <1>2 DEF Look, Decide, Write, Log, Audit, Executing, At
  <2>2. Refused(r) # "ok"
    BY DEF Refused
  <2>3. CASE Look(r)
    BY <1>0, <2>1, <2>3, BecomeWorks, FailWorks, ResultWorks DEF Look, Outside, ReservationStep
  <2>4. CASE Decide(r)
    BY <1>0, <2>1, <2>2, <2>4, BecomeWorks, FailWorks DEF Decide, Outside, ReservationStep
  <2>5. CASE Write(r)
    BY <1>0, <2>1, <2>5, BecomeWorks, FailWorks DEF Write, Outside, ReservationStep
  <2>6. CASE Log(r) \/ Audit(r)
    BY <1>0, <2>1, <2>6, ResultWorks, SucceedWorks DEF Log, Audit, Outside, ReservationStep
  <2> QED
    BY <1>2, <2>3, <2>4, <2>5, <2>6
<1>3. ASSUME NEW r \in Reviews, Execute(r) PROVE ReservationStep
  BY <1>0, <1>3 DEF ReservationStep
<1>4. ASSUME NEW r \in Reviews, ReviewFault(r) PROVE ReservationStep
  <2>1. InAction \cap Outside = {}
    BY DEF InAction, Outside
  <2> QED
    BY <1>0, <1>4, <2>1, FailsAtWork, BecomeDies
       DEF ReviewFault, ProcessDies, ReservationStep
<1>5. CASE \/ PutCandidate \/ DeletePendingCandidates \/ ListDue \/ WriteExpired \/ Tick
           \/ UNCHANGED allVars
  BY <1>5 DEF PutCandidate, DeletePendingCandidates, ListDue, WriteExpired, Tick, allVars,
     idempotencyVars
<1> QED
  BY <1>1, <1>2, <1>3, <1>4, <1>5 DEF ReviewNext, Reviewing

(* The review uses its key as every mutation does, so what is proved of    *)
(* the reservation and any action holds of it.                             *)
THEOREM ReviewUsesReservation == ReviewSpec => ReservationSpec
<1>1. ReviewInit => IdempotencyInit
  BY DEF ReviewInit
<1>2. ReviewTypeOK /\ [ReviewNext]_allVars => [ReservationStep]_<<records, calls>>
  BY ReviewReserves
<1> QED
  BY <1>1, <1>2, ReviewTypeCorrect, PTL DEF ReviewSpec, ReservationSpec

(* Of the requests with one key at most one executes its action at a time, *)
(* and only while its reservation stands, whichever process dies and       *)
(* whenever the database fails.                                            *)
THEOREM OneRunPerKeyAlways == ReviewSpec => []OneRunPerKey
  BY ReviewUsesReservation, OneRunOfAnyAction, PTL

(* Whoever is told of success under a key has the key's recorded result,   *)
(* for a request identical to his, and it stays: also when the database    *)
(* fails after it has recorded it, when nobody has been told yet and a     *)
(* repetition is answered before the first request gives up.               *)
THEOREM RepeatsAlwaysAgree == ReviewSpec => []RepeatsAgree
  BY ReviewUsesReservation, RepeatsOfAnyAction, PTL

(* The incident history has an event exactly when the one final review     *)
(* confirms, never for the simulated source and never after the expiry.    *)
THEOREM OutcomeAlwaysFollowsReview == ReviewSpec => []OutcomeFollowsReview
<1>1. ReviewInv => OutcomeFollowsReview
  BY DEF ReviewInv, OutcomeInv
<1> QED
  BY <1>1, ReviewInvariant, PTL

(* Success is only answered to who asked for the decision that is stored,  *)
(* and it stays stored: no racing reviewer, repetition with the same key,  *)
(* demo clean-up or sweep replaces it.                                     *)
THEOREM AnsweredReviewAlwaysStands == ReviewSpec => []AnsweredReviewStands
<1>1. ReviewInv => AnsweredReviewStands
  BY DEF ReviewInv, AnswerInv, AnsweredReviewStands, Stands, Audited
<1> QED
  BY <1>1, ReviewInvariant, PTL

-----------------------------------------------------------------------------
(* Contacts, their numbers and the cases that name them.                   *)

Quiet == {"new", "over"}
Creating == {"create", "insert"}
Patching == {"check", "keep", "put", "update", "restore"}
Authorizing == {"resolve", "approve", "find", "quota", "find again", "resolve again", "case"}

ClientRecords ==
  [pc: Quiet \cup Creating \cup Patching \cup Authorizing \cup {"drop", "read", "delete"},
   change: Changes \cup {Nowhere}, read: Row \cup {Nowhere}, old: Numbers \cup {Nowhere},
   primary: Contacts \cup {Nowhere}, supervisor: Contacts \cup {Nowhere}]
CaseRecords ==
  [state: {"none", "active", "closed"}, key: {KeyFor[a] : a \in Clients} \cup {Nowhere},
   primary: Contacts \cup {Nowhere}, supervisor: Contacts \cup {Nowhere}]
DialerRecords == [pc: {"idle", "call"}, contact: Contacts \cup {Nowhere}, clean: BOOLEAN]

ContactTypes ==
  /\ rows \in [Contacts -> Row]
  /\ numbers \in [Contacts -> Numbers \cup {Nowhere}]
  /\ cases \in [Incidents -> CaseRecords]
  /\ client \in [Clients -> ClientRecords]
  /\ dialer \in [Incidents -> DialerRecords]
  /\ outages \in 0..MaxOutages
  /\ upset \cup unsure \subseteq Contacts /\ hasty \in Nat

\* Where a request has given, or may have given, the contact a new number.
Renumbered(a) == In(a, "restore") \/ (In(a, "update") /\ Want(a).number # Keep)

\* What a request holds at each of its steps.
ClientInv(a) ==
  /\ In(a, "new") => Want(a) = Nowhere
  /\ client[a].pc \notin Quiet => Want(a) \in Changes
  /\ client[a].pc \in Creating => Want(a).op = "create"
  /\ client[a].pc \in Patching => Want(a).op = "patch" /\ client[a].read \in Row
  /\ In(a, "drop") => Want(a).op \in {"create", "delete"}
  /\ In(a, "read") => Want(a).op \in {"patch", "delete"}
  /\ In(a, "delete") => Want(a).op = "delete"
  /\ client[a].pc \in Authorizing => Want(a).op = "authorize"
  /\ In(a, "put") \/ Renumbered(a) => client[a].old \in Numbers
  /\ client[a].pc \in {"keep", "put", "restore"} => Want(a).number # Keep
  /\ client[a].pc \in {"approve", "case"} =>
       {client[a].primary, client[a].supervisor} \subseteq Contacts

\* A secret without a row belongs to the one request that creates or deletes
\* the contact, unless a commit was answered by an error.
Halfway(a) == client[a].pc \in {"insert", "drop"} /\ Subject(a) \notin unsure
SecretInv ==
  /\ \A c \in Contacts \ unsure : rows[c].there => numbers[c] # Nowhere
  /\ \A a \in Clients : Halfway(a) => ~ rows[Subject(a)].there /\ numbers[Subject(a)] # Nowhere
  /\ \A a, b \in Clients : Halfway(a) /\ Halfway(b) /\ Subject(a) = Subject(b) => a = b

CaseInv(i) ==
  cases[i].state # "none" =>
    /\ {cases[i].primary, cases[i].supervisor} \subseteq Contacts
    /\ rows[cases[i].primary].there /\ rows[cases[i].supervisor].there

\* Number and row of a contact during the one request that changes it.
Tells(c) == rows[c].there => rows[c].mask = numbers[c]
Vetted(opted, number) == opted => number \in Approved
Midway(a) ==
  LET c == Subject(a)
      read == client[a].read IN
  /\ client[a].pc \in {"create", "read", "check", "delete", "keep", "put"} => Tells(c)
  /\ In(a, "insert") => numbers[c] = Want(a).number /\ Vetted(Want(a).opted, Want(a).number)
  /\ client[a].pc \in Patching => read = rows[c] /\ read.there
  /\ In(a, "put") => client[a].old = numbers[c]
  /\ In(a, "update") => numbers[c] = Merged(Want(a).number, read.mask)
  /\ Renumbered(a) => client[a].old = read.mask
  /\ client[a].pc \in {"keep", "put", "update"} =>
       Vetted(Merged(Want(a).opted, read.opted), Merged(Want(a).number, read.mask))

RestInv(c) ==
  c \notin upset \cup unsure =>
    /\ Changing(c) = {} => Tells(c)
    /\ Vetted(rows[c].there /\ rows[c].opted, rows[c].mask)
    /\ \A a, b \in Changing(c) : a = b
    /\ \A a \in Changing(c) : Midway(a)

\* A call that is made for a contact at rest.
DialInv(i) ==
  dialer[i].pc = "call" =>
    /\ cases[i].state # "none" /\ dialer[i].contact \in {cases[i].primary, cases[i].supervisor}
    /\ dialer[i].clean /\ dialer[i].contact \notin unsure =>
         /\ numbers[dialer[i].contact] \in Approved
         /\ \A a \in Clients : Renumbered(a) => Subject(a) # dialer[i].contact

Made == {i \in Incidents : cases[i].state # "none"}
FirstCase(a) == a \in Making /\ KeyCase(a) = {}
First == {a \in Clients : FirstCase(a)}
QuotaInv ==
  /\ IsFiniteSet(Made) /\ IsFiniteSet(First)
  /\ Today + Cardinality(First) <= DayQuota + hasty

ContactInv ==
  /\ ContactTypes
  /\ \A a \in Clients : ClientInv(a)
  /\ SecretInv
  /\ \A i \in Incidents : CaseInv(i)
  /\ \A c \in Contacts : RestInv(c)
  /\ \A i \in Incidents : DialInv(i)
  /\ CallIsLetThrough
  /\ QuotaInv
-----------------------------------------------------------------------------
(* What a step does to the contacts and to the request that takes it.      *)

LEMMA ChangeTypes ==
  ASSUME NEW change \in Changes
  PROVE  /\ change.op \in {"create", "patch", "delete", "authorize"}
         /\ change.op = "authorize" => change.incident \in Incidents
         /\ change.op # "authorize" => change.contact \in Contacts
         /\ change.op = "create" =>
              /\ change.role \in Role /\ change.number \in Numbers
              /\ change.enabled \in BOOLEAN /\ change.opted \in BOOLEAN
         /\ change.op = "patch" =>
              /\ change.role \in Role \cup {Keep} /\ change.number \in Numbers \cup {Keep}
              /\ change.enabled \in BOOLEAN \cup {Keep} /\ change.opted \in BOOLEAN \cup {Keep}
  BY DirectoryAssumption DEF Change

Live == Creating \cup Patching \cup Authorizing \cup {"drop", "read", "delete"}

\* Request a alone takes a step: it is over, or it goes on to pc with what it holds.
Alone(a) == /\ client' \in [Clients -> ClientRecords]
            /\ \A b \in Clients \ {a} : client'[b] = client[b]
Over(a) == /\ Alone(a) /\ client'[a].pc = "over"
Goes(a, pc) == /\ Alone(a) /\ client'[a].pc = pc
               /\ client'[a].change = client[a].change
Holds(a) == /\ client'[a].read = client[a].read /\ client'[a].old = client[a].old
            /\ client'[a].primary = client[a].primary
            /\ client'[a].supervisor = client[a].supervisor

LEMMA Going ==
  ASSUME ContactTypes, NEW a \in Clients, NEW pc, Goto(a, pc)
  PROVE  /\ pc \in Ends => Over(a)
         /\ pc \in Live => Goes(a, pc) /\ Holds(a)
<1>1. CASE pc \in Ends
  <2>1. client' = [client EXCEPT ![a] = [Idle EXCEPT !.pc = "over"]]
    BY <1>1 DEF Goto
  <2>2. [Idle EXCEPT !.pc = "over"] \in ClientRecords /\ [Idle EXCEPT !.pc = "over"].pc = "over"
    BY DEF Idle, ClientRecords, Quiet
  <2>3. Over(a)
    BY <2>1, <2>2 DEF ContactTypes, Over, Alone
  <2>4. pc \notin Live
    BY <1>1 DEF Ends, Live, Creating, Patching, Authorizing
  <2> QED
    BY <2>3, <2>4
<1>2. CASE pc \notin Ends
  <2>1. client' = [client EXCEPT ![a] = [client[a] EXCEPT !.pc = pc]]
    BY <1>2 DEF Goto
  <2>2. CASE pc \in Live
    BY <1>2, <2>1, <2>2 DEF ContactTypes, ClientRecords, Goes, Alone, Holds, Live
  <2> QED
    BY <1>2, <2>2
<1> QED
  BY <1>1, <1>2

Still == UNCHANGED <<rows, numbers, cases, dialer, unsure, barred>>
MakingPcs == {"find again", "resolve again", "case"}

Arrives(a) ==
  /\ In(a, "new") /\ Still /\ UNCHANGED hasty /\ Alone(a)
  /\ \E change \in Changes :
       /\ client'[a].change = change
       /\ client'[a].pc = CASE change.op = "create" -> "create"
                            [] change.op \in {"patch", "delete"} -> "read"
                            [] change.op = "authorize" -> "resolve"
       /\ upset' = IF change.op # "authorize" /\ Changing(change.contact) # {}
                   THEN upset \cup {change.contact} ELSE upset
Leaves(a) ==
  /\ client[a].pc \in Live /\ Over(a) /\ Still /\ UNCHANGED hasty
  /\ \/ /\ \/ client[a].pc \in Authorizing \cup {"create", "read", "check", "keep", "delete"}
           \/ In(a, "update") /\ (Want(a).number = Keep \/ ~ rows[Subject(a)].there)
        /\ UNCHANGED upset
     \/ /\ client[a].pc \notin Authorizing
        /\ upset' = upset \cup {Subject(a)}
Reads(a) ==
  /\ In(a, "read") /\ Still /\ UNCHANGED <<upset, hasty>>
  /\ rows[Subject(a)].there /\ client'[a].read = rows[Subject(a)]
  /\ IF Want(a).op = "delete" THEN Goes(a, "delete") ELSE Goes(a, "check")
Checks(a) ==
  /\ In(a, "check") /\ Still /\ UNCHANGED <<upset, hasty>> /\ Holds(a)
  /\ Vetted(Merged(Want(a).opted, client[a].read.opted),
            Merged(Want(a).number, numbers[Subject(a)]))
  /\ IF Want(a).number = Keep THEN Goes(a, "update") ELSE Goes(a, "keep")
Keeps(a) ==
  /\ In(a, "keep") /\ Still /\ UNCHANGED <<upset, hasty>> /\ Goes(a, "put")
  /\ numbers[Subject(a)] # Nowhere
  /\ client'[a].old = numbers[Subject(a)] /\ client'[a].read = client[a].read
Falters(a) ==
  /\ Still /\ UNCHANGED <<upset, hasty>> /\ Holds(a)
  /\ \/ In(a, "insert") /\ Goes(a, "drop")
     \/ In(a, "update") /\ Want(a).number # Keep /\ Goes(a, "restore")
Authorizes(a) ==
  /\ client[a].pc \in Authorizing \ {"quota"} /\ Still /\ UNCHANGED <<upset, hasty>>
  /\ \E pc \in Authorizing : Goes(a, pc)
  /\ client'[a].pc \in {"approve", "case"} =>
       {client'[a].primary, client'[a].supervisor} \subseteq Contacts
  /\ client'[a].pc \in MakingPcs => client[a].pc \in MakingPcs \/ KeyCase(a) # {}
Quotas(a) ==
  /\ In(a, "quota") /\ Still /\ UNCHANGED upset
  /\ IF Today >= DayQuota THEN Over(a) ELSE Goes(a, "find again")
  /\ hasty' = IF Today < DayQuota /\ Making # {} THEN hasty + 1 ELSE hasty

\* The number of a contact is written, and the row of a contact.
Renumbering(c) == UNCHANGED <<rows, cases, unsure, barred, hasty>>
UpsetOrNot(c) == upset' \in {upset, upset \cup {c}}
Creates(a) ==
  LET c == Subject(a) IN
  /\ In(a, "create") /\ Renumbering(c) /\ UNCHANGED <<upset, dialer>>
  /\ Goes(a, "insert") \/ Over(a)
  /\ Vetted(Want(a).opted, Want(a).number)
  /\ ~ rows[c].there /\ numbers[c] = Nowhere
  /\ numbers' = [numbers EXCEPT ![c] = Want(a).number]
Drops(a) ==
  /\ In(a, "drop") /\ Renumbering(Subject(a)) /\ UNCHANGED dialer /\ Over(a)
  /\ UpsetOrNot(Subject(a))
  /\ numbers' = [numbers EXCEPT ![Subject(a)] = Nowhere]
Renumbers(a) ==
  LET c == Subject(a)
      new == [numbers EXCEPT ![c] = Want(a).number] IN
  /\ In(a, "put") /\ Renumbering(c)
  /\ \/ Over(a) /\ UNCHANGED <<numbers, upset>>
     \/ Goes(a, "update") /\ Holds(a) /\ numbers' = new /\ UNCHANGED upset
     \/ Over(a) /\ numbers[c] # Nowhere /\ numbers' \in {numbers, new} /\ upset' = upset \cup {c}
  /\ dialer' = [i \in Incidents |-> [dialer[i] EXCEPT !.clean = @ /\ dialer[i].contact # c]]
Restores(a) ==
  /\ In(a, "restore") /\ Renumbering(Subject(a)) /\ UNCHANGED dialer /\ Over(a)
  /\ UpsetOrNot(Subject(a))
  /\ numbers' = IF numbers[Subject(a)] = Nowhere THEN numbers
                ELSE [numbers EXCEPT ![Subject(a)] = client[a].old]

RowChange(a) == UNCHANGED <<numbers, cases, dialer, barred, hasty>>
NewRow(a) ==
  [there |-> TRUE, role |-> Want(a).role, enabled |-> Want(a).enabled,
   opted |-> Want(a).opted, mask |-> Want(a).number]
PatchedRow(a) ==
  LET read == client[a].read IN
  [there |-> TRUE, role |-> Merged(Want(a).role, read.role),
   enabled |-> Merged(Want(a).enabled, read.enabled),
   opted |-> Merged(Want(a).opted, read.opted),
   mask |-> Merged(Want(a).number, read.mask)]
Inserts(a) ==
  /\ In(a, "insert") /\ RowChange(a) /\ UNCHANGED <<upset, unsure>> /\ Over(a)
  /\ rows' = [rows EXCEPT ![Subject(a)] = NewRow(a)]
Updates(a) ==
  /\ In(a, "update") /\ RowChange(a) /\ UNCHANGED <<upset, unsure>> /\ Over(a)
  /\ rows[Subject(a)].there
  /\ rows' = [rows EXCEPT ![Subject(a)] = PatchedRow(a)]
\* The row is written, and the request goes on as if it were not.
Unanswered(a) ==
  /\ RowChange(a) /\ UNCHANGED upset /\ unsure' = unsure \cup {Subject(a)} /\ Holds(a)
  /\ \/ In(a, "insert") /\ Goes(a, "drop") /\ rows' = [rows EXCEPT ![Subject(a)] = NewRow(a)]
     \/ /\ In(a, "update") /\ Goes(a, "restore") /\ Want(a).number # Keep
        /\ rows' = [rows EXCEPT ![Subject(a)] = PatchedRow(a)]
Deletes(a) ==
  /\ In(a, "delete") /\ RowChange(a) /\ UNCHANGED unsure
  /\ \/ Goes(a, "drop") /\ UNCHANGED upset
     \/ Over(a) /\ upset' = upset \cup {Subject(a)}
  /\ ~ InUse(Subject(a)) /\ rows[Subject(a)].there
  /\ rows' = [rows EXCEPT ![Subject(a)].there = FALSE]

Makes(a) ==
  LET i == Want(a).incident IN
  /\ In(a, "case") /\ Over(a)
  /\ UNCHANGED <<rows, numbers, dialer, upset, unsure, barred, hasty>>
  /\ KeyCase(a) = {} /\ cases[i].state = "none"
  /\ rows[client[a].primary].there /\ rows[client[a].supervisor].there
  /\ cases' = [cases EXCEPT ![i] =
       [state |-> "active", key |-> KeyFor[a], primary |-> client[a].primary,
        supervisor |-> client[a].supervisor]]
Closes(i) ==
  /\ cases[i].state = "active"
  /\ cases' = [cases EXCEPT ![i].state = "closed"]
  /\ UNCHANGED <<rows, numbers, client, dialer, upset, unsure, barred, hasty>>
LooksUp(i) ==
  /\ cases[i].state # "none"
  /\ \E c \in {cases[i].primary, cases[i].supervisor} :
       /\ rows[c].there /\ rows[c].opted
       /\ dialer' = [dialer EXCEPT ![i] =
            [pc |-> "call", contact |-> c, clean |-> Changing(c) = {} /\ c \notin upset]]
  /\ UNCHANGED <<rows, numbers, cases, client, upset, unsure, barred, hasty>>
Places(i) ==
  LET c == dialer[i].contact IN
  /\ dialer[i].pc = "call"
  /\ dialer' = [dialer EXCEPT ![i] = NoCall]
  /\ barred' = IF dialer[i].clean /\ c \notin unsure /\ numbers[c] \notin Approved
               THEN barred \cup {c} ELSE barred
  /\ UNCHANGED <<rows, numbers, cases, client, upset, unsure, hasty>>

ClientKind(a) ==
  \/ Arrives(a) \/ Leaves(a) \/ Reads(a) \/ Checks(a) \/ Keeps(a) \/ Falters(a)
  \/ Authorizes(a) \/ Quotas(a)  \/ Creates(a) \/ Drops(a) \/ Renumbers(a) \/ Restores(a)
  \/ Inserts(a) \/ Updates(a) \/ Unanswered(a) \/ Deletes(a) \/ Makes(a)
WorkerKind(i) == Closes(i) \/ LooksUp(i) \/ Places(i)

Known == ContactTypes /\ \A a \in Clients : ClientInv(a)

LEMMA ClientFacts ==
  ASSUME Known, NEW a \in Clients
  PROVE  /\ client \in [Clients -> ClientRecords] /\ client[a] \in ClientRecords
         /\ ClientInv(a)
         /\ client[a].pc \in Live =>
              /\ Want(a) \in Changes
              /\ Want(a).op = "authorize" <=> client[a].pc \in Authorizing
              /\ Want(a).op # "authorize" => Subject(a) \in Contacts
<1>1. client \in [Clients -> ClientRecords] /\ client[a] \in ClientRecords /\ ClientInv(a)
  BY DEF Known, ContactTypes
<1>2. ASSUME client[a].pc \in Live
      PROVE  /\ Want(a) \in Changes
             /\ Want(a).op = "authorize" <=> client[a].pc \in Authorizing
  BY <1>1, <1>2 DEF ClientInv, Live, Quiet, Creating, Patching, Authorizing, In
<1>3. ASSUME client[a].pc \in Live, Want(a).op # "authorize" PROVE Subject(a) \in Contacts
  BY <1>2, <1>3, ChangeTypes DEF Subject
<1> QED
  BY <1>1, <1>2, <1>3

LEMMA ContactKinds ==
  ASSUME Known, ContactNext
  PROVE  (\E a \in Clients : ClientKind(a)) \/ (\E i \in Incidents : WorkerKind(i))
<1>0. ContactTypes
  BY DEF Known
<1>0a. ASSUME NEW a \in Clients, NEW request \in ClientRecords,
              client' = [client EXCEPT ![a] = request]
       PROVE  Alone(a) /\ client'[a] = request
  BY <1>0a, ClientFacts DEF Alone
<1>1. ASSUME NEW a \in Clients, NEW change \in Changes, Arrive(a, change) PROVE Arrives(a)
  <2> DEFINE pc == CASE change.op = "create" -> "create"
                     [] change.op \in {"patch", "delete"} -> "read"
                     [] change.op = "authorize" -> "resolve"
  <2>1. pc \in {"create", "read", "resolve"}
    BY ChangeTypes
  <2>2. client' = [client EXCEPT ![a] = [client[a] EXCEPT !.change = change, !.pc = pc]]
    <3>1. client' = [client EXCEPT ![a].change = change, ![a].pc = pc]
      BY <1>1 DEF Arrive
    <3> HIDE DEF pc
    <3> QED
      BY <3>1
  <2>3. Alone(a) /\ client'[a].change = change /\ client'[a].pc = pc
    <3> HIDE DEF pc
    <3> DEFINE request == [client[a] EXCEPT !.change = change, !.pc = pc]
    <3>1. client[a] \in ClientRecords
      BY ClientFacts
    <3>2. request \in ClientRecords
      BY <2>1, <3>1 DEF ClientRecords, Creating, Authorizing
    <3>3. request.change = change /\ request.pc = pc
      BY <3>1 DEF ClientRecords
    <3> HIDE DEF request
    <3> QED
      BY <1>0a, <2>2, <3>2, <3>3 DEF request
  <2> QED
    BY <1>1, <2>3 DEF Arrive, Arrives, Still, Upset
<1>2. ASSUME NEW a \in Clients, CreateSecret(a) PROVE Creates(a) \/ Leaves(a)
  <2> DEFINE c == Subject(a)
             new == [numbers EXCEPT ![c] = Want(a).number]
             sound == /\ Vetted(Want(a).opted, Want(a).number)
                      /\ ~ rows[c].there /\ numbers[c] = Nowhere /\ numbers' = new
  <2>0. In(a, "create") /\ Renumbering(c) /\ UNCHANGED <<upset, dialer>>
    BY <1>2 DEF CreateSecret, Renumbering
  <2>1. \/ Goto(a, "insert") /\ sound
        \/ Goto(a, "failed") /\ (numbers' = numbers \/ sound)
        \/ Goto(a, "refused") /\ numbers' = numbers
    BY <1>2 DEF CreateSecret, Vetted
  <2> HIDE DEF sound
  <2>2. CASE Goto(a, "insert") /\ sound
    <3>1. Goes(a, "insert")
      BY <1>0, <2>2, Going DEF Live, Creating
    <3> QED
      BY <2>0, <2>2, <3>1 DEF Creates, sound
  <2>3. CASE (Goto(a, "failed") \/ Goto(a, "refused")) /\ (numbers' = numbers \/ sound)
    <3>1. Over(a)
      BY <1>0, <2>3, Going DEF Ends
    <3>2. CASE sound
      BY <2>0, <3>1, <3>2 DEF Creates, sound
    <3>3. CASE numbers' = numbers
      BY <2>0, <3>1, <3>3 DEF Renumbering, Leaves, Live, Creating, In, Still
    <3> QED
      BY <2>3, <3>2, <3>3
  <2> QED
    BY <2>1, <2>2, <2>3
<1>3. ASSUME NEW a \in Clients, InsertRow(a) PROVE Inserts(a) \/ Falters(a) \/ Unanswered(a)
  <2>0. In(a, "insert") /\ RowChange(a) /\ UNCHANGED upset
    BY <1>3 DEF InsertRow, RowChange
  <2>1. \/ /\ Goto(a, "done") /\ UNCHANGED unsure
           /\ rows' = [rows EXCEPT ![Subject(a)] = NewRow(a)]
        \/ Goto(a, "drop") /\ UNCHANGED <<rows, unsure>>
        \/ /\ Goto(a, "drop") /\ unsure' = unsure \cup {Subject(a)}
           /\ rows' = [rows EXCEPT ![Subject(a)] = NewRow(a)]
    BY <1>3 DEF InsertRow, NewRow, Unsure
  <2>2. /\ Goto(a, "done") => Over(a)
        /\ Goto(a, "drop") => Goes(a, "drop") /\ Holds(a)
    BY <1>0, Going DEF Live, Ends
  <2> QED
    BY <2>0, <2>1, <2>2 DEF Inserts, Falters, Unanswered, RowChange, Still
<1>4. ASSUME NEW a \in Clients, DropSecret(a) PROVE Drops(a) \/ Leaves(a)
  <2>1. (IF Want(a).op = "delete" THEN "done" ELSE "refused") \in Ends /\ "failed" \in Ends
    BY DEF Ends
  <2>2. Over(a)
    BY <1>0, <1>4, <2>1, Going DEF DropSecret
  <2>3. In(a, "drop") /\ Renumbering(Subject(a)) /\ UNCHANGED dialer
    BY <1>4 DEF DropSecret, Renumbering
  <2>4. \/ UpsetOrNot(Subject(a)) /\ numbers' = [numbers EXCEPT ![Subject(a)] = Nowhere]
        \/ upset' = upset \cup {Subject(a)} /\ numbers' = numbers
    BY <1>4 DEF DropSecret, Upset, UpsetOrNot
  <2> QED
    BY <2>2, <2>3, <2>4 DEF Drops, Leaves, Renumbering, Live, Authorizing, In, Still
<1>5. ASSUME NEW a \in Clients, ReadRow(a) PROVE Reads(a) \/ Leaves(a)
  <2>1. CASE rows[Subject(a)].there
    <3> DEFINE row == rows[Subject(a)]
               pc == IF Want(a).op = "delete" THEN "delete" ELSE "check"
    <3>1. client' = [client EXCEPT ![a] = [client[a] EXCEPT !.read = row, !.pc = pc]]
      BY <1>5, <2>1 DEF ReadRow
    <3>2. row \in Row /\ pc \in {"delete", "check"}
      <4>1. In(a, "read") /\ Subject(a) \in Contacts
        BY <1>5, ClientFacts DEF ReadRow, In, Live, Authorizing
      <4> QED
        BY <1>0, <4>1 DEF ContactTypes
    <3>3. Goes(a, pc) /\ client'[a].read = row
      <4> HIDE DEF row, pc
      <4> DEFINE request == [client[a] EXCEPT !.read = row, !.pc = pc]
      <4>1. client[a] \in ClientRecords
        BY ClientFacts
      <4>2. request \in ClientRecords
        BY <3>2, <4>1 DEF ClientRecords, Patching
      <4>3. request.read = row /\ request.pc = pc /\ request.change = client[a].change
        BY <4>1 DEF ClientRecords
      <4>4. Alone(a) /\ client'[a] = request
        BY <1>0a, <3>1, <4>2
      <4> QED
        BY <4>3, <4>4 DEF Goes
    <3> QED
      BY <1>5, <2>1, <3>3 DEF ReadRow, Reads, Still
  <2>2. CASE ~ rows[Subject(a)].there
    BY <1>0, <1>5, <2>2, Going DEF ReadRow, Leaves, Live, Ends, In, Still
  <2> QED
    BY <2>1, <2>2
<1>6. ASSUME NEW a \in Clients, CheckNumber(a) PROVE Checks(a) \/ Leaves(a)
  <2> DEFINE bad == /\ Merged(Want(a).opted, client[a].read.opted)
                    /\ Merged(Want(a).number, numbers[Subject(a)]) \notin Approved
  <2>1. CASE bad \/ Goto(a, "failed")
    <3>1. Over(a)
      BY <1>0, <1>6, <2>1, Going DEF CheckNumber, Ends
    <3> QED
      BY <1>6, <3>1 DEF CheckNumber, Leaves, Live, Patching, In, Still
  <2>2. CASE ~ bad /\ ~ Goto(a, "failed")
    <3>1. Goto(a, IF Want(a).number = Keep THEN "update" ELSE "keep")
      BY <1>6, <2>2 DEF CheckNumber
    <3>2. /\ Want(a).number = Keep => Goes(a, "update") /\ Holds(a)
          /\ Want(a).number # Keep => Goes(a, "keep") /\ Holds(a)
      BY <1>0, <3>1, Going DEF Live, Patching
    <3> QED
      BY <1>6, <2>2, <3>2 DEF CheckNumber, Checks, Vetted, Still
  <2> QED
    BY <2>1, <2>2
<1>7. ASSUME NEW a \in Clients, KeepOldNumber(a) PROVE Keeps(a) \/ Leaves(a)
  <2>1. CASE numbers[Subject(a)] = Nowhere
    BY <1>0, <1>7, <2>1, Going DEF KeepOldNumber, Leaves, Live, Patching, Ends, In, Still
  <2>2. CASE numbers[Subject(a)] # Nowhere
    <3> DEFINE n == numbers[Subject(a)]
    <3>1. client' = [client EXCEPT ![a] = [client[a] EXCEPT !.pc = "put", !.old = n]]
      BY <1>7, <2>2 DEF KeepOldNumber
    <3>2. n \in Numbers
      <4>1. In(a, "keep") /\ Subject(a) \in Contacts
        BY <1>7, ClientFacts DEF KeepOldNumber, In, Live, Patching, Authorizing
      <4> QED
        BY <1>0, <2>2, <4>1 DEF ContactTypes
    <3>3. Goes(a, "put") /\ client'[a].old = n /\ client'[a].read = client[a].read
      <4> HIDE DEF n
      <4> QED
        BY <3>1, <3>2, ClientFacts DEF Goes, Alone, ClientRecords, Patching
    <3> QED
      BY <1>7, <2>2, <3>3 DEF KeepOldNumber, Keeps, Still
  <2> QED
    BY <2>1, <2>2
<1>8. ASSUME NEW a \in Clients, PutSecret(a) PROVE Renumbers(a)
  BY <1>0, <1>8, Going DEF PutSecret, Renumbers, Renumbering, Live, Patching, Ends, Upset
<1>9. ASSUME NEW a \in Clients, UpdateRow(a)
      PROVE  Updates(a) \/ Leaves(a) \/ Falters(a) \/ Unanswered(a)
  <2> DEFINE broken == IF Want(a).number = Keep THEN "refused" ELSE "restore"
             written == /\ rows[Subject(a)].there
                        /\ rows' = [rows EXCEPT ![Subject(a)] = PatchedRow(a)]
  <2>0. In(a, "update") /\ RowChange(a) /\ UNCHANGED upset
    BY <1>9 DEF UpdateRow, RowChange
  <2>1. \/ Goto(a, "done") /\ written /\ UNCHANGED unsure
        \/ Goto(a, "refused") /\ ~ rows[Subject(a)].there /\ UNCHANGED <<rows, unsure>>
        \/ Goto(a, broken) /\ UNCHANGED <<rows, unsure>>
        \/ /\ Goto(a, broken) /\ written
           /\ IF broken = "restore" THEN unsure' = unsure \cup {Subject(a)} ELSE UNCHANGED unsure
    BY <1>9 DEF UpdateRow, PatchedRow, Unsure
  <2>2. /\ Goto(a, "done") \/ Goto(a, "refused") => Over(a)
        /\ Goto(a, "restore") => Goes(a, "restore") /\ Holds(a)
    BY <1>0, Going DEF Live, Patching, Ends
  <2> HIDE DEF written
  <2>3. CASE Want(a).number = Keep
    <3>1. Over(a) /\ UNCHANGED unsure /\ (written \/ UNCHANGED rows)
      BY <2>1, <2>2, <2>3
    <3> QED
      BY <2>0, <2>3, <3>1 DEF written, RowChange, Updates, Leaves, Live, Patching, In, Still
  <2>4. CASE Want(a).number # Keep
    <3>1. \/ Over(a) /\ written /\ UNCHANGED unsure
          \/ Over(a) /\ ~ rows[Subject(a)].there /\ UNCHANGED <<rows, unsure>>
          \/ Goes(a, "restore") /\ Holds(a) /\ UNCHANGED <<rows, unsure>>
          \/ Goes(a, "restore") /\ Holds(a) /\ written /\ unsure' = unsure \cup {Subject(a)}
      BY <2>1, <2>2, <2>4
    <3> QED
      BY <2>0, <2>4, <3>1 DEF written, RowChange, Updates, Leaves, Falters, Unanswered, Live,
         Patching, In, Still
  <2> QED
    BY <2>3, <2>4
<1>10. ASSUME NEW a \in Clients, RestoreSecret(a) PROVE Restores(a) \/ Leaves(a)
  <2>1. Over(a)
    BY <1>0, <1>10, Going DEF RestoreSecret, Ends
  <2>2. In(a, "restore") /\ Renumbering(Subject(a)) /\ UNCHANGED dialer
    BY <1>10 DEF RestoreSecret, Renumbering
  <2>3. \/ /\ UpsetOrNot(Subject(a))
           /\ numbers' = IF numbers[Subject(a)] = Nowhere THEN numbers
                         ELSE [numbers EXCEPT ![Subject(a)] = client[a].old]
        \/ upset' = upset \cup {Subject(a)} /\ numbers' = numbers
    BY <1>10 DEF RestoreSecret, Upset, UpsetOrNot
  <2> QED
    BY <2>1, <2>2, <2>3 DEF Restores, Leaves, Renumbering, Live, Patching, Authorizing, In, Still
<1>11. ASSUME NEW a \in Clients, DeleteRow(a) PROVE Deletes(a) \/ Leaves(a)
  <2> DEFINE free == ~ InUse(Subject(a)) /\ rows[Subject(a)].there
             gone == rows' = [rows EXCEPT ![Subject(a)].there = FALSE]
  <2>0. In(a, "delete") /\ RowChange(a) /\ UNCHANGED unsure
    BY <1>11 DEF DeleteRow, RowChange
  <2>1. \/ Goto(a, "refused") /\ UNCHANGED <<rows, upset>>
        \/ Goto(a, "drop") /\ free /\ gone /\ UNCHANGED upset
        \/ Goto(a, "failed") /\ free /\ (rows' = rows \/ gone) /\ upset' = upset \cup {Subject(a)}
    BY <1>11 DEF DeleteRow, Upset
  <2>2. /\ Goto(a, "refused") \/ Goto(a, "failed") => Over(a)
        /\ Goto(a, "drop") => Goes(a, "drop")
    BY <1>0, Going DEF Live, Ends
  <2> HIDE DEF free, gone
  <2>3. \/ Over(a) /\ UNCHANGED <<rows, upset>>
        \/ Over(a) /\ rows' = rows /\ upset' = upset \cup {Subject(a)}
        \/ /\ free /\ gone
           /\ \/ Goes(a, "drop") /\ UNCHANGED upset
              \/ Over(a) /\ upset' = upset \cup {Subject(a)}
    <3>1. CASE Goto(a, "refused") /\ UNCHANGED <<rows, upset>>
      BY <2>2, <3>1
    <3>2. CASE Goto(a, "drop") /\ free /\ gone /\ UNCHANGED upset
      BY <2>2, <3>2
    <3>3. CASE /\ Goto(a, "failed") /\ free /\ (rows' = rows \/ gone)
               /\ upset' = upset \cup {Subject(a)}
      BY <2>2, <3>3
    <3> QED
      BY <2>1, <3>1, <3>2, <3>3
  <2> QED
    <3>1. client[a].pc \in Live /\ client[a].pc = "delete" /\ client[a].pc \notin Authorizing
      BY <2>0 DEF Live, In, Authorizing
    <3>2. CASE /\ free /\ gone
               /\ \/ Goes(a, "drop") /\ UNCHANGED upset
                  \/ Over(a) /\ upset' = upset \cup {Subject(a)}
      BY <2>0, <3>2 DEF free, gone, Deletes
    <3>3. CASE Over(a) /\ rows' = rows /\ (UNCHANGED upset \/ upset' = upset \cup {Subject(a)})
      BY <2>0, <3>1, <3>3 DEF Leaves, RowChange, Still
    <3> QED
      BY <2>3, <3>2, <3>3
<1>12. ASSUME NEW a \in Clients, Resolve(a) PROVE Authorizes(a) \/ Leaves(a)
  <2>1. In(a, "resolve") \/ In(a, "resolve again")
    BY <1>12 DEF Resolve, In
  <2>2. CASE Goto(a, "refused")
    BY <1>0, <1>12, <2>1, <2>2, Going DEF Resolve, Leaves, Live, Authorizing, Ends, In, Still
  <2>3. CASE ~ Goto(a, "refused")
    <3>1. PICK path \in Path :
            client' = [client EXCEPT
              ![a].pc = IF @ = "resolve" THEN "approve" ELSE "case",
              ![a].primary = path[1], ![a].supervisor = path[2]]
      BY <1>12, <2>3 DEF Resolve
    <3> DEFINE pc == IF client[a].pc = "resolve" THEN "approve" ELSE "case"
    <3>2. path[1] \in Contacts /\ path[2] \in Contacts
      BY DEF Path, Available
    <3>3. pc \in {"approve", "case"} /\ (pc = "case" => In(a, "resolve again"))
      BY <2>1 DEF In
    <3>4. client' = [client EXCEPT ![a] = [client[a] EXCEPT !.pc = pc, !.primary = path[1],
                                                            !.supervisor = path[2]]]
      BY <3>1, ClientFacts
    <3>5. /\ Goes(a, pc) /\ client'[a].primary = path[1] /\ client'[a].supervisor = path[2]
      <4> HIDE DEF pc
      <4> DEFINE request == [client[a] EXCEPT !.pc = pc, !.primary = path[1],
                                              !.supervisor = path[2]]
      <4>1. client[a] \in ClientRecords
        BY ClientFacts
      <4>2. request \in ClientRecords
        BY <3>2, <3>3, <4>1 DEF ClientRecords, Authorizing
      <4>3. /\ request.pc = pc /\ request.change = client[a].change
            /\ request.primary = path[1] /\ request.supervisor = path[2]
        BY <4>1 DEF ClientRecords
      <4>4. Alone(a) /\ client'[a] = request
        BY <1>0a, <3>4, <4>2
      <4> QED
        BY <4>3, <4>4 DEF Goes
    <3> HIDE DEF pc
    <3> QED
      BY <1>12, <2>1, <3>2, <3>3, <3>5 DEF Resolve, Authorizes, Authorizing, MakingPcs, In, Goes,
           Still
  <2> QED
    BY <2>2, <2>3
<1>13. ASSUME NEW a \in Clients, Approve(a) PROVE Authorizes(a) \/ Leaves(a)
  <2>1. Goto(a, "find") \/ Goto(a, "refused")
    BY <1>13 DEF Approve
  <2>2. CASE Goto(a, "refused")
    BY <1>0, <1>13, <2>2, Going DEF Approve, Leaves, Live, Authorizing, Ends, In, Still
  <2>3. CASE Goto(a, "find")
    <3>1. Goes(a, "find")
      BY <1>0, <2>3, Going DEF Live, Authorizing
    <3> QED
      BY <1>13, <3>1 DEF Approve, Authorizes, Authorizing, MakingPcs, In, Goes, Still
  <2> QED
    BY <2>1, <2>2, <2>3
<1>14. ASSUME NEW a \in Clients, FindCase(a) PROVE Authorizes(a) \/ Leaves(a)
  <2>1. \/ Goto(a, "done") \/ Goto(a, "refused")
        \/ In(a, "find") /\ KeyCase(a) = {} /\ Goto(a, "quota")
        \/ In(a, "find") /\ KeyCase(a) # {} /\ Goto(a, "find again")
        \/ In(a, "find again") /\ Goto(a, "resolve again")
    BY <1>14 DEF FindCase
  <2>2. CASE Goto(a, "refused") \/ Goto(a, "done")
    <3>1. Over(a)
      BY <1>0, <2>2, Going DEF Ends
    <3> QED
      BY <1>14, <3>1 DEF FindCase, Leaves, Live, Authorizing, In, Still
  <2>3. CASE In(a, "find") /\ KeyCase(a) = {} /\ Goto(a, "quota")
    <3>1. Goes(a, "quota")
      BY <1>0, <2>3, Going DEF Live, Authorizing
    <3> QED
      BY <1>14, <2>3, <3>1 DEF FindCase, Authorizes, Authorizing, MakingPcs, In, Goes, Still
  <2>4. CASE In(a, "find") /\ KeyCase(a) # {} /\ Goto(a, "find again")
    <3>1. Goes(a, "find again")
      BY <1>0, <2>4, Going DEF Live, Authorizing
    <3> QED
      BY <1>14, <2>4, <3>1 DEF FindCase, Authorizes, Authorizing, MakingPcs, In, Goes, Still
  <2>5. CASE In(a, "find again") /\ Goto(a, "resolve again")
    <3>1. Goes(a, "resolve again")
      BY <1>0, <2>5, Going DEF Live, Authorizing
    <3> QED
      BY <1>14, <2>5, <3>1 DEF FindCase, Authorizes, Authorizing, MakingPcs, In, Goes, Still
  <2> QED
    BY <2>1, <2>2, <2>3, <2>4, <2>5
<1>15. ASSUME NEW a \in Clients, Quota(a) PROVE Quotas(a)
  <2>1. IF Today >= DayQuota THEN Over(a) ELSE Goes(a, "find again")
    <3>1. CASE Today >= DayQuota
      BY <1>0, <1>15, <3>1, Going DEF Quota, Ends
    <3>2. CASE ~ (Today >= DayQuota)
      BY <1>0, <1>15, <3>2, Going DEF Quota, Live, Authorizing
    <3> QED
      BY <3>1, <3>2
  <2>2. /\ In(a, "quota") /\ Still /\ UNCHANGED upset
        /\ hasty' = IF Today < DayQuota /\ Making # {} THEN hasty + 1 ELSE hasty
    BY <1>15 DEF Quota, Still
  <2> QED
    BY <2>1, <2>2, Zenon DEF Quotas
<1>16. ASSUME NEW a \in Clients, CreateCase(a) PROVE Makes(a) \/ Leaves(a)
  <2>1. Over(a)
    BY <1>0, <1>16, Going DEF CreateCase, Ends
  <2> QED
    BY <1>16, <2>1 DEF CreateCase, Enabled, Makes, Leaves, Live, Authorizing, In, Still
<1>17. ASSUME NEW a \in Clients, ClientDies(a) PROVE Leaves(a)
  <2>1. Over(a) /\ client[a].pc \in Live
    BY <1>0, <1>17, Going, ClientFacts DEF ClientDies, Ends, ClientRecords, Live, Quiet
  <2> QED
    BY <1>17, <2>1, ClientFacts DEF ClientDies, Leaves, Still, Upset
<1>18. ASSUME NEW i \in Incidents, CloseCase(i) PROVE Closes(i)
  BY <1>18 DEF CloseCase, Closes
<1>19. ASSUME NEW i \in Incidents, LookUp(i) PROVE LooksUp(i)
  BY <1>19 DEF LookUp, LooksUp, Role
<1>20. ASSUME NEW i \in Incidents, PlaceCall(i) PROVE Places(i)
  BY <1>20 DEF PlaceCall, Places
<1> QED
  BY <1>1, <1>2, <1>3, <1>4, <1>5, <1>6, <1>7, <1>8, <1>9, <1>10, <1>11, <1>12, <1>13, <1>14,
     <1>15, <1>16, <1>17, <1>18, <1>19, <1>20 DEF ContactNext, ClientKind, WorkerKind

(* The shape of the state is kept.                                         *)
LEMMA ContactTypesStep ==
  ASSUME Known, [ContactNext]_contactVars
  PROVE  ContactTypes'
<1>0. ContactTypes
  BY DEF Known
<1>1. outages' \in 0..MaxOutages
  <2> DEFINE Counted == outages' = outages \/ (outages < MaxOutages /\ outages' = outages + 1)
  <2>3. ASSUME NEW a \in Clients,
               \/ \E change \in Changes : Arrive(a, change)
               \/ CreateSecret(a) \/ InsertRow(a) \/ DropSecret(a) \/ ReadRow(a)
        PROVE  Counted
    BY <2>3 DEF Arrive, CreateSecret, InsertRow, DropSecret, ReadRow, Outage
  <2>4. ASSUME NEW a \in Clients,
               \/ CheckNumber(a) \/ KeepOldNumber(a) \/ PutSecret(a)
               \/ UpdateRow(a) \/ RestoreSecret(a) \/ DeleteRow(a)
        PROVE  Counted
    BY <2>4 DEF CheckNumber, KeepOldNumber, PutSecret, UpdateRow, RestoreSecret, DeleteRow, Outage
  <2>5. ASSUME NEW a \in Clients,
               \/ Resolve(a) \/ Approve(a) \/ FindCase(a) \/ Quota(a)
               \/ CreateCase(a) \/ ClientDies(a)
        PROVE  Counted
    BY <2>5 DEF Resolve, Approve, FindCase, Quota, CreateCase, ClientDies, Outage
  <2>6. ASSUME NEW i \in Incidents, CloseCase(i) \/ LookUp(i) \/ PlaceCall(i) PROVE Counted
    BY <2>6 DEF CloseCase, LookUp, PlaceCall
  <2>7. UNCHANGED contactVars => Counted
    BY DEF contactVars
  <2>1. Counted
    BY <2>3, <2>4, <2>5, <2>6, <2>7 DEF ContactNext
  <2>2. MaxOutages \in Nat
    BY DirectoryAssumption
  <2> QED
    BY <1>0, <2>1, <2>2 DEF ContactTypes
<1>2. CASE UNCHANGED contactVars
  BY <1>0, <1>2 DEF contactVars, ContactTypes
<1>3. ASSUME NEW i \in Incidents, WorkerKind(i) PROVE ContactTypes'
  <2>1. client' = client /\ rows' = rows /\ numbers' = numbers
        /\ upset' = upset /\ unsure' = unsure /\ hasty' = hasty
    BY <1>3 DEF WorkerKind, Closes, LooksUp, Places
  <2>2. cases' \in [Incidents -> CaseRecords]
    BY <1>0, <1>3 DEF WorkerKind, Closes, LooksUp, Places, ContactTypes, CaseRecords
  <2>3. dialer' \in [Incidents -> DialerRecords]
    <3>1. CASE LooksUp(i)
      <4>1. PICK c \in {cases[i].primary, cases[i].supervisor}, clean \in BOOLEAN :
              dialer' = [dialer EXCEPT ![i] = [pc |-> "call", contact |-> c, clean |-> clean]]
        BY <3>1 DEF LooksUp
      <4>2. c \in Contacts \cup {Nowhere}
        BY <1>0, <4>1 DEF ContactTypes, CaseRecords
      <4> QED
        BY <1>0, <4>1, <4>2 DEF ContactTypes, DialerRecords
    <3>2. CASE ~ LooksUp(i)
      <4>1. dialer' = dialer \/ dialer' = [dialer EXCEPT ![i] = NoCall]
        BY <1>3, <3>2 DEF WorkerKind, Closes, Places
      <4>2. NoCall \in DialerRecords
        BY DEF NoCall, DialerRecords
      <4> QED
        BY <1>0, <4>1, <4>2 DEF ContactTypes
    <3> QED
      BY <3>1, <3>2
  <2> QED
    BY <1>0, <1>1, <2>1, <2>2, <2>3 DEF ContactTypes
<1>4. ASSUME NEW a \in Clients, ClientKind(a) PROVE ContactTypes'
  <2>0. /\ client \in [Clients -> ClientRecords] /\ client[a] \in ClientRecords /\ ClientInv(a)
        /\ client[a].pc \in Live =>
              /\ Want(a) \in Changes
              /\ Want(a).op = "authorize" <=> client[a].pc \in Authorizing
              /\ Want(a).op # "authorize" => Subject(a) \in Contacts
    BY ClientFacts
  <2>1. client' \in [Clients -> ClientRecords]
    BY <1>4 DEF ClientKind, Arrives, Leaves, Reads, Checks, Keeps, Falters, Authorizes, Quotas,
       Creates, Drops, Renumbers, Restores, Inserts, Updates, Unanswered, Deletes, Makes, Goes, Over, Alone
  <2>2. dialer' \in [Incidents -> DialerRecords]
    <3>1. CASE Renumbers(a)
      <4> SUFFICES ASSUME NEW i \in Incidents PROVE dialer'[i] \in DialerRecords
        BY <3>1 DEF Renumbers
      <4> DEFINE clean == dialer[i].clean /\ dialer[i].contact # Subject(a)
      <4>1. dialer'[i] = [dialer[i] EXCEPT !.clean = clean]
        BY <3>1 DEF Renumbers
      <4>2. clean \in BOOLEAN
        OBVIOUS
      <4> HIDE DEF clean
      <4> QED
        BY <1>0, <4>1, <4>2 DEF ContactTypes, DialerRecords
    <3>2. CASE ~ Renumbers(a)
      <4>1. dialer' = dialer
        BY <1>4, <3>2 DEF ClientKind, Arrives, Leaves, Reads, Checks, Keeps, Falters, Authorizes,
           Quotas, Creates, Drops, Restores, Inserts, Updates, Unanswered, Deletes, Makes, Still, RowChange
      <4> QED
        BY <1>0, <4>1 DEF ContactTypes
    <3> QED
      BY <3>1, <3>2
  <2>3. cases' \in [Incidents -> CaseRecords]
    <3>1. CASE Makes(a)
      BY <1>0, <2>0, <3>1 DEF Makes, ContactTypes, CaseRecords, ClientRecords
    <3>2. CASE ~ Makes(a)
      <4>1. cases' = cases
        BY <1>4, <3>2 DEF ClientKind, Arrives, Leaves, Reads, Checks, Keeps, Falters, Authorizes,
           Quotas, Creates, Drops, Renumbers, Restores, Inserts, Updates, Unanswered, Deletes, Still, RowChange,
           Renumbering
      <4> QED
        BY <1>0, <4>1 DEF ContactTypes
    <3> QED
      BY <3>1, <3>2
  <2>4. upset' \cup unsure' \subseteq Contacts
    <3>0. client[a].pc \in Live => Subject(a) \in Contacts \/ client[a].pc \in Authorizing
      BY <2>0
    <3>1. CASE Arrives(a)
      BY <1>0, <3>1, ChangeTypes DEF Arrives, Still, ContactTypes
    <3>2. CASE Leaves(a)
      BY <1>0, <3>0, <3>2 DEF Leaves, Still, ContactTypes
    <3>3. CASE Renumbers(a) \/ Drops(a) \/ Restores(a)
      BY <1>0, <3>0, <3>3 DEF Renumbers, Drops, Restores, Renumbering, UpsetOrNot, ContactTypes,
         In, Live, Patching, Authorizing
    <3>4. CASE Unanswered(a) \/ Deletes(a)
      BY <1>0, <3>0, <3>4 DEF Unanswered, Deletes, ContactTypes, In, Live, Creating, Patching,
         Authorizing
    <3>5. CASE ~ Arrives(a) /\ ~ Leaves(a) /\ ~ Renumbers(a) /\ ~ Drops(a) /\ ~ Restores(a)
               /\ ~ Unanswered(a) /\ ~ Deletes(a)
      <4>1. upset' = upset /\ unsure' = unsure
        BY <1>4, <3>5 DEF ClientKind, Reads, Checks, Keeps, Falters, Authorizes, Quotas, Creates,
           Inserts, Updates, Makes, Still, RowChange, Renumbering
      <4> QED
        BY <1>0, <4>1 DEF ContactTypes
    <3> QED
      BY <3>1, <3>2, <3>3, <3>4, <3>5
  <2>5. hasty' \in Nat
    <3>1. hasty' = hasty \/ hasty' = hasty + 1
      BY <1>4 DEF ClientKind, Arrives, Leaves, Reads, Checks, Keeps, Falters, Authorizes, Quotas,
         Creates, Drops, Renumbers, Restores, Inserts, Updates, Unanswered, Deletes, Makes,
         RowChange, Renumbering
    <3> QED
      BY <1>0, <3>1 DEF ContactTypes
  <2>6. numbers' \in [Contacts -> Numbers \cup {Nowhere}]
    <3>1. CASE Creates(a)
      BY <1>0, <2>0, <3>1, ChangeTypes DEF Creates, ContactTypes, In, ClientInv, Live, Creating
    <3>2. CASE Drops(a)
      BY <1>0, <2>0, <3>2 DEF Drops, ContactTypes
    <3>3. CASE Renumbers(a)
      <4>1. Want(a).number \in Numbers \cup {Nowhere}
        BY <2>0, <3>3, ChangeTypes DEF Renumbers, In, ClientInv, Live, Patching
      <4> QED
        BY <1>0, <3>3, <4>1 DEF Renumbers, ContactTypes
    <3>4. CASE Restores(a)
      BY <1>0, <2>0, <3>4 DEF Restores, ContactTypes, ClientRecords
    <3>5. CASE ~ Creates(a) /\ ~ Drops(a) /\ ~ Renumbers(a) /\ ~ Restores(a)
      <4>1. numbers' = numbers
        BY <1>4, <3>5 DEF ClientKind, Arrives, Leaves, Reads, Checks, Keeps, Falters, Authorizes,
           Quotas, Inserts, Updates, Unanswered, Deletes, Makes, Still, RowChange
      <4> QED
        BY <1>0, <4>1 DEF ContactTypes
    <3> QED
      BY <3>1, <3>2, <3>3, <3>4, <3>5
  <2>7. rows' \in [Contacts -> Row]
    <3>1. In(a, "insert") => NewRow(a) \in Row
      BY <2>0, ChangeTypes DEF NewRow, In, ClientInv, Live, Creating, Row
    <3>2. In(a, "update") => PatchedRow(a) \in Row
      <4> DEFINE role == Merged(Want(a).role, client[a].read.role)
                 enabled == Merged(Want(a).enabled, client[a].read.enabled)
                 opted == Merged(Want(a).opted, client[a].read.opted)
                 mask == Merged(Want(a).number, client[a].read.mask)
      <4>1. In(a, "update") => /\ role \in Role /\ enabled \in BOOLEAN /\ opted \in BOOLEAN
                               /\ mask \in Numbers
        BY <2>0, ChangeTypes DEF In, ClientInv, Live, Patching, Merged, Row
      <4> HIDE DEF role, enabled, opted, mask
      <4> QED
        BY <4>1 DEF PatchedRow, Row, role, enabled, opted, mask
    <3>3. CASE Inserts(a) \/ Updates(a) \/ Unanswered(a)
      BY <1>0, <3>1, <3>2, <3>3 DEF Inserts, Updates, Unanswered, ContactTypes
    <3>4. CASE Deletes(a)
      BY <1>0, <2>0, <3>4 DEF Deletes, ContactTypes, Row
    <3>5. CASE ~ Inserts(a) /\ ~ Updates(a) /\ ~ Unanswered(a) /\ ~ Deletes(a)
      <4>1. rows' = rows
        BY <1>4, <3>5 DEF ClientKind, Arrives, Leaves, Reads, Checks, Keeps, Falters, Authorizes,
           Quotas, Creates, Drops, Renumbers, Restores, Makes, Still, Renumbering
      <4> QED
        BY <1>0, <4>1 DEF ContactTypes
    <3> QED
      BY <3>3, <3>4, <3>5
  <2> QED
    BY <1>1, <2>1, <2>2, <2>3, <2>4, <2>5, <2>6, <2>7 DEF ContactTypes
<1> QED
  BY <1>2, <1>3, <1>4, ContactKinds

LEMMA ClientStep ==
  ASSUME Known, [ContactNext]_contactVars, NEW b \in Clients
  PROVE  ClientInv(b)'
<1>0. ClientInv(b)
  BY DEF Known
<1>1. ASSUME client'[b] = client[b] PROVE ClientInv(b)'
  BY <1>0, <1>1 DEF ClientInv, In, Want, Renumbered
<1>2. ASSUME client'[b].pc = "over" PROVE ClientInv(b)'
  BY <1>2 DEF ClientInv, In, Quiet, Creating, Patching, Authorizing, Renumbered
<1>3. CASE UNCHANGED contactVars
  BY <1>1, <1>3 DEF contactVars
<1>4. ASSUME NEW i \in Incidents, WorkerKind(i) PROVE ClientInv(b)'
  BY <1>1, <1>4 DEF WorkerKind, Closes, LooksUp, Places
<1>5. ASSUME NEW a \in Clients, ClientKind(a), a # b PROVE ClientInv(b)'
  BY <1>1, <1>5 DEF ClientKind, Arrives, Leaves, Reads, Checks, Keeps, Falters, Authorizes, Quotas,
       Creates, Drops, Renumbers, Restores, Inserts, Updates, Unanswered, Deletes, Makes, Goes, Over, Alone
<1>6. ASSUME ClientKind(b), client'[b].pc # "over" PROVE ClientInv(b)'
  <2> USE DEF Quiet, Creating, Patching, Authorizing, In, Want, Renumbered, Live, Subject
  <2>0. client[b].pc \in Live => Want(b) \in Changes
    BY ClientFacts
  <2>1. CASE Arrives(b)
    BY <2>1, ChangeTypes DEF Arrives, ClientInv
  <2>2. CASE Reads(b)
    <3>1. rows[Subject(b)] \in Row
      BY <2>2, ClientFacts DEF Reads, Known, ContactTypes
    <3> QED
      BY <1>0, <2>0, <2>2, <3>1 DEF Reads, ClientInv, Goes
  <2>3. CASE Checks(b) \/ Falters(b) \/ Creates(b) \/ Unanswered(b) \/ Deletes(b)
    BY <1>0, <1>6, <2>0, <2>3 DEF Checks, Falters, Creates, Unanswered, Deletes, ClientInv, Goes,
       Holds, Over
  <2>4. CASE Keeps(b)
    <3>1. numbers[Subject(b)] \in Numbers
      BY <2>4, ClientFacts DEF Keeps, Known, ContactTypes
    <3> QED
      BY <1>0, <2>0, <2>4, <3>1 DEF Keeps, ClientInv, Goes
  <2>5. CASE Authorizes(b) \/ Quotas(b)
    BY <1>0, <1>6, <2>0, <2>5 DEF Authorizes, Quotas, ClientInv, Goes, Over
  <2>6. CASE Renumbers(b)
    BY <1>0, <1>6, <2>0, <2>6 DEF Renumbers, ClientInv, Goes, Holds, Over
  <2> QED
    BY <1>6, <2>1, <2>2, <2>3, <2>4, <2>5, <2>6
       DEF ClientKind, Leaves, Drops, Restores, Inserts, Updates, Makes, Over
<1> QED
  BY <1>2, <1>3, <1>4, <1>5, <1>6, ContactKinds

LEMMA UpsetGrows ==
  ASSUME [ContactNext]_contactVars, Known
  PROVE  upset \subseteq upset' /\ unsure \subseteq unsure'
<1>1. CASE UNCHANGED contactVars
  BY <1>1 DEF contactVars
<1>2. ASSUME NEW a \in Clients, ClientKind(a) PROVE upset \subseteq upset' /\ unsure \subseteq unsure'
  BY <1>2 DEF ClientKind, Arrives, Leaves, Reads, Checks, Keeps, Falters, Authorizes, Quotas,
     Creates, Drops, Renumbers, Restores, Inserts, Updates, Unanswered, Deletes, Makes, RowChange,
     Renumbering, Still, UpsetOrNot
<1>3. ASSUME NEW i \in Incidents, WorkerKind(i) PROVE upset' = upset /\ unsure' = unsure
  BY <1>3 DEF WorkerKind, Closes, LooksUp, Places
<1> QED
  BY <1>1, <1>2, <1>3, ContactKinds

\* The kinds of step that write neither a row nor a number.
Stills(a) == \/ Arrives(a) \/ Leaves(a) \/ Reads(a) \/ Checks(a) \/ Keeps(a) \/ Falters(a)
             \/ Authorizes(a) \/ Quotas(a) \/ Makes(a)

LEMMA StillFacts ==
  ASSUME Known, NEW a \in Clients, Stills(a)
  PROVE  /\ UNCHANGED <<rows, numbers, dialer, unsure, barred>>
         /\ ~ Makes(a) => UNCHANGED cases
         /\ \A b \in Clients \ {a} : client'[b] = client[b]
         /\ client'[a].pc \in Live => client'[a].change = client[a].change \/ Arrives(a)
  BY DEF Stills, Arrives, Leaves, Reads, Checks, Keeps, Falters, Authorizes, Quotas, Makes, Still,
     Goes, Over, Alone, Live, Creating, Patching, Authorizing

(* A row never loses its number, and a number without a row has one owner. *)
LEMMA SecretStep ==
  ASSUME Known, SecretInv, [ContactNext]_contactVars
  PROVE  SecretInv'
<1>0. \A a \in Clients :
        /\ client[a].pc \in Live =>
             /\ Want(a).op # "authorize" => Subject(a) \in Contacts
             /\ Want(a).op = "authorize" <=> client[a].pc \in Authorizing
        /\ ClientInv(a)
  BY ClientFacts
<1>1. rows \in [Contacts -> Row] /\ numbers \in [Contacts -> Numbers \cup {Nowhere}]
      /\ Nowhere \notin Numbers
  BY DirectoryAssumption DEF Known, ContactTypes
<1>u. unsure \subseteq unsure'
  BY UpsetGrows
<1>h. \A b \in Clients : Halfway(b) => /\ Subject(b) \in Contacts
                                       /\ ~ rows[Subject(b)].there
                                       /\ numbers[Subject(b)] # Nowhere
  BY <1>0 DEF SecretInv, Halfway, Live, Creating, Authorizing
<1>k. ASSUME \A c \in Contacts \ unsure' : rows'[c].there => numbers'[c] # Nowhere,
             \A b \in Clients : Halfway(b)' =>
               /\ Halfway(b) /\ Subject(b)' = Subject(b)
               /\ ~ rows'[Subject(b)].there /\ numbers'[Subject(b)] # Nowhere
      PROVE  SecretInv'
  BY <1>k DEF SecretInv
<1>2. CASE UNCHANGED contactVars \/ \E i \in Incidents : WorkerKind(i)
  <2>1. UNCHANGED <<rows, numbers, client, unsure>>
    BY <1>2 DEF contactVars, WorkerKind, Closes, LooksUp, Places
  <2> QED
    BY <2>1 DEF SecretInv, Halfway, Subject, Want
<1>3. ASSUME NEW a \in Clients, Stills(a) PROVE SecretInv'
  <2>0. unsure' = unsure /\ rows' = rows /\ numbers' = numbers
    BY <1>3, StillFacts
  <2>1. Halfway(a)' => Halfway(a) /\ Subject(a)' = Subject(a)
    <3> USE DEF Halfway, Subject, Want, In, Goes, Over
    <3>1. CASE Arrives(a)
      BY <3>1, ChangeTypes DEF Arrives
    <3>2. CASE Leaves(a) \/ Reads(a) \/ Checks(a) \/ Keeps(a) \/ Falters(a) \/ Makes(a)
      BY <2>0, <3>2 DEF Leaves, Reads, Checks, Keeps, Falters, Makes
    <3>3. CASE Authorizes(a) \/ Quotas(a)
      BY <3>3 DEF Authorizes, Quotas, Authorizing
    <3> QED
      BY <1>3, <3>1, <3>2, <3>3 DEF Stills
  <2>2. \A b \in Clients : Halfway(b)' => Halfway(b) /\ Subject(b)' = Subject(b)
    BY <1>3, <2>0, <2>1, StillFacts DEF Halfway, Subject, Want
  <2> QED
    BY <1>h, <1>k, <2>0, <2>2 DEF SecretInv
<1> DEFINE Writing(a) == \/ Drops(a) \/ Renumbers(a) \/ Restores(a) \/ Inserts(a) \/ Updates(a)
                        \/ Unanswered(a)
<1>4. ASSUME NEW a \in Clients, Writing(a)
      PROVE  /\ Subject(a) \in Contacts /\ (Halfway(a)' => Subject(a) \in unsure)
             /\ \A c \in Contacts \ {Subject(a)} : rows'[c] = rows[c] /\ numbers'[c] = numbers[c]
             /\ \A b \in Clients \ {a} : Halfway(b)' => Halfway(b) /\ Subject(b)' = Subject(b)
             /\ ~ Halfway(a)'
  <2>1. client[a].pc \in Live /\ client[a].pc \notin Authorizing
    BY <1>4 DEF Drops, Renumbers, Restores, Inserts, Updates, Unanswered, In, Live, Creating,
       Patching, Authorizing
  <2>2. Subject(a) \in Contacts
    BY <1>0, <2>1
  <2>3. \A b \in Clients \ {a} : client'[b] = client[b]
    BY <1>4 DEF Drops, Renumbers, Restores, Inserts, Updates, Unanswered, Goes, Over, Alone
  <2>4. ~ Halfway(a)'
    BY <1>4 DEF Drops, Renumbers, Restores, Inserts, Updates, Unanswered, Goes, Over, Halfway,
       Subject, Want, In
  <2>5. \A c \in Contacts \ {Subject(a)} : rows'[c] = rows[c] /\ numbers'[c] = numbers[c]
    BY <1>1, <1>4 DEF Drops, Renumbers, Restores, Inserts, Updates, Unanswered, RowChange,
       Renumbering
  <2>6. \A b \in Clients \ {a} : Halfway(b)' => Halfway(b) /\ Subject(b)' = Subject(b)
    BY <1>u, <2>3 DEF Halfway, Subject, Want
  <2> QED
    BY <2>2, <2>4, <2>5, <2>6
<1>5. ASSUME NEW a \in Clients, Writing(a) PROVE SecretInv'
  <2> DEFINE s == Subject(a)
  <2>0. ASSUME s \notin unsure' /\ rows'[s].there => numbers'[s] # Nowhere,
               \A b \in Clients \ {a} : Halfway(b)' /\ Subject(b) = s =>
                 ~ rows'[s].there /\ numbers'[s] # Nowhere
        PROVE  SecretInv'
    <3>1. \A c \in Contacts \ unsure' : rows'[c].there => numbers'[c] # Nowhere
      BY <1>4, <1>5, <1>u, <2>0 DEF SecretInv
    <3>2. ASSUME NEW b \in Clients, Halfway(b)'
          PROVE  /\ Halfway(b) /\ Subject(b)' = Subject(b)
                 /\ ~ rows'[Subject(b)].there /\ numbers'[Subject(b)] # Nowhere
      <4>1. b # a /\ Halfway(b) /\ Subject(b)' = Subject(b)
        BY <1>4, <1>5, <3>2
      <4> QED
        BY <1>4, <1>5, <1>h, <2>0, <3>2, <4>1
    <3> QED
      BY <1>k, <3>1, <3>2
  <2>1. CASE Drops(a) \/ Inserts(a)
    <3>1. s \notin unsure => Halfway(a)
      BY <2>1 DEF Drops, Inserts, Halfway, In
    <3>2. unsure' = unsure
      BY <2>1 DEF Drops, Inserts, Renumbering
    <3>3. \A b \in Clients \ {a} : Halfway(b)' => Subject(b) # s
      <4> SUFFICES ASSUME NEW b \in Clients \ {a}, Halfway(b)', Subject(b) = s PROVE FALSE
        OBVIOUS
      <4>1. Halfway(b)
        BY <1>4, <1>5
      <4>2. Halfway(a)
        BY <3>1, <4>1 DEF Halfway
      <4> QED
        BY <4>1, <4>2 DEF SecretInv
    <3>4. ASSUME s \notin unsure' PROVE rows'[s].there => numbers'[s] # Nowhere
      <4>1. Halfway(a)
        BY <3>1, <3>2, <3>4
      <4> QED
        BY <1>h, <2>1, <4>1 DEF Drops, Inserts, Renumbering, RowChange
    <3> QED
      BY <2>0, <3>3, <3>4
  <2>2. CASE Renumbers(a) \/ Restores(a)
    <3>1. rows' = rows /\ unsure' = unsure
          /\ \A c \in Contacts : numbers[c] # Nowhere => numbers'[c] # Nowhere
      <4>1. CASE Renumbers(a)
        <5>1. Want(a).number \in Numbers
          BY <1>0, <4>1, ClientFacts, ChangeTypes DEF Renumbers, ClientInv, In, Live, Patching
        <5> QED
          BY <1>1, <4>1, <5>1 DEF Renumbers, Renumbering
      <4>2. CASE Restores(a)
        <5>1. client[a].old \in Numbers
          BY <1>0, <4>2 DEF Restores, ClientInv, Renumbered
        <5> QED
          BY <1>1, <4>2, <5>1 DEF Restores, Renumbering
      <4> QED
        BY <2>2, <4>1, <4>2
    <3>2. \A b \in Clients \ {a} : Halfway(b)' /\ Subject(b) = s =>
            ~ rows'[s].there /\ numbers'[s] # Nowhere
      BY <1>4, <1>5, <1>h, <3>1
    <3>3. s \notin unsure' /\ rows'[s].there => numbers'[s] # Nowhere
      BY <1>4, <1>5, <3>1 DEF SecretInv
    <3> QED
      BY <2>0, <3>2, <3>3
  <2>3. CASE Updates(a)
    <3>1. numbers' = numbers /\ rows[s].there /\ unsure' = unsure
      BY <2>3 DEF Updates, RowChange
    <3>2. \A b \in Clients \ {a} : Halfway(b)' => Subject(b) # s
      BY <1>4, <1>5, <1>h, <3>1
    <3>3. s \notin unsure' => numbers'[s] # Nowhere
      BY <1>4, <1>5, <3>1 DEF SecretInv
    <3> QED
      BY <2>0, <3>2, <3>3
  <2>4. CASE Unanswered(a)
    <3>1. s \in unsure'
      BY <2>4 DEF Unanswered
    <3>2. \A b \in Clients \ {a} : Halfway(b)' => Subject(b) # s
      BY <1>4, <1>5, <3>1 DEF Halfway
    <3> QED
      BY <2>0, <3>1, <3>2
  <2> QED
    BY <1>5, <2>1, <2>2, <2>3, <2>4
<1>6. ASSUME NEW a \in Clients, Creates(a) \/ Deletes(a) PROVE SecretInv'
  <2> DEFINE s == Subject(a)
  <2>1. /\ s \in Contacts /\ (Halfway(a)' => Subject(a)' = s) /\ unsure' = unsure
        /\ \A b \in Clients \ {a} : Halfway(b)' => Halfway(b) /\ Subject(b)' = Subject(b)
    <3>1. client[a].pc \in Live /\ client[a].pc \notin Authorizing
      BY <1>6 DEF Creates, Deletes, In, Live, Creating, Authorizing
    <3>2. s \in Contacts
      BY <1>0, <3>1
    <3>3. unsure' = unsure /\ \A b \in Clients \ {a} : client'[b] = client[b]
      BY <1>6 DEF Creates, Deletes, Renumbering, Goes, Over, Alone
    <3>4. Halfway(a)' => Subject(a)' = s
      BY <1>6 DEF Creates, Deletes, Goes, Over, Halfway, Subject, Want
    <3> QED
      BY <3>2, <3>3, <3>4 DEF Halfway, Subject, Want
  <2>2. \A b \in Clients : Halfway(b) => Subject(b) # s
    <3> SUFFICES ASSUME NEW b \in Clients, Halfway(b), Subject(b) = s PROVE FALSE
      OBVIOUS
    <3> QED
      BY <1>6, <1>h DEF Creates, Deletes
  <2>3. \A c \in Contacts \ {s} : rows'[c] = rows[c] /\ numbers'[c] = numbers[c]
    BY <1>1, <1>6 DEF Creates, Deletes, RowChange, Renumbering
  <2>4. ~ rows'[s].there /\ (s \notin unsure => numbers'[s] # Nowhere)
    <3>1. CASE Creates(a)
      <4>1. Want(a).number \in Numbers
        BY <1>0, <3>1, ClientFacts, ChangeTypes DEF Creates, ClientInv, In, Live, Creating
      <4> QED
        BY <1>1, <2>1, <3>1, <4>1 DEF Creates, Renumbering
    <3>2. CASE Deletes(a)
      BY <1>1, <2>1, <3>2 DEF SecretInv, Deletes, RowChange, Row
    <3> QED
      BY <1>6, <3>1, <3>2
  <2>5. \A c \in Contacts \ unsure' : rows'[c].there => numbers'[c] # Nowhere
    BY <2>1, <2>3, <2>4 DEF SecretInv
  <2>6. \A b \in Clients \ {a} : Halfway(b)' =>
          /\ Halfway(b) /\ Subject(b)' = Subject(b) /\ Subject(b) # s
          /\ ~ rows'[Subject(b)].there /\ numbers'[Subject(b)] # Nowhere
    BY <1>h, <2>1, <2>2, <2>3
  <2>7. Halfway(a)' => ~ rows'[Subject(a)'].there /\ numbers'[Subject(a)'] # Nowhere
    BY <2>1, <2>4 DEF Halfway
  <2>8. \A b, d \in Clients : Halfway(b)' /\ Halfway(d)' /\ Subject(b)' = Subject(d)' => b = d
    BY <2>1, <2>6 DEF SecretInv
  <2> QED
    BY <2>5, <2>6, <2>7, <2>8 DEF SecretInv
<1> QED
  BY <1>2, <1>3, <1>5, <1>6, ContactKinds DEF ClientKind, Stills

(* A contact that a case names is not deleted.                             *)
LEMMA CaseStep ==
  ASSUME Known, [ContactNext]_contactVars, NEW i \in Incidents, CaseInv(i)
  PROVE  CaseInv(i)'
<1>0. /\ \A a \in Clients : ClientInv(a)
      /\ rows \in [Contacts -> Row] /\ cases \in [Incidents -> CaseRecords]
  BY DEF Known, ContactTypes
<1>1. ASSUME cases'[i].state # "none" => /\ cases'[i].primary = cases[i].primary
                                         /\ cases'[i].supervisor = cases[i].supervisor
                                         /\ cases[i].state # "none",
             \A c \in {cases[i].primary, cases[i].supervisor} \cap Contacts :
               rows[c].there /\ cases[i].state # "none" => rows'[c].there
      PROVE  CaseInv(i)'
  BY <1>1 DEF CaseInv
<1>2. ASSUME UNCHANGED <<rows, cases>> PROVE CaseInv(i)'
  BY <1>1, <1>2
<1>3. ASSUME NEW a \in Clients, Inserts(a) \/ Updates(a) \/ Unanswered(a) PROVE CaseInv(i)'
  <2>1. cases' = cases /\ \A c \in Contacts : rows[c].there => rows'[c].there
    BY <1>0, <1>3 DEF Inserts, Updates, Unanswered, RowChange, NewRow, PatchedRow
  <2> QED
    BY <1>1, <2>1
<1>4. ASSUME NEW a \in Clients, Deletes(a) PROVE CaseInv(i)'
  <2>1. cases' = cases /\ Subject(a) \notin {cases[i].primary, cases[i].supervisor}
    BY <1>4 DEF Deletes, RowChange, InUse
  <2>2. \A c \in Contacts : c # Subject(a) => rows'[c] = rows[c]
    BY <1>0, <1>4 DEF Deletes
  <2> QED
    BY <1>1, <2>1, <2>2
<1>5. ASSUME NEW a \in Clients, Makes(a) PROVE CaseInv(i)'
  <2>1. /\ {client[a].primary, client[a].supervisor} \subseteq Contacts
        /\ rows' = rows
        /\ rows[client[a].primary].there /\ rows[client[a].supervisor].there
    BY <1>0, <1>5 DEF Makes, ClientInv, In
  <2>2. CASE i = Want(a).incident
    <3>1. cases'[i].primary = client[a].primary /\ cases'[i].supervisor = client[a].supervisor
      BY <1>0, <1>5, <2>2 DEF Makes
    <3> QED
      BY <2>1, <3>1 DEF CaseInv
  <2>3. CASE i # Want(a).incident
    <3>1. cases'[i] = cases[i]
      BY <1>0, <1>5, <2>3 DEF Makes
    <3> QED
      BY <1>1, <2>1, <3>1
  <2> QED
    BY <2>2, <2>3
<1>6. ASSUME NEW j \in Incidents, WorkerKind(j) PROVE CaseInv(i)'
  <2>1. rows' = rows /\ (cases' = cases \/ Closes(j))
    BY <1>6 DEF WorkerKind, Closes, LooksUp, Places
  <2>2. CASE Closes(j)
    BY <1>0, <1>1, <2>1, <2>2 DEF Closes, CaseRecords
  <2> QED
    BY <1>2, <2>1, <2>2
<1>7. ASSUME NEW a \in Clients, ClientKind(a),
             ~ Inserts(a), ~ Updates(a), ~ Unanswered(a), ~ Deletes(a), ~ Makes(a)
      PROVE  CaseInv(i)'
  BY <1>2, <1>7 DEF ClientKind, Arrives, Leaves, Reads, Checks, Keeps, Falters, Authorizes, Quotas,
     Creates, Drops, Renumbers, Restores, Still, Renumbering
<1> QED
  BY <1>2, <1>3, <1>4, <1>5, <1>6, <1>7, ContactKinds DEF contactVars

\* The request changes contact c and is the only one that does.
SoleChange(a, c) == a \in Changing(c) /\ \A b \in Clients : b \in Changing(c) => b = a
Settled(c) == Vetted(rows[c].there /\ rows[c].opted, rows[c].mask)

(* A contact that a step leaves alone.                                     *)
LEMMA RestElsewhere ==
  ASSUME NEW c \in Contacts, RestInv(c), upset \subseteq upset', unsure \subseteq unsure',
         rows'[c] = rows[c], numbers'[c] = numbers[c],
         \A b \in Clients : b \in Changing(c) => client'[b] = client[b],
         \A b \in Clients : b \in Changing(c)' => client'[b] = client[b]
  PROVE  RestInv(c)'
<1>1. Changing(c)' = Changing(c)
  BY DEF Changing, Want, Subject
<1>2. \A b \in Changing(c) : Midway(b) => Midway(b)'
  <2> SUFFICES ASSUME NEW b \in Changing(c), Midway(b) PROVE Midway(b)'
    OBVIOUS
  <2>1. client'[b] = client[b] /\ Subject(b) = c /\ b \in Clients
    BY DEF Changing
  <2> QED
    BY <2>1 DEF Midway, Subject, Want, Tells, In, Renumbered
<1> QED
  BY <1>1, <1>2 DEF RestInv, Tells

(* A contact whose one request goes on, or is over.                        *)
LEMMA RestGoesOn ==
  ASSUME NEW c \in Contacts, NEW a \in Clients, SoleChange(a, c),
         \A b \in Clients \ {a} : client'[b] = client[b],
         client'[a].pc \notin Quiet, client'[a].change = client[a].change,
         Midway(a)', Settled(c)'
  PROVE  RestInv(c)'
<1>1. Changing(c)' = {a}
  BY DEF Changing, SoleChange, Want, Subject, Quiet
<1> QED
  BY <1>1 DEF RestInv, Settled

LEMMA RestEnds ==
  ASSUME NEW c \in Contacts, NEW a \in Clients, SoleChange(a, c),
         \A b \in Clients \ {a} : client'[b] = client[b], client'[a].pc = "over",
         Tells(c)', Settled(c)'
  PROVE  RestInv(c)'
<1>1. Changing(c)' = {}
  BY DEF Changing, SoleChange, Want, Subject
<1> QED
  BY <1>1 DEF RestInv, Settled

(* While one request changes a contact its row and its number move from    *)
(* what they were to what it asks for, or back.                            *)
LEMMA RestStep ==
  ASSUME Known, SecretInv, [ContactNext]_contactVars, NEW c \in Contacts, RestInv(c)
  PROVE  RestInv(c)'
<1>0. /\ \A a \in Clients :
           /\ client[a].pc \in Live =>
                /\ Want(a) \in Changes
                /\ Want(a).op # "authorize" => Subject(a) \in Contacts
                /\ Want(a).op = "authorize" <=> client[a].pc \in Authorizing
           /\ ClientInv(a)
      /\ rows \in [Contacts -> Row] /\ numbers \in [Contacts -> Numbers \cup {Nowhere}]
      /\ upset \subseteq upset' /\ unsure \subseteq unsure'
  BY ClientFacts, UpsetGrows DEF Known, ContactTypes
<1> SUFFICES ASSUME c \notin upset' \cup unsure' PROVE RestInv(c)'
  BY DEF RestInv
<1>r. /\ Changing(c) = {} => Tells(c)
      /\ Settled(c)
      /\ \A a, b \in Changing(c) : a = b
      /\ \A a \in Changing(c) : Midway(a)
  BY <1>0 DEF RestInv, Settled
<1>1. ASSUME UNCHANGED <<rows, numbers, client>> PROVE RestInv(c)'
  BY <1>0, <1>1, RestElsewhere
<1>2. ASSUME NEW i \in Incidents, WorkerKind(i) PROVE RestInv(c)'
  BY <1>1, <1>2 DEF WorkerKind, Closes, LooksUp, Places
<1>3. ASSUME NEW a \in Clients, ClientKind(a), client[a].pc \in Live,
             Subject(a) # c \/ client[a].pc \in Authorizing
      PROVE  RestInv(c)'
  <2>1. /\ \A b \in Clients \ {a} : client'[b] = client[b]
        /\ client'[a].pc = "over" \/ client'[a].change = client[a].change
    BY <1>3 DEF ClientKind, Arrives, Leaves, Reads, Checks, Keeps, Falters, Authorizes, Quotas,
       Creates, Drops, Renumbers, Restores, Inserts, Updates, Unanswered, Deletes, Makes, Goes, Over, Alone,
       In, Live, Creating, Patching, Authorizing
  <2>2. a \notin Changing(c) /\ a \notin Changing(c)'
    BY <1>0, <1>3, <2>1 DEF Changing, Want, Subject
  <2>3. numbers'[c] = numbers[c] /\ rows'[c] = rows[c]
    BY <1>0, <1>3 DEF ClientKind, Arrives, Leaves, Reads, Checks, Keeps, Falters, Authorizes,
       Quotas, Creates, Drops, Renumbers, Restores, Inserts, Updates, Unanswered, Deletes, Makes, Still,
       Renumbering, RowChange, In, Live, Creating, Patching, Authorizing
  <2>4. \A b \in Clients : b \in Changing(c) \/ b \in Changing(c)' => client'[b] = client[b]
    BY <2>1, <2>2
  <2> QED
    BY <1>0, <2>3, <2>4, RestElsewhere
<1>4. ASSUME NEW a \in Clients, Arrives(a) PROVE RestInv(c)'
  <2>1. PICK change \in Changes :
          /\ client'[a].change = change
          /\ client'[a].pc = CASE change.op = "create" -> "create"
                               [] change.op \in {"patch", "delete"} -> "read"
                               [] change.op = "authorize" -> "resolve"
          /\ upset' = IF change.op # "authorize" /\ Changing(change.contact) # {}
                      THEN upset \cup {change.contact} ELSE upset
    BY <1>4 DEF Arrives
  <2>2. /\ rows' = rows /\ numbers' = numbers /\ a \notin Changing(c)
        /\ \A b \in Clients \ {a} : client'[b] = client[b]
    BY <1>4 DEF Arrives, Still, Alone, Changing, In
  <2>3. CASE change.op # "authorize" /\ change.contact = c
    <3>1. Changing(c) = {} /\ Tells(c)'
      BY <1>r, <2>1, <2>2, <2>3 DEF Tells
    <3>2. client'[a].pc \in {"create", "read"}
      BY <2>1, <2>3, ChangeTypes
    <3>3. Changing(c)' = {a} /\ Subject(a)' = c
      <4>1. client'[a].change = change
        BY <2>1
      <4> QED
        BY <2>2, <2>3, <3>1, <3>2, <4>1 DEF Changing, Want, Subject
    <3>4. Midway(a)'
      BY <3>1, <3>2, <3>3 DEF Midway, In, Patching, Renumbered
    <3> QED
      BY <1>r, <2>2, <3>1, <3>3, <3>4 DEF RestInv, Settled
  <2>4. CASE ~ (change.op # "authorize" /\ change.contact = c)
    <3>1. a \notin Changing(c)'
      BY <2>1, <2>4 DEF Changing, Want, Subject
    <3> QED
      BY <1>0, <2>2, <3>1, RestElsewhere
  <2> QED
    BY <2>3, <2>4
<1>5. ASSUME NEW a \in Clients, ClientKind(a), client[a].pc \in Live \ Authorizing, Subject(a) = c
      PROVE  RestInv(c)'
  <2>1. /\ SoleChange(a, c) /\ Midway(a) /\ Settled(c) /\ Want(a) \in Changes
        /\ Want(a).op # "authorize" /\ ClientInv(a)
    <3>1. a \in Changing(c)
      BY <1>0, <1>5 DEF Changing, Live, Creating, Patching, Authorizing
    <3> QED
      BY <1>0, <1>5, <1>r, <3>1 DEF SoleChange
  <2>2. \A b \in Clients \ {a} : client'[b] = client[b]
    BY <1>5 DEF ClientKind, Arrives, Leaves, Reads, Checks, Keeps, Falters, Authorizes, Quotas,
       Creates, Drops, Renumbers, Restores, Inserts, Updates, Unanswered, Deletes, Makes, Goes, Over, Alone
  <2>3. ASSUME client'[a].pc = "over", Tells(c)', Settled(c)' PROVE RestInv(c)'
    BY <2>1, <2>2, <2>3, RestEnds
  <2>4. ASSUME client'[a].pc \in Live, client'[a].change = client[a].change, Midway(a)', Settled(c)'
        PROVE  RestInv(c)'
    <3>1. client'[a].pc \notin Quiet
      BY <2>4 DEF Live, Quiet, Creating, Patching, Authorizing
    <3> QED
      BY <2>1, <2>2, <2>4, <3>1, RestGoesOn
  <2> USE DEF Want, In, Renumbered
  <2>s. Subject(a) = c /\ (client'[a].change = client[a].change => Subject(a)' = c)
    BY <1>5 DEF Subject
  <2>5. CASE Leaves(a)
    <3>1. rows' = rows /\ numbers' = numbers /\ Tells(c)
      BY <1>0, <1>5, <2>1, <2>5, <2>s DEF Leaves, Still, Midway, Tells, Patching, Merged
    <3> QED
      BY <2>1, <2>3, <2>5, <3>1 DEF Leaves, Over, Tells, Settled
  <2>6. CASE Reads(a)
    <3>1. /\ rows' = rows /\ numbers' = numbers /\ client'[a].pc \in {"check", "delete"}
          /\ client'[a].change = client[a].change /\ client'[a].read = rows[c] /\ rows[c].there
          /\ Tells(c)
      BY <2>1, <2>6, <2>s DEF Reads, Still, Goes, Midway
    <3> QED
      BY <2>1, <2>4, <2>s, <3>1 DEF Midway, Tells, Settled, Patching, Live
  <2>7. CASE Checks(a)
    <3>1. /\ rows' = rows /\ numbers' = numbers
          /\ client'[a].change = client[a].change /\ client'[a].read = client[a].read
          /\ client[a].read = rows[c] /\ rows[c].there /\ rows[c].mask = numbers[c]
          /\ IF Want(a).number = Keep THEN client'[a].pc = "update" ELSE client'[a].pc = "keep"
      BY <2>1, <2>7, <2>s DEF Checks, Still, Goes, Holds, Midway, Tells, Patching
    <3>2. Vetted(Merged(Want(a).opted, client[a].read.opted),
                 Merged(Want(a).number, client[a].read.mask))
      BY <2>7, <2>s, <3>1 DEF Checks
    <3> QED
      BY <2>1, <2>4, <2>s, <3>1, <3>2 DEF Midway, Tells, Settled, Patching, Live, Merged
  <2>8. CASE Keeps(a)
    <3>1. /\ rows' = rows /\ numbers' = numbers /\ client'[a].pc = "put"
          /\ client'[a].change = client[a].change /\ client'[a].read = client[a].read
          /\ client'[a].old = numbers[c] /\ client[a].read = rows[c] /\ rows[c].there /\ Tells(c)
          /\ Vetted(Merged(Want(a).opted, client[a].read.opted),
                    Merged(Want(a).number, client[a].read.mask))
      BY <2>1, <2>8, <2>s DEF Keeps, Still, Goes, Midway, Patching
    <3> QED
      BY <2>1, <2>4, <2>s, <3>1 DEF Midway, Tells, Settled, Patching, Live
  <2>9. CASE Falters(a)
    <3>1. /\ rows' = rows /\ numbers' = numbers
          /\ client'[a].change = client[a].change /\ client'[a].read = client[a].read
          /\ client'[a].old = client[a].old
          /\ client'[a].pc = "drop" \/ (client'[a].pc = "restore" /\ client[a].pc = "update"
                                         /\ Want(a).number # Keep)
      BY <2>9 DEF Falters, Still, Goes, Holds
    <3> QED
      BY <2>1, <2>4, <2>s, <3>1 DEF Midway, Tells, Settled, Patching, Live
  <2>10. CASE Creates(a)
    <3>1. /\ rows' = rows /\ numbers'[c] = Want(a).number /\ ~ rows[c].there
          /\ Vetted(Want(a).opted, Want(a).number)
      BY <1>0, <2>10, <2>s DEF Creates, Renumbering
    <3>2. CASE Goes(a, "insert")
      BY <2>1, <2>4, <2>s, <3>1, <3>2 DEF Goes, Midway, Tells, Settled, Patching, Live, Creating
    <3>3. CASE Over(a)
      BY <2>1, <2>3, <2>s, <3>1, <3>3 DEF Over, Tells, Settled
    <3> QED
      BY <2>10, <3>2, <3>3 DEF Creates
  <2>11. CASE Drops(a)
    <3>1. rows' = rows /\ ~ rows[c].there /\ client'[a].pc = "over"
      BY <2>11, <2>s DEF Drops, Renumbering, Over, SecretInv, Halfway
    <3> QED
      BY <2>1, <2>3, <3>1 DEF Tells, Settled
  <2>12. CASE Renumbers(a)
    <3>1. rows' = rows /\ Tells(c) /\ client[a].read = rows[c] /\ rows[c].there
      BY <2>1, <2>12, <2>s DEF Renumbers, Renumbering, Midway, Patching
    <3>2. CASE client'[a].pc = "over"
      <4>1. numbers' = numbers
        BY <1>0, <2>12, <2>s, <3>2 DEF Renumbers, Goes
      <4> QED
        BY <2>1, <2>3, <3>1, <3>2, <4>1 DEF Tells, Settled
    <3>3. CASE client'[a].pc # "over"
      <4>1. /\ numbers'[c] = Want(a).number /\ client'[a].pc = "update" /\ Want(a).number # Keep
            /\ client'[a].change = client[a].change /\ client'[a].read = client[a].read
            /\ client'[a].old = client[a].old /\ client[a].old = numbers[c]
            /\ Vetted(Merged(Want(a).opted, client[a].read.opted),
                      Merged(Want(a).number, client[a].read.mask))
        BY <1>0, <2>1, <2>12, <2>s, <3>3 DEF Renumbers, Goes, Holds, Over, Midway, ClientInv
      <4> QED
        BY <2>1, <2>4, <2>s, <3>1, <4>1 DEF Midway, Tells, Settled, Patching, Live, Merged
    <3> QED
      BY <3>2, <3>3
  <2>13. CASE Restores(a)
    <3>1. /\ rows' = rows /\ client'[a].pc = "over" /\ rows[c].there /\ client[a].old = rows[c].mask
          /\ numbers[c] # Nowhere
      BY <2>1, <2>13, <2>s DEF Restores, Renumbering, Over, Midway, Patching, SecretInv
    <3>2. numbers'[c] = client[a].old
      BY <1>0, <2>13, <2>s, <3>1 DEF Restores
    <3> QED
      BY <2>1, <2>3, <3>1, <3>2 DEF Tells, Settled
  <2>14. CASE Inserts(a)
    <3>1. /\ numbers' = numbers /\ client'[a].pc = "over"
          /\ rows'[c].mask = Want(a).number /\ rows'[c].opted = Want(a).opted
          /\ numbers[c] = Want(a).number /\ Vetted(Want(a).opted, Want(a).number)
      BY <1>0, <2>1, <2>14, <2>s DEF Inserts, NewRow, RowChange, Over, Midway
    <3> QED
      BY <2>3, <3>1 DEF Tells, Settled, Vetted
  <2>15. CASE Updates(a)
    <3>1. /\ numbers' = numbers /\ client'[a].pc = "over"
          /\ rows'[c].mask = Merged(Want(a).number, client[a].read.mask)
          /\ rows'[c].opted = Merged(Want(a).opted, client[a].read.opted)
          /\ numbers[c] = Merged(Want(a).number, client[a].read.mask)
          /\ Vetted(Merged(Want(a).opted, client[a].read.opted),
                    Merged(Want(a).number, client[a].read.mask))
      BY <1>0, <2>1, <2>15, <2>s DEF Updates, PatchedRow, RowChange, Over, Midway
    <3> QED
      BY <2>3, <3>1 DEF Tells, Settled, Vetted
  <2>16. CASE Deletes(a)
    <3>1. /\ numbers' = numbers /\ client'[a].pc = "drop" /\ ~ rows'[c].there
          /\ client'[a].change = client[a].change
      BY <1>0, <2>1, <2>16, <2>s DEF Deletes, RowChange, Goes, Row
    <3> QED
      BY <2>4, <2>s, <3>1 DEF Midway, Settled, Vetted, Patching, Live
  <2>17. ~ Unanswered(a)
    BY <2>s DEF Unanswered
  <2> QED
    BY <1>5, <2>5, <2>6, <2>7, <2>8, <2>9, <2>10, <2>11, <2>12, <2>13, <2>14, <2>15, <2>16, <2>17
       DEF ClientKind, Arrives, Authorizes, Quotas, Makes, Live, Authorizing, Creating, Patching
<1>6. ASSUME NEW a \in Clients, ClientKind(a) PROVE Arrives(a) \/ client[a].pc \in Live
  BY <1>6 DEF ClientKind, Leaves, Reads, Checks, Keeps, Falters, Authorizes, Quotas,
     Creates, Drops, Renumbers, Restores, Inserts, Updates, Unanswered, Deletes, Makes, Live, Creating,
     Patching, Authorizing, In
<1> QED
  BY <1>1, <1>2, <1>3, <1>4, <1>5, <1>6, ContactKinds DEF contactVars

(* A number that is dialled for a contact at rest has been approved.       *)
LEMMA DialStep ==
  ASSUME Known, SecretInv, \A c \in Contacts : RestInv(c), \A j \in Incidents : CaseInv(j),
         [ContactNext]_contactVars, NEW i \in Incidents, DialInv(i)
  PROVE  DialInv(i)'
<1>0. /\ \A a \in Clients :
           /\ client[a].pc \in Live =>
                /\ Want(a).op # "authorize" => Subject(a) \in Contacts
                /\ Want(a).op = "authorize" <=> client[a].pc \in Authorizing
           /\ ClientInv(a)
      /\ rows \in [Contacts -> Row] /\ numbers \in [Contacts -> Numbers \cup {Nowhere}]
      /\ cases \in [Incidents -> CaseRecords] /\ dialer \in [Incidents -> DialerRecords]
      /\ Approved \subseteq Numbers
  BY ClientFacts, DirectoryAssumption DEF Known, ContactTypes
<1> DEFINE d == dialer[i].contact
<1>d. ASSUME dialer[i].pc = "call" PROVE d \in Contacts /\ rows[d].there /\ cases[i].state # "none"
  BY <1>d DEF DialInv, CaseInv
<1>c. ASSUME cases[i].state # "none"
      PROVE  /\ cases'[i].state # "none"
             /\ cases'[i].primary = cases[i].primary /\ cases'[i].supervisor = cases[i].supervisor
  <2>1. CASE cases' = cases
    BY <1>c, <2>1
  <2>2. ASSUME NEW a \in Clients, Makes(a)
        PROVE  cases'[i] = cases[i]
    BY <1>0, <1>c, <2>2 DEF Makes
  <2>3. ASSUME NEW j \in Incidents, Closes(j)
        PROVE  /\ cases'[i].state # "none" 
               /\ cases'[i].primary = cases[i].primary /\ cases'[i].supervisor = cases[i].supervisor
    BY <1>0, <1>c, <2>3 DEF Closes, CaseRecords
  <2>4. \/ cases' = cases \/ (\E a \in Clients : Makes(a)) \/ (\E j \in Incidents : Closes(j))
    BY ContactKinds DEF contactVars, WorkerKind, LooksUp, Places, ClientKind, Arrives, Leaves,
       Reads, Checks, Keeps, Falters, Authorizes, Quotas, Creates, Drops, Renumbers, Restores,
       Inserts, Updates, Unanswered, Deletes, Still, Renumbering, RowChange
  <2> QED
    BY <1>c, <2>1, <2>2, <2>3, <2>4
<1>u. unsure \subseteq unsure'
  BY UpsetGrows
<1>1. ASSUME dialer'[i] = dialer[i] \/ (dialer'[i].pc = dialer[i].pc /\ dialer'[i].contact = d
                                          /\ (dialer'[i].clean => dialer[i].clean)),
             dialer[i].pc = "call" /\ dialer'[i].clean /\ d \notin unsure => numbers'[d] = numbers[d],
             dialer[i].pc = "call" /\ dialer'[i].clean /\ d \notin unsure =>
               \A b \in Clients : Renumbered(b)' =>
                 (Renumbered(b) /\ Subject(b)' = Subject(b)) \/ Subject(b)' # d
      PROVE  DialInv(i)'
  BY <1>1, <1>c, <1>u DEF DialInv
<1>2. CASE UNCHANGED contactVars
  BY <1>1, <1>2 DEF contactVars, Renumbered, In, Want, Subject
<1>3. ASSUME NEW j \in Incidents, WorkerKind(j), dialer'[i] = dialer[i] PROVE DialInv(i)'
  BY <1>1, <1>3 DEF WorkerKind, Closes, LooksUp, Places, Renumbered, In, Want, Subject
<1>4. ASSUME Places(i) PROVE DialInv(i)'
  BY <1>0, <1>4 DEF Places, NoCall, DialInv
<1>5. ASSUME LooksUp(i) PROVE DialInv(i)'
  <2>1. PICK c \in {cases[i].primary, cases[i].supervisor} :
          /\ rows[c].there /\ rows[c].opted
          /\ dialer' = [dialer EXCEPT ![i] =
               [pc |-> "call", contact |-> c, clean |-> Changing(c) = {} /\ c \notin upset]]
    BY <1>5 DEF LooksUp
  <2>2. c \in Contacts /\ cases' = cases /\ numbers' = numbers /\ client' = client /\ unsure' = unsure
        /\ cases[i].state # "none"
    BY <1>5 DEF LooksUp, CaseInv
  <2>3. dialer'[i].contact = c /\ (dialer'[i].clean => Changing(c) = {} /\ c \notin upset)
    BY <1>0, <2>1
  <2>4. ASSUME dialer'[i].clean, c \notin unsure
        PROVE numbers[c] \in Approved /\ \A b \in Clients : Renumbered(b) => Subject(b) # c
    <3>1. Changing(c) = {} /\ c \notin upset \cup unsure /\ RestInv(c)
      BY <2>2, <2>3, <2>4
    <3>2. numbers[c] \in Approved
      BY <2>1, <3>1 DEF RestInv, Tells, Vetted
    <3>3. ASSUME NEW b \in Clients, Renumbered(b) PROVE Subject(b) # c
      <4>1. client[b].pc \in Patching
        BY <3>3 DEF Renumbered, In, Patching
      <4>2. Want(b).op = "patch" /\ client[b].pc \notin {"new", "over"}
        BY <1>0, <4>1 DEF ClientInv, Patching
      <4> QED
        BY <3>1, <4>2 DEF Changing
    <3> QED
      BY <3>2, <3>3
  <2>5. \A b \in Clients : (Renumbered(b)' => Renumbered(b)) /\ Subject(b)' = Subject(b)
    BY <2>2 DEF Renumbered, In, Want, Subject
  <2> QED
    BY <2>1, <2>2, <2>3, <2>4, <2>5 DEF DialInv
<1>6. ASSUME NEW a \in Clients, ClientKind(a) PROVE DialInv(i)'
  <2>1. \A b \in Clients \ {a} : Renumbered(b)' => Renumbered(b) /\ Subject(b)' = Subject(b)
    BY <1>6 DEF ClientKind, Arrives, Leaves, Reads, Checks, Keeps, Falters, Authorizes, Quotas,
       Creates, Drops, Renumbers, Restores, Inserts, Updates, Unanswered, Deletes, Makes, Goes, Over, Alone,
       Renumbered, In, Want, Subject
  <2>2. CASE Renumbers(a)
    <3>1. /\ dialer'[i].pc = dialer[i].pc /\ dialer'[i].contact = d
          /\ dialer'[i].clean => dialer[i].clean /\ d # Subject(a)
      <4>1. dialer'[i] = [dialer[i] EXCEPT !.clean = @ /\ d # Subject(a)]
        BY <2>2 DEF Renumbers
      <4>2. dialer[i] \in DialerRecords
        BY <1>0
      <4>3. /\ dialer'[i].pc = dialer[i].pc /\ dialer'[i].contact = d
            /\ dialer'[i].clean = (dialer[i].clean /\ d # Subject(a))
        BY <4>1, <4>2 DEF DialerRecords
      <4> QED
        BY <4>3
    <3>2. d # Subject(a) /\ d \in Contacts => numbers'[d] = numbers[d]
      BY <1>0, <2>2 DEF Renumbers
    <3>3. Renumbered(a)' => Subject(a)' = Subject(a)
      BY <2>2 DEF Renumbers, Goes, Over, Renumbered, In, Want, Subject
    <3> QED
      BY <1>1, <1>d, <2>1, <3>1, <3>2, <3>3
  <2>3. CASE ~ Renumbers(a)
    <3>1. dialer' = dialer
      BY <1>6, <2>3 DEF ClientKind, Arrives, Leaves, Reads, Checks, Keeps, Falters, Authorizes,
         Quotas, Creates, Drops, Restores, Inserts, Updates, Unanswered, Deletes, Makes, Still, RowChange
    <3>2. Renumbered(a)' => Renumbered(a) /\ Subject(a)' = Subject(a)
      <4> USE DEF Renumbered, In, Want, Subject, Goes, Over
      <4>1. CASE Arrives(a)
        BY <4>1, ChangeTypes DEF Arrives
      <4>2. CASE \/ Checks(a) \/ Keeps(a) \/ Falters(a) \/ Reads(a) \/ Creates(a) \/ Deletes(a)
                 \/ Unanswered(a)
        BY <4>2 DEF Checks, Keeps, Falters, Reads, Creates, Deletes, Unanswered
      <4>3. CASE Authorizes(a) \/ Quotas(a)
        BY <4>3 DEF Authorizes, Quotas, Authorizing
      <4>4. CASE Leaves(a) \/ Drops(a) \/ Restores(a) \/ Inserts(a) \/ Updates(a) \/ Makes(a)
        BY <4>4 DEF Leaves, Drops, Restores, Inserts, Updates, Makes
      <4> QED
        BY <1>6, <2>3, <4>1, <4>2, <4>3, <4>4 DEF ClientKind
    <3>3. ASSUME dialer[i].pc = "call", dialer[i].clean, d \notin unsure PROVE numbers'[d] = numbers[d]
      <4>1. d \in Contacts /\ rows[d].there /\ numbers[d] # Nowhere
        BY <1>d, <3>3 DEF SecretInv
      <4>2. CASE Creates(a)
        BY <1>0, <4>1, <4>2 DEF Creates
      <4>3. CASE Drops(a)
        <5>1. Subject(a) # d
          BY <3>3, <4>1, <4>3 DEF Drops, SecretInv, Halfway, In
        <5> QED
          BY <1>0, <4>1, <4>3, <5>1 DEF Drops
      <4>4. CASE Restores(a)
        <5>1. Subject(a) # d
          BY <3>3, <4>4 DEF Restores, DialInv, Renumbered
        <5> QED
          BY <1>0, <4>1, <4>4, <5>1 DEF Restores
      <4>5. CASE ~ Creates(a) /\ ~ Drops(a) /\ ~ Restores(a)
        BY <1>6, <2>3, <4>5 DEF ClientKind, Arrives, Leaves, Reads, Checks, Keeps, Falters,
           Authorizes, Quotas, Inserts, Updates, Unanswered, Deletes, Makes, Still, RowChange
      <4> QED
        BY <4>2, <4>3, <4>4, <4>5
    <3>4. dialer'[i] = dialer[i]
      BY <3>1
    <3> QED
      BY <1>1, <2>1, <3>2, <3>3, <3>4
  <2> QED
    BY <2>2, <2>3
<1>7. ASSUME NEW j \in Incidents, WorkerKind(j) 
      PROVE  dialer'[i] = dialer[i] \/ (i = j /\ (LooksUp(i) \/ Places(i)))
  BY <1>0, <1>7 DEF WorkerKind, Closes, LooksUp, Places
<1> QED
  BY <1>2, <1>3, <1>4, <1>5, <1>6, <1>7, ContactKinds

LEMMA BarredStep ==
  ASSUME Known, \A i \in Incidents : DialInv(i), CallIsLetThrough, [ContactNext]_contactVars
  PROVE  CallIsLetThrough'
<1>1. ASSUME NEW i \in Incidents, Places(i) PROVE barred' = barred
  BY <1>1 DEF Places, DialInv
<1>2. barred' = barred \/ \E i \in Incidents : Places(i)
  BY ContactKinds DEF contactVars, WorkerKind, LooksUp, Closes, ClientKind, Arrives, Leaves, Reads,
     Checks, Keeps, Falters, Authorizes, Quotas, Creates, Drops, Renumbers, Restores, Inserts,
     Updates, Unanswered, Deletes, Makes, Still, Renumbering, RowChange
<1> QED
  BY <1>1, <1>2 DEF CallIsLetThrough

LEMMA Counted ==
  ASSUME IsFiniteSet(Made)
  PROVE  /\ Today \in Nat
         /\ \A i \in Incidents \ Made :
              IsFiniteSet(Made \cup {i}) /\ Cardinality(Made \cup {i}) = Today + 1
<1>1. Today = Cardinality(Made)
  BY DEF Today, Made
<1> QED
  BY <1>1, FS_CardinalityType, FS_AddElement

(* A request that counts alone is the only one on its way to a first case; *)
(* one that does not raises hasty.                                         *)
LEMMA QuotaStep ==
  ASSUME Known, QuotaInv, [ContactNext]_contactVars
  PROVE  QuotaInv'
<1>0. /\ cases \in [Incidents -> CaseRecords] /\ DayQuota \in Nat /\ hasty \in Nat
      /\ IsFiniteSet(Made) /\ Today \in Nat /\ Today = Cardinality(Made)
      /\ IsFiniteSet(First) /\ Cardinality(First) \in Nat
      /\ Today + Cardinality(First) <= DayQuota + hasty
      /\ \A a \in Clients : ClientInv(a)
  BY DirectoryAssumption, Counted, FS_CardinalityType
     DEF Known, ContactTypes, QuotaInv, Today, Made
<1>1. ASSUME Made' = Made, hasty' = hasty, \A b \in Clients : FirstCase(b)' => FirstCase(b)
      PROVE  QuotaInv'
  <2>1. Today' = Today
    BY <1>1 DEF Today, Made
  <2>2. First' \subseteq First
    BY <1>1 DEF First
  <2>3. IsFiniteSet(First') /\ Cardinality(First') <= Cardinality(First)
    BY <1>0, <2>2, FS_Subset
  <2>4. Cardinality(First') \in Nat
    BY <2>3, FS_CardinalityType
  <2> QED
    BY <1>0, <1>1, <2>1, <2>3, <2>4 DEF QuotaInv
<1>k. ASSUME cases' = cases PROVE Made' = Made /\ \A b \in Clients : KeyCase(b)' = KeyCase(b)
  BY <1>k DEF Made, KeyCase
<1>2. CASE UNCHANGED contactVars
  BY <1>1, <1>2, <1>k DEF contactVars, FirstCase, Making
<1>3. ASSUME NEW i \in Incidents, WorkerKind(i) PROVE QuotaInv'
  <2>1. client' = client /\ hasty' = hasty
    BY <1>3 DEF WorkerKind, Closes, LooksUp, Places
  <2>2. \A j \in Incidents : /\ cases'[j].key = cases[j].key
                             /\ cases'[j].state # "none" <=> cases[j].state # "none"
    BY <1>0, <1>3 DEF WorkerKind, Closes, LooksUp, Places, CaseRecords
  <2>3. Made' = Made /\ \A b \in Clients : KeyCase(b)' = KeyCase(b)
    BY <2>2 DEF Made, KeyCase
  <2> QED
    BY <1>1, <2>1, <2>3 DEF FirstCase, Making
<1>4. ASSUME NEW a \in Clients, ClientKind(a), ~ Makes(a), ~ Quotas(a) PROVE QuotaInv'
  <2>1. /\ cases' = cases /\ hasty' = hasty /\ \A b \in Clients \ {a} : client'[b] = client[b]
    BY <1>4 DEF ClientKind, Arrives, Leaves, Reads, Checks, Keeps, Falters, Authorizes,
       Creates, Drops, Renumbers, Restores, Inserts, Updates, Unanswered, Deletes, Still,
       Renumbering, RowChange, Goes, Over, Alone
  <2>2. a \in Making' => a \in Making \/ KeyCase(a) # {}
    <3>1. CASE Authorizes(a)
      BY <3>1 DEF Authorizes, Making, MakingPcs
    <3>2. CASE Arrives(a)
      BY <3>2, ChangeTypes DEF Arrives, Making
    <3>3. CASE ~ Authorizes(a) /\ ~ Arrives(a)
      BY <1>4, <3>3 DEF ClientKind, Leaves, Reads, Checks, Keeps, Falters, Creates, Drops,
         Renumbers, Restores, Inserts, Updates, Unanswered, Deletes, Goes, Over, Making
    <3> QED
      BY <3>1, <3>2, <3>3
  <2> QED
    BY <1>1, <1>k, <2>1, <2>2 DEF FirstCase, Making
<1>5. ASSUME NEW a \in Clients, Quotas(a) PROVE QuotaInv'
  <2>1. /\ cases' = cases /\ \A b \in Clients \ {a} : client'[b] = client[b]
    BY <1>5 DEF Quotas, Still, Goes, Over, Alone
  <2>2. Made' = Made /\ Today' = Today /\ \A b \in Clients : KeyCase(b)' = KeyCase(b)
    BY <1>k, <2>1 DEF Today, Made
  <2>3. hasty' = IF Today < DayQuota /\ Making # {} THEN hasty + 1 ELSE hasty
    BY <1>5, Zenon DEF Quotas
  <2>4. \A b \in Clients \ {a} : FirstCase(b)' => FirstCase(b)
    BY <2>1, <2>2 DEF FirstCase, Making
  <2>5. CASE Today >= DayQuota
    <3>1. ~ FirstCase(a)'
      BY <1>5, <2>5 DEF Quotas, Over, FirstCase, Making
    <3>2. hasty' = hasty
      BY <1>0, <2>3, <2>5
    <3> QED
      BY <1>1, <2>2, <2>4, <3>1, <3>2
  <2>6. CASE Today < DayQuota /\ Making = {}
    <3>1. First' \subseteq {a}
      BY <2>4, <2>6 DEF First, FirstCase
    <3>2. IsFiniteSet(First') /\ Cardinality(First') <= 1 /\ Cardinality(First') \in Nat
      <4>1. IsFiniteSet({a}) /\ Cardinality({a}) = 1
        BY FS_Singleton
      <4>2. IsFiniteSet(First') /\ Cardinality(First') <= Cardinality({a})
        BY <3>1, <4>1, FS_Subset
      <4> QED
        BY <4>1, <4>2, FS_CardinalityType
    <3>3. hasty' = hasty
      BY <2>3, <2>6
    <3> QED
      BY <1>0, <2>2, <2>6, <3>2, <3>3 DEF QuotaInv
  <2>7. CASE Today < DayQuota /\ Making # {}
    <3>1. First' \subseteq First \cup {a}
      BY <2>4 DEF First
    <3>2. IsFiniteSet(First \cup {a}) /\ Cardinality(First \cup {a}) <= Cardinality(First) + 1
      <4>1. /\ IsFiniteSet(First \cup {a})
            /\ Cardinality(First \cup {a})
                 = IF a \in First THEN Cardinality(First) ELSE Cardinality(First) + 1
        BY <1>0, FS_AddElement
      <4> HIDE DEF First
      <4> QED
        BY <1>0, <4>1
    <3>3. /\ IsFiniteSet(First') /\ Cardinality(First') <= Cardinality(First \cup {a})
          /\ Cardinality(First') \in Nat /\ Cardinality(First \cup {a}) \in Nat
      BY <3>1, <3>2, FS_Subset, FS_CardinalityType
    <3>4. hasty' = hasty + 1
      BY <2>3, <2>7
    <3> QED
      BY <1>0, <2>2, <3>2, <3>3, <3>4 DEF QuotaInv
  <2> QED
    BY <1>0, <2>5, <2>6, <2>7
<1>6. ASSUME NEW a \in Clients, Makes(a) PROVE QuotaInv'
  <2> DEFINE i == Want(a).incident
  <2>1. i \in Incidents
    <3>1. Want(a) \in Changes /\ Want(a).op = "authorize"
      BY <1>6, ClientFacts DEF Makes, In, Live, Authorizing
    <3> QED
      BY <3>1, ChangeTypes
  <2>2. /\ cases'[i].state = "active" /\ cases[i].state = "none"
        /\ \A j \in Incidents \ {i} : cases'[j] = cases[j]
    BY <1>0, <1>6, <2>1 DEF Makes
  <2>3. Made' = Made \cup {i} /\ i \notin Made
    BY <2>1, <2>2 DEF Made
  <2>4. IsFiniteSet(Made') /\ Today' = Today + 1
    <3>1. Today' = Cardinality(Made')
      BY DEF Today, Made
    <3>2. IsFiniteSet(Made \cup {i}) /\ Cardinality(Made \cup {i}) = Today + 1
      BY <1>0, <2>1, <2>3, Counted
    <3> QED
      BY <2>3, <3>1, <3>2
  <2>5. a \in First /\ hasty' = hasty
    BY <1>6 DEF Makes, First, FirstCase, Making, In
  <2>6. ASSUME NEW b \in Clients, FirstCase(b)' PROVE FirstCase(b) /\ b # a
    <3>1. b \in Making' /\ KeyCase(b)' = {}
      BY <2>6 DEF FirstCase
    <3>2. b # a
      BY <1>6, <3>1 DEF Makes, Over, Making
    <3>3. b \in Making
      BY <1>6, <3>1, <3>2 DEF Makes, Over, Alone, Making
    <3>4. KeyCase(b) = {}
      BY <2>2, <3>1 DEF KeyCase
    <3> QED
      BY <3>2, <3>3, <3>4 DEF FirstCase
  <2>7. First' \subseteq First \ {a}
    BY <2>6 DEF First
  <2>8. IsFiniteSet(First \ {a}) /\ Cardinality(First \ {a}) = Cardinality(First) - 1
    BY <1>0, <2>5, FS_RemoveElement
  <2>9. IsFiniteSet(First') /\ Cardinality(First') <= Cardinality(First \ {a})
        /\ Cardinality(First') \in Nat
    BY <2>7, <2>8, FS_Subset, FS_CardinalityType
  <2> QED
    BY <1>0, <2>4, <2>5, <2>8, <2>9 DEF QuotaInv
<1> QED
  BY <1>2, <1>3, <1>4, <1>5, <1>6, ContactKinds

-----------------------------------------------------------------------------

LEMMA ContactInvInit == ContactInit => ContactInv
<1> SUFFICES ASSUME ContactInit PROVE ContactInv
  OBVIOUS
<1> USE DEF ContactInit
<1>0. /\ Directory \in [Contacts -> Row] /\ Approved \subseteq Numbers
      /\ Nowhere \notin Numbers /\ MaxOutages \in Nat /\ DayQuota \in Nat
      /\ \A c \in Contacts : Directory[c].opted => Directory[c].mask \in Approved
  BY DirectoryAssumption
<1>1. \A a \in Clients : client[a] = Idle /\ client[a].pc = "new" /\ client[a].change = Nowhere
  BY DEF Idle
<1>2. \A i \in Incidents : cases[i].state = "none" /\ dialer[i].pc = "idle"
  BY DEF NoCase, NoCall
<1>3. ContactTypes
  <2>1. client \in [Clients -> ClientRecords]
    BY DEF Idle, ClientRecords, Quiet
  <2>2. cases \in [Incidents -> CaseRecords] /\ dialer \in [Incidents -> DialerRecords]
    BY DEF NoCase, CaseRecords, NoCall, DialerRecords
  <2>3. rows \in [Contacts -> Row] /\ numbers \in [Contacts -> Numbers \cup {Nowhere}]
    BY <1>0 DEF Row
  <2>4. outages \in 0..MaxOutages
    BY <1>0, DirectoryAssumption
  <2>5. upset \cup unsure \subseteq Contacts /\ hasty \in Nat
    OBVIOUS
  <2> QED
    BY <2>1, <2>2, <2>3, <2>4, <2>5 DEF ContactTypes
<1>4. \A a \in Clients : ClientInv(a)
  BY <1>1 DEF ClientInv, In, Want, Quiet, Creating, Patching, Authorizing, Renumbered
<1>5. SecretInv
  BY <1>0, <1>1 DEF SecretInv, Halfway, Row
<1>6. \A i \in Incidents : CaseInv(i) /\ DialInv(i)
  BY <1>2 DEF CaseInv, DialInv
<1>7. \A c \in Contacts : RestInv(c)
  <2>1. \A c \in Contacts : Changing(c) = {}
    BY <1>1 DEF Changing
  <2> QED
    BY <1>0, <2>1 DEF RestInv, Tells, Vetted
<1>8. CallIsLetThrough
  BY DEF CallIsLetThrough
<1>9. QuotaInv
  <2>1. Made = {}
    BY <1>2 DEF Made
  <2>2. Today = 0
    BY <2>1, FS_EmptySet DEF Today, Made
  <2>3. First = {}
    BY <1>1 DEF First, FirstCase, Making
  <2> QED
    BY <1>0, <2>1, <2>2, <2>3, FS_EmptySet DEF QuotaInv
<1> QED
  BY <1>3, <1>4, <1>5, <1>6, <1>7, <1>8, <1>9 DEF ContactInv

LEMMA ContactInvStep == ContactInv /\ [ContactNext]_contactVars => ContactInv'
<1> SUFFICES ASSUME ContactInv, [ContactNext]_contactVars PROVE ContactInv'
  OBVIOUS
<1>0. Known
  BY DEF ContactInv, Known
<1>1. ContactTypes' /\ SecretInv' /\ CallIsLetThrough' /\ QuotaInv'
  BY <1>0, ContactTypesStep, SecretStep, BarredStep, QuotaStep DEF ContactInv
<1>2. \A a \in Clients : ClientInv(a)'
  BY <1>0, ClientStep
<1>3. \A i \in Incidents : CaseInv(i)'
  BY <1>0, CaseStep DEF ContactInv
<1>4. \A c \in Contacts : RestInv(c)'
  BY <1>0, RestStep DEF ContactInv
<1>5. \A i \in Incidents : DialInv(i)'
  BY <1>0, DialStep DEF ContactInv
<1> QED
  BY <1>1, <1>2, <1>3, <1>4, <1>5 DEF ContactInv

(* Of a contact with no commit answered by an error: half created or half  *)
(* deleted it has one owner; between two of a request's steps it is what   *)
(* its request knows of it, if no other request upset it; a clean call has *)
(* an approved number.  And the cases and the requests on their way to a   *)
(* first case keep the quota, up to those that were counted too early.     *)
THEOREM ContactInvariant == ContactSpec => []ContactInv
  BY ContactInvInit, ContactInvStep, PTL DEF ContactSpec

(* However many requests, contacts and incidents there are, the directory  *)
(* keeps its shape.                                                        *)
THEOREM ContactTypeCorrect == ContactSpec => []ContactTypeOK
<1>1. ContactInv => ContactTypeOK
  <2> SUFFICES ASSUME ContactInv PROVE ContactTypeOK
    OBVIOUS
  <2>1. \A i \in Incidents :
          /\ cases[i].state \in {"none", "active", "closed"}
          /\ cases[i].state # "none" => {cases[i].primary, cases[i].supervisor} \subseteq Contacts
    BY DEF ContactInv, ContactTypes, CaseRecords, CaseInv
  <2>2. \A a \in Clients : Want(a) \in Changes \cup {Nowhere}
    BY DEF ContactInv, ContactTypes, ClientRecords, Want
  <2>3. barred = {}
    BY DEF ContactInv, CallIsLetThrough
  <2> QED
    BY <2>1, <2>2, <2>3 DEF ContactInv, ContactTypes, ContactTypeOK
<1> QED
  BY <1>1, ContactInvariant, PTL

(* Whoever a case names has a row, whatever is created, changed and deleted*)
(* at the same time, breaks off or fails; and the row has a number unless  *)
(* its commit was answered by an error.                                    *)
THEOREM CaseCanAlwaysBeDialled == ContactSpec => []CaseCanBeDialled
<1>1. ContactInv => CaseCanBeDialled
  <2> SUFFICES ASSUME ContactInv PROVE CaseCanBeDialled
    OBVIOUS
  <2>1. \A i \in Incidents :
          cases[i].state # "none" => rows[cases[i].primary].there /\ rows[cases[i].supervisor].there
    BY DEF ContactInv, CaseInv
  <2>2. ASSUME NEW i \in Incidents, NEW role \in Role, cases[i].state # "none"
        PROVE  rows[cases[i][role]].there
    BY <2>1, <2>2 DEF Role
  <2> QED
    BY <2>2 DEF ContactInv, SecretInv, CaseCanBeDialled
<1> QED
  BY <1>1, ContactInvariant, PTL

(* The masked number on the screen is that of the number in the secret as  *)
(* soon as the one request about the contact is over, however it ended but *)
(* by breaking off or by a commit answered by an error.                    *)
THEOREM MaskAlwaysTellsNumber == ContactSpec => []MaskTellsNumber
<1>1. ContactInv => MaskTellsNumber
  BY DEF ContactInv, RestInv, Tells, MaskTellsNumber
<1> QED
  BY <1>1, ContactInvariant, PTL

(* The provider's check at the call refuses no contact whose changes were  *)
(* made one by one and answered: for all contacts, numbers and requests    *)
(* the API's checks on change suffice.                                     *)
THEOREM CallAlwaysLetThrough == ContactSpec => []CallIsLetThrough
<1>1. ContactInv => CallIsLetThrough
  BY DEF ContactInv
<1> QED
  BY <1>1, ContactInvariant, PTL

(* For any quota and any number of requests, the day's cases exceed it at  *)
(* most by the requests that were counted while another was making a case. *)
THEOREM DailyQuotaAlways == ContactSpec => []DailyQuota
<1>1. ContactInv => DailyQuota
  <2> SUFFICES ASSUME ContactInv PROVE DailyQuota
    OBVIOUS
  <2>1. Today \in Nat /\ Cardinality(First) \in Nat /\ DayQuota \in Nat /\ hasty \in Nat
    BY Counted, FS_CardinalityType, DirectoryAssumption DEF ContactInv, QuotaInv, ContactTypes
  <2> QED
    BY <2>1 DEF ContactInv, QuotaInv, DailyQuota
<1> QED
  BY <1>1, ContactInvariant, PTL

-----------------------------------------------------------------------------
(* The two parts side by side: neither touches what belongs to the other.  *)
LEMMA PartsOfApi == Spec => ReviewSpec /\ ContactSpec
<1>1. Init => ReviewInit /\ ContactInit
  BY DEF Init
<1>2. [Next]_<<allVars, contactVars, part>> => [ReviewNext]_allVars /\ [ContactNext]_contactVars
  BY DEF Next
<1> QED
  BY <1>1, <1>2, PTL DEF Spec, ReviewSpec, ContactSpec

(* Both parts keep the shape of their state while the other one works: the *)
(* candidate with its review and event, and the directory with its numbers.*)
THEOREM ApiTypeCorrect == Spec => []ApiTypeOK
<1>1. ReviewTypeOK /\ ContactTypeOK => ApiTypeOK
  BY DEF ApiTypeOK
<1> QED
  BY <1>1, PartsOfApi, ReviewTypeCorrect, ContactTypeCorrect, PTL

=============================================================================
