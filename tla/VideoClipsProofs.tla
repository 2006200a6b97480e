-------------------------- MODULE VideoClipsProofs --------------------------
(* Three parts of the video service that share no variable, each with its  *)
(* inductive invariant and the theorems that follow from it: the fresh     *)
(* analysis of a clip that failed (ReanalysisInv), what is stored of a     *)
(* clip from its upload to the end of its retention (AssetInv, and for the *)
(* quota QuotaInv), and live capture with its backlog and the coverage     *)
(* that is measured (CoverageInv).                                         *)
(*                                                                         *)
(* Everything is proved of the parts' own specifications.  MCVideo, whose  *)
(* constants are as free here as the parts' are, puts them side by side,   *)
(* and its specification implies all three.                                *)
EXTENDS MCVideo, IdempotencyProofs, FiniteSetTheorems, TLAPS

-----------------------------------------------------------------------------
(* Fresh analyses of a clip whose analysis failed.                         *)

\* Where a request is in its action, or about to record its result.
Started == {"touch", "publish", "audit", "complete"}
RequestPcs ==
  InAction \cup {"new", "reserve", "inspect", "complete", "undo", "done", "dead"}

RunAnswers == {"none", "ok", "error", "conflict", "in_progress", "not_allowed",
               "already_completed", "job_conflict"}
RunRecords ==
  [pc: RequestPcs, inserted: BOOLEAN, answer: RunAnswers, result: Requests \cup {NoRequest}]
KeyRecords ==
  [state: {"none", "running", "completed"}, by: Requests \cup {NoRequest},
   result: Requests \cup {NoRequest}]

Has(k) == jobs[k].state # NoJob
Sent(k) == Has(k) /\ k \in sent
RunsInv ==
  /\ calls \in [Requests -> RunRecords] /\ records \in [Keys -> KeyRecords]
  /\ \A r \in Requests :
       /\ calls[r].pc \in Started => Has(KeyOf[r])
       /\ calls[r].pc \in {"audit", "complete"} \/ calls[r].answer = "ok" => Sent(KeyOf[r])
  /\ \A k \in Keys : records[k].state = "completed" => Sent(k)

JobsInv ==
  /\ ReanalysisTypeOK
  /\ IsFiniteSet({j \in Analyses : Has(j)})
  /\ \A i, j \in ActiveJobs : i = j
  /\ \A j \in Analyses : worker[j] = "finish" => jobs[j].state = "running"

ReanalysisInv == JobsInv /\ RunsInv

-----------------------------------------------------------------------------
(* What a step does to the request that takes it and to the records.       *)

LEMMA RunFacts ==
  ASSUME ReanalysisInv
  PROVE  /\ calls \in [Requests -> RunRecords] /\ records \in [Keys -> KeyRecords]
         /\ \A r \in Requests : KeyOf[r] \in Keys /\ KeyOf[r] \in Analyses
         /\ Keys \subseteq Analyses /\ NoRequest \notin Requests
         /\ jobs \in [Analyses -> [state: {NoJob} \cup Active \cup Final, made: Nat]]
         /\ worker \in [Analyses -> {"none", "finish", "spoil"}]
  BY IdempotencyAssumption DEF ReanalysisInv, RunsInv, JobsInv, ReanalysisTypeOK, Keys, Analyses

\* Request r alone takes a step, to pc and with this answer.
Turned(r, pc, answer) ==
  /\ calls' \in [Requests -> RunRecords]
  /\ \A s \in Requests \ {r} : calls'[s] = calls[s]
  /\ calls'[r].pc = pc /\ calls'[r].answer = answer

LEMMA Becoming ==
  ASSUME ReanalysisInv, NEW r \in Requests, NEW pc \in RequestPcs, Become(r, pc)
  PROVE  Turned(r, pc, calls[r].answer)
  BY RunFacts DEF Become, Turned, RunRecords

LEMMA Answering ==
  ASSUME ReanalysisInv, NEW r \in Requests, NEW answer \in RunAnswers,
         NEW result \in Requests \cup {NoRequest}, Answer(r, answer, result)
  PROVE  Turned(r, "done", answer)
<1>1. "done" \in RequestPcs /\ calls \in [Requests -> RunRecords]
  BY RunFacts DEF RequestPcs
<1> QED
  BY <1>1 DEF Answer, Turned, RunRecords

LEMMA Failing ==
  ASSUME ReanalysisInv, NEW r \in Requests, NEW answer \in RunAnswers, Fail(r, answer)
  PROVE  Turned(r, "undo", answer)
<1>1. /\ "undo" \in RequestPcs /\ NoRequest \in Requests \cup {NoRequest}
      /\ calls \in [Requests -> RunRecords]
  BY RunFacts DEF RequestPcs
<1> QED
  BY <1>1 DEF Fail, Turned, RunRecords

\* No other row is completed than those that were.
NoneCompleted ==
  /\ records' \in [Keys -> KeyRecords]
  /\ \A k \in Keys : records'[k].state = "completed" => records[k].state = "completed"
Aside(r) ==
  /\ NoneCompleted /\ UNCHANGED jobVars
  /\ \E pc \in RequestPcs \ Started, answer \in RunAnswers :
       Turned(r, pc, answer) /\ (answer = "ok" => calls[r].answer = "ok")
Finds(r) ==
  /\ Turned(r, "touch", calls[r].answer) /\ Has(KeyOf[r])
  /\ UNCHANGED <<records, jobVars>>
Adds(r) ==
  LET j == KeyOf[r] IN
  /\ Turned(r, "touch", calls[r].answer) /\ UNCHANGED <<records, sent, asset, media, worker>>
  /\ ~ Has(j) /\ ActiveJobs = {}
  /\ jobs' = [jobs EXCEPT ![j] = [state |-> "queued", made |-> Made + 1]]
Touches(r) ==
  /\ At(r, "touch") /\ Turned(r, "publish", calls[r].answer) /\ asset' = "processing"
  /\ UNCHANGED <<records, jobs, sent, media, worker>>
Publishes(r) ==
  /\ At(r, "publish") /\ Turned(r, "audit", calls[r].answer)
  /\ sent' = sent \cup {KeyOf[r]} /\ UNCHANGED <<records, jobs, asset, media, worker>>
Audits(r) ==
  /\ At(r, "audit") /\ Turned(r, "complete", calls[r].answer) /\ UNCHANGED <<records, jobVars>>
Repeats(r) ==
  /\ records[KeyOf[r]].state = "completed" /\ Turned(r, "done", "ok")
  /\ UNCHANGED <<records, jobVars>>
Completes(r) ==
  /\ At(r, "complete") /\ (Turned(r, "done", "ok") \/ Turned(r, "undo", "error"))
  /\ UNCHANGED jobVars
  /\ records' \in [Keys -> KeyRecords]
  /\ \A k \in Keys \ {KeyOf[r]} : records'[k] = records[k]

RunKind(r) == \/ Aside(r) \/ Finds(r) \/ Adds(r) \/ Touches(r) \/ Publishes(r)
              \/ Audits(r) \/ Repeats(r) \/ Completes(r)

LEMMA GoingAside ==
  ASSUME ReanalysisInv, NEW r \in Requests, UNCHANGED <<records, jobVars>>,
         \/ \E pc \in RequestPcs \ Started : Become(r, pc)
         \/ \E answer \in RunAnswers \ {"ok"} : Fail(r, answer)
         \/ \E answer \in RunAnswers \ {"ok"} : Answer(r, answer, NoRequest)
  PROVE  Aside(r)
<1>1. NoneCompleted /\ UNCHANGED jobVars
  BY RunFacts DEF NoneCompleted
<1>2. CASE \E pc \in RequestPcs \ Started : Become(r, pc)
  <2>1. PICK pc \in RequestPcs \ Started : Become(r, pc)
    BY <1>2
  <2>2. Turned(r, pc, calls[r].answer) /\ calls[r].answer \in RunAnswers
    BY <2>1, Becoming, RunFacts DEF RunRecords
  <2> QED
    BY <1>1, <2>1, <2>2 DEF Aside
<1>3. CASE \E answer \in RunAnswers \ {"ok"} : Fail(r, answer)
  <2>1. PICK answer \in RunAnswers \ {"ok"} : Fail(r, answer)
    BY <1>3
  <2>2. Turned(r, "undo", answer) /\ "undo" \in RequestPcs \ Started
    BY <2>1, Failing DEF RequestPcs, Started
  <2> QED
    BY <1>1, <2>1, <2>2 DEF Aside
<1>4. CASE \E answer \in RunAnswers \ {"ok"} : Answer(r, answer, NoRequest)
  <2>1. PICK answer \in RunAnswers \ {"ok"} : Answer(r, answer, NoRequest)
    BY <1>4
  <2>2. Turned(r, "done", answer) /\ "done" \in RequestPcs \ Started
    BY <2>1, Answering DEF RequestPcs, Started
  <2> QED
    BY <1>1, <2>1, <2>2 DEF Aside
<1> QED
  BY <1>2, <1>3, <1>4

LEMMA RequestKinds ==
  ASSUME ReanalysisInv, NEW r \in Requests, Request(r) \/ RequestFault(r)
  PROVE  RunKind(r)
<1>0. /\ calls \in [Requests -> RunRecords] /\ records \in [Keys -> KeyRecords]
      /\ KeyOf[r] \in Keys /\ KeyOf[r] \in Analyses /\ calls[r].answer \in RunAnswers
  BY RunFacts DEF RunRecords
<1>p. /\ {"reserve", "related", "enqueue", "inspect", "act", "dead"} \subseteq RequestPcs \ Started
      /\ {"touch", "publish", "audit", "complete"} \subseteq RequestPcs
      /\ {"error", "conflict", "in_progress", "not_allowed", "already_completed", "job_conflict"}
           \subseteq RunAnswers \ {"ok"}
      /\ "ok" \in RunAnswers
  BY DEF RequestPcs, Started, RunAnswers, InAction
<1>r. ASSUME RecordResult(r)
      PROVE  /\ records' \in [Keys -> KeyRecords]
             /\ \A k \in Keys \ {KeyOf[r]} : records'[k] = records[k]
  <2>1. calls[r].result \in Requests \cup {NoRequest}
    BY <1>0 DEF RunRecords
  <2> QED
    BY <1>0, <1>r, <2>1 DEF RecordResult, KeyRecords
<1>1. ASSUME Start(r) PROVE Aside(r)
  BY <1>1, <1>p, GoingAside DEF Start
<1>2. ASSUME CheckTarget(r) PROVE Aside(r)
  BY <1>2, <1>p, GoingAside DEF CheckTarget
<1>3. ASSUME CheckRelated(r) PROVE Aside(r)
  BY <1>3, <1>p, GoingAside DEF CheckRelated
<1>4. ASSUME Enqueue(r) PROVE Aside(r) \/ Finds(r) \/ Adds(r)
  <2>1. CASE jobs[KeyOf[r]].state # NoJob
    <3>1. Turned(r, "touch", calls[r].answer)
      BY <1>4, <2>1, <1>p, Becoming DEF Enqueue
    <3> QED
      BY <1>4, <2>1, <3>1 DEF Enqueue, Finds, Has, jobVars
  <2>2. CASE jobs[KeyOf[r]].state = NoJob /\ ActiveJobs # {}
    BY <1>4, <2>2, <1>p, GoingAside DEF Enqueue, jobVars
  <2>3. CASE jobs[KeyOf[r]].state = NoJob /\ ActiveJobs = {}
    <3>1. Turned(r, "touch", calls[r].answer)
      BY <1>4, <2>3, <1>p, Becoming DEF Enqueue
    <3> QED
      BY <1>4, <2>3, <3>1 DEF Enqueue, Adds, Has
  <2> QED
    BY <2>1, <2>2, <2>3
<1>5. ASSUME Touch(r) PROVE Touches(r)
  BY <1>5, <1>p, Becoming DEF Touch, Touches
<1>6. ASSUME Publish(r) PROVE Publishes(r)
  BY <1>6, <1>p, Becoming DEF Publish, Publishes
<1>7. ASSUME Audit(r) PROVE Audits(r)
  <2>1. Turned(r, "complete", calls[r].answer)
    BY <1>0, <1>7, <1>p DEF Audit, Succeed, Turned, RunRecords
  <2> QED
    BY <1>7, <2>1 DEF Audit, Audits
<1>8. ASSUME Reserve(r), UNCHANGED jobVars PROVE Aside(r)
  <2>1. NoneCompleted
    BY <1>0, <1>8 DEF Reserve, Record, NoneCompleted, KeyRecords
  <2>2. Turned(r, "inspect", calls[r].answer)
    BY <1>0, <1>8, <1>p DEF Reserve, Turned, RunRecords
  <2> QED
    BY <1>0, <1>8, <1>p, <2>1, <2>2 DEF Aside
<1>9. ASSUME Inspect(r), UNCHANGED jobVars PROVE Aside(r) \/ Repeats(r)
  <2>1. CASE Answer(r, "ok", Record(r).result) /\ Record(r).state = "completed"
    <3>1. Record(r).result \in Requests \cup {NoRequest}
      BY <1>0 DEF Record, KeyRecords
    <3>2. Turned(r, "done", "ok")
      BY <2>1, <3>1, <1>p, Answering
    <3> QED
      BY <1>9, <2>1, <3>2 DEF Inspect, Repeats, Record
  <2>2. CASE ~ (Answer(r, "ok", Record(r).result) /\ Record(r).state = "completed")
    <3>1. \/ Become(r, "act")
          \/ \E answer \in {"error", "conflict", "in_progress"} : Answer(r, answer, NoRequest)
      BY <1>9, <2>2 DEF Inspect
    <3> QED
      BY <1>9, <3>1, <1>p, GoingAside DEF Inspect
  <2> QED
    BY <2>1, <2>2
<1>10. ASSUME Complete(r), UNCHANGED jobVars PROVE Aside(r) \/ Completes(r)
  <2>1. CASE Owns(r)
    <3>1. calls[r].result \in Requests \cup {NoRequest}
      BY <1>0 DEF RunRecords
    <3>2. Turned(r, "done", "ok")
      BY <1>10, <2>1, <3>1, <1>p, Answering DEF Complete
    <3> QED
      BY <1>r, <1>10, <2>1, <3>2 DEF Complete, Completes
  <2>2. CASE ~ Owns(r)
    BY <1>10, <2>2, <1>p, GoingAside DEF Complete
  <2> QED
    BY <2>1, <2>2
<1>11. ASSUME Undo(r), UNCHANGED jobVars PROVE Aside(r)
  <2>1. NoneCompleted
    BY <1>0, <1>11, RunFacts DEF Undo, NoneCompleted, KeyRecords, NoRecord
  <2>2. Turned(r, "done", calls[r].answer)
    BY <1>0, <1>11, Answering DEF Undo
  <2> QED
    BY <1>0, <1>11, <2>1, <2>2 DEF Aside, RequestPcs, Started
<1>12. ASSUME DatabaseFails(r, InAction), UNCHANGED jobVars PROVE Aside(r) \/ Completes(r)
  <2>1. CASE At(r, "complete") /\ RecordResult(r) /\ Fail(r, "error")
    <3>1. Turned(r, "undo", "error")
      BY <2>1, <1>p, Failing
    <3> QED
      BY <1>r, <1>12, <2>1, <3>1 DEF Completes
  <2> QED
    BY <1>12, <1>p, <2>1, GoingAside DEF DatabaseFails
<1>13. ASSUME ProcessDies(r), UNCHANGED jobVars PROVE Aside(r)
  BY <1>13, <1>p, GoingAside DEF ProcessDies
<1> QED
  BY <1>1, <1>2, <1>3, <1>4, <1>5, <1>6, <1>7, <1>8, <1>9, <1>10, <1>11, <1>12, <1>13
     DEF Request, RequestFault, Execute, RunKind

-----------------------------------------------------------------------------
(* The worker, and the invariant.                                          *)

\* The job j changes, and what its worker owes.
JobTurns(j, state, owed) ==
  /\ jobs' = [jobs EXCEPT ![j].state = state] /\ worker' = [worker EXCEPT ![j] = owed]
  /\ UNCHANGED <<calls, records, sent, asset, media>>
Works(j) ==
  \/ jobs[j].state = "queued" /\ JobTurns(j, "running", worker[j])
  \/ worker[j] = "finish" /\ JobTurns(j, "completed", "none")
  \/ jobs[j].state = "running" /\ worker[j] = "none" /\ JobTurns(j, "failed", "spoil")
  \/ /\ jobs[j].state = "running" /\ worker' = [worker EXCEPT ![j] = "finish"]
     /\ asset' = "processed" /\ UNCHANGED <<calls, records, jobs, sent, media>>
  \/ /\ worker' = [worker EXCEPT ![j] = "none"] /\ asset' = "failed"
     /\ UNCHANGED <<calls, records, jobs, sent, media>>
Deletes == asset' = "deleted" /\ media' = FALSE /\ UNCHANGED <<calls, records, jobs, sent, worker>>

LEMMA ReanalysisKinds ==
  ASSUME ReanalysisInv, [ReanalysisNext]_allVars
  PROVE  \/ UNCHANGED <<calls, records, jobVars>>
         \/ \E r \in Requests : RunKind(r)
         \/ \E j \in Analyses : Works(j)
         \/ Deletes
<1>0. worker \in [Analyses -> {"none", "finish", "spoil"}]
  BY RunFacts
<1>1. CASE UNCHANGED allVars
  BY <1>1 DEF allVars, idempotencyVars
<1>2. ASSUME NEW r \in Requests, Request(r) \/ RequestFault(r) PROVE RunKind(r)
  BY <1>2, RequestKinds
<1>3. ASSUME NEW j \in Analyses, Claim(j) PROVE Works(j)
  <2>1. worker' = [worker EXCEPT ![j] = worker[j]]
    BY <1>0, <1>3 DEF Claim
  <2> QED
    BY <1>3, <2>1 DEF Claim, Works, JobTurns, idempotencyVars
<1>4. ASSUME NEW j \in Analyses, Analyze(j) PROVE Works(j)
  BY <1>4 DEF Analyze, Works, idempotencyVars
<1>5. ASSUME NEW j \in Analyses, Finish(j) PROVE Works(j)
  BY <1>5 DEF Finish, Works, JobTurns, idempotencyVars
<1>6. ASSUME NEW j \in Analyses, AnalysisFails(j) PROVE Works(j)
  BY <1>6 DEF AnalysisFails, Works, JobTurns, idempotencyVars
<1>7. ASSUME NEW j \in Analyses, SpoilAsset(j) PROVE Works(j)
  BY <1>7 DEF SpoilAsset, Works, idempotencyVars
<1>8. ASSUME DeleteClip PROVE Deletes
  BY <1>8 DEF DeleteClip, Deletes, idempotencyVars
<1> QED
  BY <1>1, <1>2, <1>3, <1>4, <1>5, <1>6, <1>7, <1>8 DEF ReanalysisNext

(* A job that was queued stays, and so does a message.                     *)
LEMMA NothingUnsent ==
  ASSUME ReanalysisInv, [ReanalysisNext]_allVars
  PROVE  sent \subseteq sent' /\ \A k \in Analyses : Has(k) => Has(k)'
<1>0. /\ jobs \in [Analyses -> [state: {NoJob} \cup Active \cup Final, made: Nat]]
      /\ worker \in [Analyses -> {"none", "finish", "spoil"}]
      /\ \A r \in Requests : KeyOf[r] \in Analyses
  BY RunFacts
<1>1. CASE UNCHANGED <<calls, records, jobVars>>
  BY <1>1 DEF jobVars, Has
<1>2. ASSUME NEW r \in Requests, RunKind(r)
      PROVE  sent \subseteq sent' /\ \A k \in Analyses : Has(k) => Has(k)'
  <2>1. CASE Adds(r)
    BY <1>0, <2>1 DEF Adds, Has, NoJob
  <2>2. CASE jobs' = jobs /\ (sent' = sent \/ sent' = sent \cup {KeyOf[r]})
    BY <2>2 DEF Has
  <2> QED
    BY <1>2, <2>1, <2>2 DEF RunKind, Aside, Finds, Touches, Publishes, Audits, Repeats,
       Completes, jobVars
<1>3. ASSUME NEW j \in Analyses, Works(j)
      PROVE  sent \subseteq sent' /\ \A k \in Analyses : Has(k) => Has(k)'
  BY <1>0, <1>3 DEF Works, JobTurns, Has, NoJob
<1>4. CASE Deletes
  BY <1>4 DEF Deletes, Has
<1> QED
  BY <1>1, <1>2, <1>3, <1>4, ReanalysisKinds

LEMMA RunsStep ==
  ASSUME ReanalysisInv, [ReanalysisNext]_allVars
  PROVE  RunsInv'
<1>0. /\ calls \in [Requests -> RunRecords] /\ records \in [Keys -> KeyRecords]
      /\ \A r \in Requests : KeyOf[r] \in Keys
      /\ Keys \subseteq Analyses
  BY RunFacts
<1>1. sent \subseteq sent' /\ \A k \in Analyses : Has(k) => Has(k)'
  BY NothingUnsent
<1>2. \A k \in Keys : Sent(k) => Sent(k)'
  BY <1>0, <1>1 DEF Sent
<1>3. /\ \A r \in Requests :
           /\ calls[r].pc \in Started => Has(KeyOf[r])
           /\ calls[r].pc \in {"audit", "complete"} \/ calls[r].answer = "ok" => Sent(KeyOf[r])
      /\ \A k \in Keys : records[k].state = "completed" => Sent(k)
  BY DEF ReanalysisInv, RunsInv
<1>4. CASE UNCHANGED <<calls, records>>
  BY <1>0, <1>1, <1>2, <1>3, <1>4 DEF RunsInv
<1>5. ASSUME NEW r \in Requests, RunKind(r) PROVE RunsInv'
  <2> DEFINE k == KeyOf[r]
  <2>1. /\ calls' \in [Requests -> RunRecords]
        /\ \A s \in Requests \ {r} : calls'[s] = calls[s]
    BY <1>5 DEF RunKind, Aside, Finds, Adds, Touches, Publishes, Audits, Repeats, Completes, Turned
  <2>2. records' \in [Keys -> KeyRecords]
    BY <1>0, <1>5 DEF RunKind, Aside, NoneCompleted, Finds, Adds, Touches, Publishes, Audits,
       Repeats, Completes
  <2>3. calls'[r].pc \in Started => Has(k)'
    <3>1. CASE Adds(r)
      BY <1>0, <3>1, RunFacts DEF Adds, Has, NoJob
    <3>2. CASE calls'[r].pc \notin Started
      BY <3>2
    <3>3. CASE Has(k)
      BY <1>0, <1>1, <3>3
    <3> QED
      BY <1>3, <1>5, <3>1, <3>2, <3>3 DEF RunKind, Aside, Finds, Touches, Publishes, Audits,
         Repeats, Completes, Turned, Started, At
  <2>4. calls'[r].pc \in {"audit", "complete"} \/ calls'[r].answer = "ok" => Sent(k)'
    <3>1. CASE Publishes(r)
      <4>1. Has(k) /\ k \in sent'
        BY <1>3, <3>1 DEF Publishes, At, Started
      <4> QED
        BY <1>0, <1>1, <4>1 DEF Sent
    <3>2. CASE Sent(k)
      BY <1>0, <1>2, <3>2
    <3>3. CASE ~ (calls'[r].pc \in {"audit", "complete"} \/ calls'[r].answer = "ok")
      BY <3>3
    <3> QED
      BY <1>0, <1>3, <1>5, <3>1, <3>2, <3>3 DEF RunKind, Aside, Finds, Adds, Touches, Audits,
         Repeats, Completes, Turned, Started, At
  <2>5. \A l \in Keys : records'[l].state = "completed" => Sent(l)
    BY <1>0, <1>3, <1>5 DEF RunKind, Aside, NoneCompleted, Finds, Adds, Touches, Publishes,
       Audits, Repeats, Completes, At
  <2> HIDE DEF k
  <2>6. ASSUME NEW s \in Requests
        PROVE  /\ calls'[s].pc \in Started => Has(KeyOf[s])'
               /\ calls'[s].pc \in {"audit", "complete"} \/ calls'[s].answer = "ok"
                    => Sent(KeyOf[s])'
    BY <1>0, <1>1, <1>2, <1>3, <2>1, <2>3, <2>4, <2>6 DEF k
  <2> QED
    BY <1>2, <2>1, <2>2, <2>5, <2>6 DEF RunsInv
<1> QED
  BY <1>4, <1>5, ReanalysisKinds DEF Works, JobTurns, Deletes

LEMMA JobsStep ==
  ASSUME ReanalysisInv, [ReanalysisNext]_allVars
  PROVE  JobsInv'
<1>0. /\ jobs \in [Analyses -> [state: {NoJob} \cup Active \cup Final, made: Nat]]
      /\ worker \in [Analyses -> {"none", "finish", "spoil"}]
      /\ \A r \in Requests : KeyOf[r] \in Analyses
      /\ IsFiniteSet({j \in Analyses : Has(j)}) /\ sent \subseteq Analyses
      /\ \A i, j \in ActiveJobs : i = j
      /\ \A j \in Analyses : worker[j] = "finish" => jobs[j].state = "running"
      /\ asset \in {"failed", "processing", "processed", "deleted"} /\ media \in BOOLEAN
  BY RunFacts DEF ReanalysisInv, JobsInv, ReanalysisTypeOK
<1>1. CASE UNCHANGED <<jobs, worker>> /\ sent' \subseteq Analyses
           /\ asset' \in {"failed", "processing", "processed", "deleted"} /\ media' \in BOOLEAN
  BY <1>0, <1>1 DEF JobsInv, ReanalysisTypeOK, ActiveJobs, Has
<1>2. ASSUME NEW r \in Requests, Adds(r) PROVE JobsInv'
  <2> DEFINE k == KeyOf[r]
  <2>1. Made \in Nat
    BY <1>0, FS_CardinalityType DEF Made, Has
  <2>2. jobs' \in [Analyses -> [state: {NoJob} \cup Active \cup Final, made: Nat]]
    BY <1>0, <1>2, <2>1 DEF Adds, Active
  <2>3. {j \in Analyses : Has(j)}' = {j \in Analyses : Has(j)} \cup {k}
    BY <1>0, <1>2 DEF Adds, Has, NoJob
  <2>4. IsFiniteSet({j \in Analyses : Has(j)} \cup {k})
    BY <1>0, FS_AddElement
  <2>5. \A i \in Analyses : i \in ActiveJobs' => i = k
    BY <1>0, <1>2 DEF Adds, ActiveJobs
  <2>6. \A j \in Analyses : worker'[j] = "finish" => jobs'[j].state = "running"
    BY <1>0, <1>2 DEF Adds, ActiveJobs, Active
  <2> QED
    BY <1>0, <1>2, <2>2, <2>3, <2>4, <2>5, <2>6 DEF Adds, JobsInv, ReanalysisTypeOK, ActiveJobs
<1>3. ASSUME NEW j \in Analyses, Works(j) PROVE JobsInv'
  <2>1. jobs' \in [Analyses -> [state: {NoJob} \cup Active \cup Final, made: Nat]]
        /\ worker' \in [Analyses -> {"none", "finish", "spoil"}]
    BY <1>0, <1>3 DEF Works, JobTurns, Active, Final
  <2>2. \A i \in Analyses : Has(i)' <=> jobs[i].state # NoJob
    BY <1>0, <1>3 DEF Works, JobTurns, Has, NoJob
  <2>3. {i \in Analyses : Has(i)}' = {i \in Analyses : Has(i)}
    BY <2>2 DEF Has
  <2>4. ActiveJobs' \subseteq ActiveJobs
    BY <1>0, <1>3 DEF Works, JobTurns, ActiveJobs, Active
  <2>5. \A i \in Analyses : worker'[i] = "finish" => jobs'[i].state = "running"
    BY <1>0, <1>3 DEF Works, JobTurns
  <2>6. asset' \in {"failed", "processing", "processed", "deleted"} /\ media' = media
        /\ sent' = sent
    BY <1>0, <1>3 DEF Works, JobTurns
  <2> QED
    BY <1>0, <2>1, <2>3, <2>4, <2>5, <2>6 DEF JobsInv, ReanalysisTypeOK
<1>4. CASE Deletes
  BY <1>0, <1>1, <1>4 DEF Deletes
<1>5. ASSUME NEW r \in Requests, RunKind(r), ~ Adds(r) PROVE JobsInv'
  BY <1>0, <1>1, <1>5 DEF RunKind, Aside, Finds, Touches, Publishes, Audits, Repeats,
     Completes, jobVars
<1> QED
  BY <1>0, <1>1, <1>2, <1>3, <1>4, <1>5, ReanalysisKinds DEF jobVars

(* However many requests, analyses and failures there are, at most one     *)
(* analysis of the clip is active, and a request that was answered has its *)
(* job and its message.                                                    *)
THEOREM ReanalysisInvariant == ReanalysisSpec => []ReanalysisInv
<1>1. ReanalysisInit => ReanalysisInv
  <2> SUFFICES ASSUME ReanalysisInit PROVE ReanalysisInv
    OBVIOUS
  <2>0. Chain \in Analyses /\ NoRequest \notin Requests /\ \A r \in Requests : KeyOf[r] \in Keys
    BY IdempotencyAssumption DEF Analyses, Keys
  <2>1. ReanalysisTypeOK
    BY <2>0 DEF ReanalysisInit, ReanalysisTypeOK, Final, Active
  <2>2. \A j \in Analyses : Has(j) => j = Chain
    BY DEF ReanalysisInit, Has
  <2>3. IsFiniteSet({j \in Analyses : Has(j)})
    <3>1. IsFiniteSet({Chain}) /\ {j \in Analyses : Has(j)} \subseteq {Chain}
      BY <2>2, FS_Singleton
    <3> QED
      BY <3>1, FS_Subset
  <2>4. ActiveJobs = {} /\ \A j \in Analyses : worker[j] = "none"
    BY DEF ReanalysisInit, ActiveJobs, Active, NoJob
  <2>5. JobsInv
    BY <2>1, <2>3, <2>4 DEF JobsInv
  <2>6. RunsInv
    BY <2>0 DEF ReanalysisInit, IdempotencyInit, RunsInv, NewCall, NoRecord, RunRecords,
       KeyRecords, RunAnswers, RequestPcs, Started
  <2> QED
    BY <2>5, <2>6 DEF ReanalysisInv
<1>2. ReanalysisInv /\ [ReanalysisNext]_allVars => ReanalysisInv'
  BY JobsStep, RunsStep DEF ReanalysisInv
<1> QED
  BY <1>1, <1>2, PTL DEF ReanalysisSpec

(* Every row, message and asset of any number of requests is one the       *)
(* tables and the queue admit.                                             *)
THEOREM ReanalysisTypeCorrect == ReanalysisSpec => []ReanalysisTypeOK
<1>1. ReanalysisInv => ReanalysisTypeOK
  BY DEF ReanalysisInv, JobsInv
<1> QED
  BY <1>1, ReanalysisInvariant, PTL

(* One clip never has two active analyses, and only the active one is      *)
(* executed, for any number of requests that see none.                     *)
THEOREM OneActiveAnalysisAlways == ReanalysisSpec => []OneActiveAnalysis
<1>1. ReanalysisInv => OneActiveAnalysis
  BY DEF ReanalysisInv, JobsInv, OneActiveAnalysis, ActiveJobs, Active
<1> QED
  BY <1>1, ReanalysisInvariant, PTL

(* Whoever is told that the analysis is under way has a job and a message, *)
(* wherever another request with the same key broke off.                   *)
THEOREM AnsweredReanalysisAlwaysRuns == ReanalysisSpec => []AnsweredReanalysisRuns
<1>1. ReanalysisInv => AnsweredReanalysisRuns
  BY DEF ReanalysisInv, RunsInv, Sent, Has, AnsweredReanalysisRuns
<1> QED
  BY <1>1, ReanalysisInvariant, PTL

(* A re-analysis is an action executed under the reservation.              *)
LEMMA ReanalysisReserves ==
  ASSUME ReanalysisInv, [ReanalysisNext]_allVars
  PROVE  [ReservationStep]_<<records, calls>>
<1>0. Conducted
  BY RunFacts DEF Conducted, Conducts, Shape, Rows, RunRecords, KeyRecords
<1>1. ASSUME NEW r \in Requests, Start(r) PROVE ReservationStep
  BY <1>0, <1>1, BecomeEnters DEF Start, ReservationStep
<1>2. ASSUME NEW r \in Requests,
             \/ CheckTarget(r) \/ CheckRelated(r) \/ Enqueue(r)
             \/ Touch(r) \/ Publish(r) \/ Audit(r)
      PROVE  ReservationStep
  <2>1. Executing(r) /\ ~ At(r, "complete") /\ UNCHANGED records
    BY <1>2 DEF CheckTarget, CheckRelated, Enqueue, Touch, Publish, Audit, Executing, At
  <2>2. \/ \E pc : pc \notin Outside /\ Become(r, pc)
        \/ \E a : a # "ok" /\ Fail(r, a)
        \/ Succeed(r, r)
    BY <1>2 DEF CheckTarget, CheckRelated, Enqueue, Touch, Publish, Audit, Outside
  <2> QED
    BY <1>0, <2>1, <2>2, BecomeWorks, FailWorks, SucceedWorks DEF ReservationStep
<1>3. ASSUME NEW r \in Requests, Execute(r) PROVE ReservationStep
  BY <1>3 DEF ReservationStep
<1>4. ASSUME NEW r \in Requests, RequestFault(r) PROVE ReservationStep
  <2>1. InAction \cap Outside = {}
    BY DEF InAction, Outside
  <2> QED
    BY <1>0, <1>4, <2>1, FailsAtWork, BecomeDies DEF RequestFault, ProcessDies, ReservationStep
<1>5. ASSUME NEW j \in Analyses,
             Claim(j) \/ Analyze(j) \/ Finish(j) \/ AnalysisFails(j) \/ SpoilAsset(j)
      PROVE  UNCHANGED <<records, calls>>
  BY <1>5 DEF Claim, Analyze, Finish, AnalysisFails, SpoilAsset, idempotencyVars
<1>6. CASE DeleteClip \/ UNCHANGED allVars
  BY <1>6 DEF DeleteClip, allVars, idempotencyVars
<1> QED
  BY <1>1, <1>2, <1>3, <1>4, <1>5, <1>6 DEF ReanalysisNext, Request

(* The re-analysis uses its key as every mutation does, so what is proved  *)
(* of the reservation and any action holds of it: one run per key, and one *)
(* result for all who are told of success.                                 *)
THEOREM ReanalysisUsesReservation == ReanalysisSpec => ReservationSpec
<1>1. ReanalysisInit => IdempotencyInit
  BY DEF ReanalysisInit
<1>2. ReanalysisInv /\ [ReanalysisNext]_allVars => [ReservationStep]_<<records, calls>>
  BY ReanalysisReserves
<1> QED
  BY <1>1, <1>2, ReanalysisInvariant, PTL DEF ReanalysisSpec, ReservationSpec

(* A key of a re-analysis runs it once at a time and stands for one        *)
(* result, whatever fails.                                                 *)
THEOREM ReanalysisKeepsKeys == ReanalysisSpec => [](OneRunPerKey /\ RepeatsAgree)
  BY ReanalysisUsesReservation, OneRunOfAnyAction, RepeatsOfAnyAction, PTL

-----------------------------------------------------------------------------
(* What is stored of a clip.                                               *)

RowRecords == [status: Kept \cup {"absent", "deleted"}, until: Nat]
RemoteRecords == [copy: BOOLEAN, mapped: BOOLEAN, gone: BOOLEAN, stray: BOOLEAN]
UploadRecords ==
  [pc: {"new", "refused", "store", "put", "undo", "enqueue", "done", "failed", "dead"},
   clip: Clips, at: 0..MaxTime]
WorkRecords ==
  [pc: {"idle", "send", "map", "read", "write"},
   status: {"absent", "failed", "processing", "processed"}, read: RowRecords]
SweepPcs == {"idle", "next", "remote", "mark", "media", "read", "write", "finish"}
SweepRecords ==
  [pc: SweepPcs, due: SUBSET Clips, clip: Clips, mapping: RemoteRecords, read: RowRecords]

AssetTypes ==
  /\ AssetTypeOK
  /\ work \in [Clips -> WorkRecords]
  /\ sweep \in SweepRecords
  /\ left \in [sweeps: 0..MaxSweeps, trouble: 0..MaxFaults]
  /\ now \in 0..MaxTime

\* The steps of the deletion of one clip.
Deleting == SweepPcs \ {"idle", "next"}

RemoteInv(c) ==
  /\ remote[c].copy => remote[c].mapped
  /\ remote[c].gone => remote[c].mapped /\ ~ remote[c].copy
  /\ work[c].pc \in {"send", "map"} => ~ remote[c].mapped
  /\ work[c].pc \in {"read", "write"} => work[c].status # "absent"
  /\ sweep.clip = c /\ sweep.pc \in Deleting => c \in sweep.due /\ deletion[c] = "running"
  /\ sweep.clip = c /\ sweep.pc = "remote" /\ sweep.mapping.mapped => remote[c].mapped
  /\ sweep.clip = c /\ sweep.pc = "mark" => remote[c].mapped /\ ~ remote[c].copy

Putting(c) == \E u \in Uploads : upload[u].clip = c /\ upload[u].pc = "put"

\* The stored object somebody counts on who works on the clip.
Counted(c) ==
  \/ Putting(c) \/ work[c].pc \in {"send", "map"}
  \/ work[c].pc \in {"read", "write"} /\ work[c].status # "failed"

\* A clip nobody works on while a sweep has listed it.
ClipInv(c) ==
  /\ ~ Together(c)
  /\ row[c].status = "deleted" =>
       \/ ~ remote[c].copy /\ ~ stored[c] /\ work[c].pc \notin {"send", "map"}
       \/ BrokenOff(c) \/ Putting(c)
  /\ row[c].status \in Usable /\ c \notin undone =>
       stored[c] \/ deletion[c] \in {"running", "broken"}
  /\ Counted(c) /\ c \notin undone => stored[c]
  /\ sweep.clip = c =>
       /\ sweep.pc = "remote" => sweep.mapping = remote[c]
       /\ sweep.pc \in {"media", "read", "write", "finish"} => ~ remote[c].copy
       /\ sweep.pc \in {"read", "write", "finish"} => ~ stored[c]
       /\ sweep.pc = "finish" => row[c].status = "deleted"

AssetInv ==
  /\ AssetTypes
  /\ \A c \in Clips : RemoteInv(c)
  /\ \A c \in Clips \ met : ClipInv(c)

-----------------------------------------------------------------------------
(* The shape of what is stored, action by action.                          *)

LEMMA AssetFacts ==
  ASSUME AssetTypes
  PROVE  /\ row \in [Clips -> RowRecords] /\ stored \in [Clips -> BOOLEAN]
         /\ remote \in [Clips -> RemoteRecords] /\ upload \in [Uploads -> UploadRecords]
         /\ chain \in [Clips -> {"none", "upload", "analyze", "over"}]
         /\ deletion \in [Clips -> {"none", "running", "broken", "completed"}]
         /\ work \in [Clips -> WorkRecords] /\ sweep \in SweepRecords
         /\ met \subseteq Clips /\ undone \subseteq Clips /\ excess \in Nat
         /\ left \in [sweeps: 0..MaxSweeps, trouble: 0..MaxFaults] /\ now \in 0..MaxTime
  BY DEF AssetTypes, AssetTypeOK, RowRecords, RemoteRecords, UploadRecords

LEMMA AssetTypesFrom ==
  ASSUME row' \in [Clips -> RowRecords] /\ stored' \in [Clips -> BOOLEAN],
         remote' \in [Clips -> RemoteRecords] /\ upload' \in [Uploads -> UploadRecords],
         chain' \in [Clips -> {"none", "upload", "analyze", "over"}],
         deletion' \in [Clips -> {"none", "running", "broken", "completed"}],
         work' \in [Clips -> WorkRecords] /\ sweep' \in SweepRecords,
         met' \subseteq Clips /\ undone' \subseteq Clips, excess' \in Nat,
         left' \in [sweeps: 0..MaxSweeps, trouble: 0..MaxFaults] /\ now' \in 0..MaxTime
  PROVE  AssetTypes'
<1>1. sweep'.due \subseteq Clips
  BY DEF SweepRecords
<1> QED
  BY <1>1 DEF AssetTypes, AssetTypeOK, RowRecords, RemoteRecords, UploadRecords

LEMMA Faults ==
  ASSUME AssetTypes, Fault
  PROVE  left' \in [sweeps: 0..MaxSweeps, trouble: 0..MaxFaults]
<1>1. left \in [sweeps: 0..MaxSweeps, trouble: 0..MaxFaults] /\ MaxFaults \in Nat
  BY AssetFacts, AssetAssumption
<1>2. left.trouble - 1 \in 0..MaxFaults
  BY <1>1 DEF Fault
<1> QED
  BY <1>1, <1>2 DEF Fault

LEMMA Meets ==
  ASSUME AssetTypes, Meet
  PROVE  /\ met' \subseteq Clips
         /\ \A c \in Clips \ met' : c \notin met /\ ~ Together(c)'
  BY AssetFacts DEF Meet

-----------------------------------------------------------------------------
(* What a step does to the clips and to the one who takes it.              *)

Others(u) == /\ upload' \in [Uploads -> UploadRecords]
             /\ \A v \in Uploads \ {u} : upload'[v] = upload[v]
Upward(u, pc) == Others(u) /\ upload'[u] = [upload[u] EXCEPT !.pc = pc]
Broken == {"undo", "failed", "dead"}

\* A step of an upload that leaves its clip alone, after which no put of it is under way.
Recedes(u) ==
  /\ Others(u) /\ UNCHANGED <<row, stored, remote, deletion, work, sweep, undone>>
  /\ \/ upload[u].pc = "new" /\ upload'[u].pc \in {"refused", "store"}
     \/ upload[u].pc \in {"store", "put", "undo"} /\ upload'[u].pc \in Broken
     \/ upload[u].pc = "enqueue" /\ upload'[u].pc \in {"done", "dead"}
  /\ upload[u].pc # "new" => upload'[u].clip = upload[u].clip
Stores(u) ==
  /\ upload[u].pc = "store" /\ (Upward(u, "put") \/ Upward(u, "failed"))
  /\ stored' = [stored EXCEPT ![upload[u].clip] = TRUE]
  /\ UNCHANGED <<row, remote, deletion, work, sweep, undone>>
Puts(u) ==
  /\ upload[u].pc = "put" /\ (Upward(u, "enqueue") \/ Upward(u, "undo"))
  /\ \E until \in Nat :
       row' = [row EXCEPT ![upload[u].clip] = [status |-> "ready", until |-> until]]
  /\ UNCHANGED <<stored, remote, deletion, work, sweep, undone>>
TakesAway(u) ==
  /\ upload[u].pc = "undo" /\ Upward(u, "failed")
  /\ stored' = [stored EXCEPT ![upload[u].clip] = FALSE]
  /\ undone' = undone \cup {upload[u].clip}
  /\ UNCHANGED <<row, remote, deletion, work, sweep>>

Working(c, pc, status) == work' = [work EXCEPT ![c].pc = pc, ![c].status = status]
Marks(c, status) ==
  /\ work[c].pc = "idle" /\ Working(c, "read", status)
  /\ status = "processed" => stored[c]
  /\ UNCHANGED <<row, stored, remote, deletion, upload, sweep, undone>>
Skips == UNCHANGED <<row, stored, remote, deletion, upload, work, sweep, undone>>
Readies(c) ==
  /\ work[c].pc = "idle" /\ work' = [work EXCEPT ![c].pc = "send"]
  /\ stored[c] /\ ~ remote[c].mapped
  /\ UNCHANGED <<row, stored, remote, deletion, upload, sweep, undone>>
Sends(c) ==
  /\ work[c].pc = "send" /\ work' = [work EXCEPT ![c].pc = "map"]
  /\ UNCHANGED <<row, stored, remote, deletion, upload, sweep, undone>>
Strays(c) ==
  /\ remote' \in {remote, [remote EXCEPT ![c].stray = TRUE]}
  /\ UNCHANGED <<row, stored, deletion, upload, sweep, undone>>
\* The worker fails or dies, and its operation is over or tried again.
Drops(c) == work[c].pc # "idle" /\ work' = [work EXCEPT ![c] = NoWork] /\ Strays(c)
FailsToSend(c) == work[c].pc = "send" /\ Working(c, "read", "failed") /\ Strays(c)
Maps(c) ==
  /\ work[c].pc = "map" /\ Working(c, "read", "processing")
  /\ remote' = [remote EXCEPT ![c].copy = TRUE, ![c].mapped = TRUE]
  /\ UNCHANGED <<row, stored, deletion, upload, sweep, undone>>
Reads(c) ==
  /\ work[c].pc = "read" /\ work' = [work EXCEPT ![c].pc = "write", ![c].read = row[c]]
  /\ UNCHANGED <<row, stored, remote, deletion, upload, sweep, undone>>
Writes(c) ==
  /\ work[c].pc = "write" /\ work' = [work EXCEPT ![c] = NoWork]
  /\ row' = [row EXCEPT ![c] = [work[c].read EXCEPT !.status = work[c].status]]
  /\ UNCHANGED <<stored, remote, deletion, upload, sweep, undone>>

Sweeping == UNCHANGED <<upload, work, undone>>
Lists ==
  /\ sweep.pc = "idle" /\ sweep'.pc = "next"
  /\ Sweeping /\ UNCHANGED <<row, stored, remote, deletion>>
\* The sweep leaves the clip it is at, or ends: nobody is deleted meanwhile.
Retires ==
  /\ sweep'.pc \in {"idle", "next"} /\ sweep'.due \subseteq sweep.due
  /\ Sweeping /\ UNCHANGED <<row, stored, remote>>
  /\ \/ deletion' = deletion
     \/ sweep.pc = "finish" /\ deletion' = [deletion EXCEPT ![sweep.clip] = "completed"]
\* The deletion fails, with something deleted or not.
Breaks ==
  /\ sweep.pc \in Deleting /\ sweep'.pc = "next" /\ sweep'.due \subseteq sweep.due
  /\ remote' \in {remote, [remote EXCEPT ![sweep.clip].copy = FALSE]}
  /\ stored' \in {stored, [stored EXCEPT ![sweep.clip] = FALSE]}
  /\ deletion' = [deletion EXCEPT ![sweep.clip] = "broken"]
  /\ Sweeping /\ UNCHANGED row
Begins(c) ==
  /\ sweep.pc = "next" /\ c \in sweep.due
  /\ sweep' = [sweep EXCEPT !.pc = "remote", !.clip = c, !.mapping = remote[c]]
  /\ deletion' = [deletion EXCEPT ![c] = "running"]
  /\ Sweeping /\ UNCHANGED <<row, stored, remote>>
Onward(pc) == sweep' = [sweep EXCEPT !.pc = pc]
Withdraws ==
  /\ sweep.pc = "remote"
  /\ IF sweep.mapping.mapped /\ ~ sweep.mapping.gone
     THEN remote' = [remote EXCEPT ![sweep.clip].copy = FALSE] /\ Onward("mark")
     ELSE UNCHANGED remote /\ Onward("media")
  /\ Sweeping /\ UNCHANGED <<row, stored, deletion>>
Notes ==
  /\ sweep.pc = "mark" /\ Onward("media")
  /\ remote' = [remote EXCEPT ![sweep.clip].gone = TRUE]
  /\ Sweeping /\ UNCHANGED <<row, stored, deletion>>
Erases ==
  /\ sweep.pc = "media" /\ Onward("read")
  /\ stored' = [stored EXCEPT ![sweep.clip] = FALSE]
  /\ Sweeping /\ UNCHANGED <<row, remote, deletion>>
ReadsAgain ==
  /\ sweep.pc = "read" /\ sweep' = [sweep EXCEPT !.pc = "write", !.read = row[sweep.clip]]
  /\ Sweeping /\ UNCHANGED <<row, stored, remote, deletion>>
Buries ==
  /\ sweep.pc = "write" /\ Onward("finish")
  /\ row' = [row EXCEPT ![sweep.clip] = [sweep.read EXCEPT !.status = "deleted"]]
  /\ Sweeping /\ UNCHANGED <<stored, remote, deletion>>

UploadKind(u) == Recedes(u) \/ Stores(u) \/ Puts(u) \/ TakesAway(u)
WorkKind(c) ==
  \/ Marks(c, "failed") \/ Marks(c, "processed") \/ Readies(c) \/ Sends(c) \/ Drops(c)
  \/ FailsToSend(c) \/ Maps(c) \/ Reads(c) \/ Writes(c)
SweepKind ==
  \/ Lists \/ Retires \/ Breaks \/ (\E c \in Clips : Begins(c)) \/ Withdraws \/ Notes
  \/ Erases \/ ReadsAgain \/ Buries

LEMMA UploadSteps ==
  ASSUME AssetTypes, NEW u \in Uploads,
         \/ \E c \in Clips : Measure(u, c)
         \/ StoreMedia(u) \/ PutAsset(u) \/ UndoMedia(u) \/ EnqueueChain(u) \/ UploadDies(u)
  PROVE  AssetTypes' /\ UploadKind(u)
<1> USE AssetFacts
<1>u. ASSUME NEW pc \in {"put", "undo", "enqueue", "done", "failed", "dead"}, Goto(u, pc)
      PROVE  Upward(u, pc)
  BY <1>u DEF Goto, Upward, Others, UploadRecords
<1>m. ASSUME Meet PROVE met' \subseteq Clips
  BY <1>m, Meets
<1>1. ASSUME NEW c \in Clips, Measure(u, c) PROVE AssetTypes' /\ UploadKind(u)
  <2>1. PICK pc \in {"refused", "store"} :
          upload' = [upload EXCEPT ![u] = [pc |-> pc, clip |-> c, at |-> now]]
    BY <1>1 DEF Measure, Decide
  <2>2. [pc |-> pc, clip |-> c, at |-> now] \in UploadRecords
    BY DEF UploadRecords
  <2>3. Others(u) /\ upload'[u].pc \in {"refused", "store"}
    BY <2>1, <2>2 DEF Others
  <2>4. excess' \in Nat
    BY <1>1, AssetAssumption DEF Measure, Decide
  <2>5. AssetTypes'
    BY <1>1, <1>m, <2>3, <2>4, AssetTypesFrom DEF Measure, Others
  <2> QED
    BY <1>1, <2>3, <2>5 DEF Measure, UploadKind, Recedes
<1>2. ASSUME StoreMedia(u) PROVE AssetTypes' /\ UploadKind(u)
  <2>1. upload[u].clip \in Clips
    BY DEF UploadRecords
  <2>2. /\ (Upward(u, "put") /\ stored'[upload[u].clip]) \/ Upward(u, "failed")
        /\ left' \in [sweeps: 0..MaxSweeps, trouble: 0..MaxFaults]
    BY <1>2, <1>u, Faults DEF StoreMedia
  <2>3. stored' = [stored EXCEPT ![upload[u].clip] = TRUE] \/ stored' = stored
    BY <1>2 DEF StoreMedia
  <2>4. stored' \in [Clips -> BOOLEAN]
    BY <2>1, <2>3
  <2>5. AssetTypes'
    BY <1>2, <1>m, <2>2, <2>4, AssetTypesFrom DEF StoreMedia, Upward, Others
  <2>6. CASE stored' = [stored EXCEPT ![upload[u].clip] = TRUE]
    BY <1>2, <2>2, <2>5, <2>6 DEF StoreMedia, UploadKind, Stores
  <2>7. CASE stored' = stored /\ stored[upload[u].clip]
    <3>1. stored' = [stored EXCEPT ![upload[u].clip] = TRUE]
      BY <2>1, <2>7
    <3> QED
      BY <2>6, <3>1
  <2>8. CASE stored' = stored /\ ~ stored[upload[u].clip]
    <3>1. Upward(u, "failed")
      BY <2>2, <2>8
    <3>2. Recedes(u)
      BY <1>2, <2>8, <3>1 DEF StoreMedia, Recedes, Upward, UploadRecords, Broken
    <3> QED
      BY <2>5, <3>2 DEF UploadKind
  <2> QED
    BY <2>3, <2>6, <2>7, <2>8
<1>3. ASSUME PutAsset(u) PROVE AssetTypes' /\ UploadKind(u)
  <2> DEFINE new == [status |-> "ready", until |-> upload[u].at + Retention]
  <2>1. upload[u].clip \in Clips /\ upload[u].at + Retention \in Nat
    BY AssetAssumption DEF UploadRecords
  <2>2. /\ \/ row' = [row EXCEPT ![upload[u].clip] = new]
           \/ row' = row /\ Goto(u, "undo")
        /\ Goto(u, "enqueue") \/ Goto(u, "undo")
        /\ left' = left \/ Fault
    BY <1>3 DEF PutAsset
  <2>3. new \in RowRecords
    BY <2>1 DEF RowRecords, Kept, Usable
  <2>4. row' \in [Clips -> RowRecords]
    BY <2>1, <2>2, <2>3
  <2>5. Upward(u, "enqueue") \/ Upward(u, "undo")
    BY <1>u, <2>2
  <2>6. AssetTypes'
    BY <1>3, <1>m, <2>2, <2>4, <2>5, Faults, AssetTypesFrom DEF PutAsset, Upward, Others
  <2>7. CASE row' = [row EXCEPT ![upload[u].clip] = new]
    BY <1>3, <2>1, <2>5, <2>6, <2>7 DEF PutAsset, UploadKind, Puts
  <2>8. CASE row' = row /\ Goto(u, "undo")
    <3>1. Upward(u, "undo")
      BY <1>u, <2>8
    <3>2. Recedes(u)
      BY <1>3, <2>8, <3>1 DEF PutAsset, Recedes, Upward, UploadRecords, Broken
    <3> QED
      BY <2>6, <3>2 DEF UploadKind
  <2> QED
    BY <2>2, <2>7, <2>8
<1>4. ASSUME UndoMedia(u) PROVE AssetTypes' /\ UploadKind(u)
  <2>1. upload[u].clip \in Clips /\ Upward(u, "failed")
    BY <1>4, <1>u DEF UndoMedia, UploadRecords
  <2>2. CASE Fault /\ UNCHANGED <<stored, undone>>
    <3>2. Recedes(u)
      BY <1>4, <2>1, <2>2 DEF UndoMedia, Recedes, Upward, UploadRecords, Broken
    <3> QED
      BY <1>4, <1>m, <2>1, <2>2, <3>2, Faults, AssetTypesFrom
         DEF UndoMedia, Upward, Others, UploadKind
  <2>3. CASE /\ stored' = [stored EXCEPT ![upload[u].clip] = FALSE]
             /\ undone' = undone \cup {upload[u].clip} /\ UNCHANGED left
    <3>1. stored' \in [Clips -> BOOLEAN] /\ undone' \subseteq Clips
      BY <2>1, <2>3
    <3> QED
      BY <1>4, <1>m, <2>1, <2>3, <3>1, AssetTypesFrom
         DEF UndoMedia, Upward, Others, UploadKind, TakesAway
  <2> QED
    BY <1>4, <2>2, <2>3 DEF UndoMedia
<1>5. ASSUME EnqueueChain(u) PROVE AssetTypes' /\ UploadKind(u)
  <2>1. upload[u].clip \in Clips /\ Upward(u, "done")
    BY <1>5, <1>u DEF EnqueueChain, UploadRecords
  <2>2. chain' \in [Clips -> {"none", "upload", "analyze", "over"}]
    BY <1>5, <2>1 DEF EnqueueChain
  <2>3. Recedes(u)
    BY <1>5, <2>1 DEF EnqueueChain, Recedes, Upward, UploadRecords
  <2> QED
    BY <1>5, <1>m, <2>1, <2>2, <2>3, AssetTypesFrom DEF EnqueueChain, Upward, Others, UploadKind
<1>6. ASSUME UploadDies(u) PROVE AssetTypes' /\ UploadKind(u)
  <2>1. Upward(u, "dead")
    BY <1>6, <1>u DEF UploadDies
  <2>2. Recedes(u)
    BY <1>6, <2>1 DEF UploadDies, Recedes, Upward, UploadRecords, Broken
  <2> QED
    BY <1>6, <1>m, <2>1, <2>2, Faults, AssetTypesFrom DEF UploadDies, Upward, Others, UploadKind
<1> QED
  BY <1>1, <1>2, <1>3, <1>4, <1>5, <1>6

LEMMA Copies ==
  ASSUME NEW mapping \in RemoteRecords
  PROVE  /\ [mapping EXCEPT !.copy = TRUE, !.mapped = TRUE] \in RemoteRecords
         /\ [mapping EXCEPT !.copy = FALSE] \in RemoteRecords
         /\ \A b \in BOOLEAN : [mapping EXCEPT !.stray = b] \in RemoteRecords
  BY DEF RemoteRecords

LEMMA Marked ==
  ASSUME AssetTypes, NEW c \in Clips, NEW status \in {"failed", "processing", "processed"},
         Mark(c, status)
  PROVE  work' \in [Clips -> WorkRecords] /\ Working(c, "read", status)
<1>1. work \in [Clips -> WorkRecords]
  BY AssetFacts
<1>2. [work[c] EXCEPT !.pc = "read", !.status = status] \in WorkRecords
  <2>1. work[c] \in WorkRecords
    BY <1>1
  <2> QED
    BY <2>1 DEF WorkRecords
<1>3. work' = [work EXCEPT ![c] = [work[c] EXCEPT !.pc = "read", !.status = status]]
  BY DEF Mark
<1>4. work' \in [Clips -> WorkRecords]
  BY <1>1, <1>2, <1>3
<1>5. Working(c, "read", status)
  BY DEF Mark, Working
<1> QED
  BY <1>4, <1>5

LEMMA WorkSteps ==
  ASSUME AssetTypes, NEW c \in Clips,
         \/ FetchClip(c) \/ SendClip(c) \/ MapClip(c) \/ AnalyzeClip(c) \/ ReadRow(c)
         \/ WriteRow(c) \/ WorkerDies(c)
  PROVE  AssetTypes' /\ (Skips \/ WorkKind(c))
<1> USE AssetFacts
<1>w. ASSUME NEW status \in {"failed", "processing", "processed"}, Mark(c, status)
      PROVE  work' \in [Clips -> WorkRecords] /\ Working(c, "read", status)
  BY <1>w, Marked
<1>m. ASSUME Meet PROVE met' \subseteq Clips
  BY <1>m, Meets
<1>n. NoWork \in WorkRecords
  BY DEF NoWork, Absent, WorkRecords, RowRecords
<1>r. ASSUME NEW b \in BOOLEAN, remote' = [remote EXCEPT ![c].stray = b]
      PROVE  /\ remote' \in [Clips -> RemoteRecords]
             /\ remote' \in {remote, [remote EXCEPT ![c].stray = TRUE]} \/ ~ b
             /\ b = remote[c].stray => remote' = remote
  <2>1. remote \in [Clips -> RemoteRecords] /\ remote[c] \in RemoteRecords
    OBVIOUS
  <2>2. remote' = [remote EXCEPT ![c] = [remote[c] EXCEPT !.stray = b]]
    BY <1>r
  <2>3. remote' \in [Clips -> RemoteRecords]
    BY <2>1, <2>2, Copies
  <2>4. ASSUME b = remote[c].stray PROVE remote' = remote
    <3>1. [remote[c] EXCEPT !.stray = b] = remote[c]
      BY <2>1, <2>4 DEF RemoteRecords
    <3> QED
      BY <2>1, <2>2, <3>1
  <2> QED
    BY <1>r, <2>3, <2>4
<1>1. ASSUME FetchClip(c) PROVE AssetTypes' /\ (Skips \/ WorkKind(c))
  <2>1. CASE remote[c].mapped
    <3>1. chain' \in [Clips -> {"none", "upload", "analyze", "over"}] /\ work' = work
      BY <1>1, <2>1 DEF FetchClip
    <3> QED
      BY <1>1, <1>m, <3>1, AssetTypesFrom DEF FetchClip, Skips
  <2>2. CASE ~ remote[c].mapped /\ stored[c]
    <3>1. work' = [work EXCEPT ![c].pc = "send"] /\ chain' = chain
      BY <1>1, <2>2 DEF FetchClip
    <3>2. work' \in [Clips -> WorkRecords]
      BY <3>1 DEF WorkRecords
    <3> QED
      BY <1>1, <1>m, <2>2, <3>1, <3>2, AssetTypesFrom DEF FetchClip, Readies, WorkKind
  <2>3. CASE ~ remote[c].mapped /\ ~ stored[c]
    <3>1. chain' \in [Clips -> {"none", "upload", "analyze", "over"}] /\ Mark(c, "failed")
      BY <1>1, <2>3 DEF FetchClip
    <3> QED
      BY <1>1, <1>m, <1>w, <3>1, AssetTypesFrom DEF FetchClip, Marks, WorkKind
  <2> QED
    BY <2>1, <2>2, <2>3
<1>2. ASSUME SendClip(c) PROVE AssetTypes' /\ (Skips \/ WorkKind(c))
  <2>1. CASE work' = [work EXCEPT ![c].pc = "map"] /\ UNCHANGED <<remote, chain, left>>
    <3>1. work' \in [Clips -> WorkRecords]
      BY <2>1 DEF WorkRecords
    <3> QED
      BY <1>2, <1>m, <2>1, <3>1, AssetTypesFrom DEF SendClip, Sends, WorkKind
  <2>2. CASE /\ remote' \in {remote, [remote EXCEPT ![c].stray = TRUE]} /\ Fault
             /\ \/ work' = [work EXCEPT ![c] = NoWork] /\ UNCHANGED chain
                \/ chain' = [chain EXCEPT ![c] = "over"] /\ Mark(c, "failed")
    <3>1. remote' \in [Clips -> RemoteRecords] /\ Strays(c)
      BY <1>2, <1>r, <2>2 DEF SendClip, Strays
    <3>2. chain' \in [Clips -> {"none", "upload", "analyze", "over"}]
      BY <2>2
    <3>3. /\ work' \in [Clips -> WorkRecords]
          /\ work' = [work EXCEPT ![c] = NoWork] \/ Working(c, "read", "failed")
      BY <1>n, <1>w, <2>2
    <3>4. Drops(c) \/ FailsToSend(c)
      BY <1>2, <3>1, <3>3 DEF SendClip, Drops, FailsToSend
    <3> QED
      BY <1>2, <1>m, <2>2, <3>1, <3>2, <3>3, <3>4, Faults, AssetTypesFrom DEF SendClip, WorkKind
  <2> QED
    BY <1>2, <2>1, <2>2 DEF SendClip
<1>6. ASSUME MapClip(c) PROVE AssetTypes' /\ (Skips \/ WorkKind(c))
  <2>1. remote' \in [Clips -> RemoteRecords]
    <3>1. remote \in [Clips -> RemoteRecords] /\ remote[c] \in RemoteRecords
      OBVIOUS
    <3>2. remote' = [remote EXCEPT ![c] = [remote[c] EXCEPT !.copy = TRUE, !.mapped = TRUE]]
      BY <1>6 DEF MapClip
    <3> QED
      BY <3>1, <3>2, Copies
  <2>2. chain' \in [Clips -> {"none", "upload", "analyze", "over"}]
    BY <1>6 DEF MapClip
  <2> QED
    BY <1>6, <1>m, <1>w, <2>1, <2>2, AssetTypesFrom DEF MapClip, Maps, WorkKind
<1>7. ASSUME WorkerDies(c) PROVE AssetTypes' /\ (Skips \/ WorkKind(c))
  <2> DEFINE b == remote[c].stray \/ work[c].pc = "map"
  <2>1. b \in BOOLEAN /\ remote' = [remote EXCEPT ![c].stray = b]
    <3>1. remote[c] \in RemoteRecords
      OBVIOUS
    <3> QED
      BY <1>7, <3>1 DEF WorkerDies, RemoteRecords
  <2>2. remote' \in [Clips -> RemoteRecords] /\ Strays(c)
    <3>1. ~ b => b = remote[c].stray
      <4>1. remote[c] \in RemoteRecords
        OBVIOUS
      <4> QED
        BY <4>1 DEF RemoteRecords
    <3> HIDE DEF b
    <3> QED
      BY <1>7, <1>r, <2>1, <3>1 DEF WorkerDies, Strays
  <2>3. work' \in [Clips -> WorkRecords] /\ chain' \in [Clips -> {"none", "upload", "analyze", "over"}]
    BY <1>7, <1>n DEF WorkerDies
  <2>4. Drops(c)
    BY <1>7, <2>2 DEF WorkerDies, Drops
  <2> QED
    BY <1>7, <1>m, <2>2, <2>3, <2>4, Faults, AssetTypesFrom DEF WorkerDies, WorkKind
<1>3. ASSUME AnalyzeClip(c) PROVE AssetTypes' /\ (Skips \/ WorkKind(c))
  <2>1. /\ chain' \in [Clips -> {"none", "upload", "analyze", "over"}]
        /\ left' \in [sweeps: 0..MaxSweeps, trouble: 0..MaxFaults]
    BY <1>3, Faults DEF AnalyzeClip
  <2>2. Mark(c, "failed") \/ (Mark(c, "processed") /\ stored[c])
    BY <1>3 DEF AnalyzeClip
  <2> QED
    BY <1>3, <1>m, <1>w, <2>1, <2>2, AssetTypesFrom DEF AnalyzeClip, Marks, WorkKind
<1>4. ASSUME ReadRow(c) PROVE AssetTypes' /\ (Skips \/ WorkKind(c))
  <2>1. work' \in [Clips -> WorkRecords]
    BY <1>4 DEF ReadRow, WorkRecords
  <2> QED
    BY <1>4, <1>m, <2>1, AssetTypesFrom DEF ReadRow, Reads, WorkKind
<1>5. ASSUME WriteRow(c) PROVE AssetTypes' /\ (Skips \/ WorkKind(c))
  <2>1. work' \in [Clips -> WorkRecords]
    BY <1>5, <1>n DEF WriteRow
  <2>5. SizeOf[c] \in Nat /\ excess \in Nat
    BY AssetAssumption
  <2>2. work' \in [Clips -> WorkRecords] /\ excess' \in Nat
    BY <1>5, <2>1, <2>5 DEF WriteRow
  <2>3. [work[c].read EXCEPT !.status = work[c].status] \in RowRecords
    BY DEF WorkRecords, RowRecords, Kept, Usable
  <2>4. row' \in [Clips -> RowRecords]
    BY <1>5, <2>3 DEF WriteRow
  <2> QED
    BY <1>5, <1>m, <2>2, <2>4, AssetTypesFrom DEF WriteRow, Writes, WorkKind
<1> QED
  BY <1>1, <1>2, <1>3, <1>4, <1>5, <1>6, <1>7

LEMMA SweepsLeft ==
  ASSUME AssetTypes, left.sweeps > 0
  PROVE  [left EXCEPT !.sweeps = @ - 1] \in [sweeps: 0..MaxSweeps, trouble: 0..MaxFaults]
<1>1. left \in [sweeps: 0..MaxSweeps, trouble: 0..MaxFaults] /\ MaxSweeps \in Nat
  BY AssetFacts, AssetAssumption
<1> QED
  BY <1>1

LEMMA SweepSteps ==
  ASSUME AssetTypes,
         \/ \E c \in Clips : BeginDeletion(c)
         \/ ListExpired \/ DeleteRemote \/ MarkRemoteDeleted \/ DeleteMedia \/ ReadDeleted
         \/ WriteDeleted \/ FinishDeletion \/ DeletionFails \/ SweepDies \/ SweepEnds
  PROVE  AssetTypes' /\ SweepKind
<1> USE AssetFacts
<1>m. ASSUME Meet PROVE met' \subseteq Clips
  BY <1>m, Meets
<1>n. NoSweep \in SweepRecords /\ NoSweep.pc = "idle" /\ NoSweep.due = {}
  <2>1. AnyClip \in Clips
    BY AssetAssumption DEF AnyClip
  <2> QED
    BY <2>1 DEF NoSweep, SweepRecords, SweepPcs, Unmapped, RemoteRecords, Absent, RowRecords
<1>s. ASSUME NEW pc \in SweepPcs, Step(pc) PROVE sweep' \in SweepRecords /\ Onward(pc)
  BY <1>s DEF Step, Onward, SweepRecords
<1>c. sweep.clip \in Clips /\ sweep.due \subseteq Clips
  BY DEF SweepRecords
<1>l. ASSUME Leave PROVE sweep' \in SweepRecords /\ sweep'.pc = "next" /\ sweep'.due \subseteq sweep.due
  BY <1>l, <1>c, <1>n DEF Leave, SweepRecords, SweepPcs
<1>1. ASSUME ListExpired PROVE AssetTypes' /\ SweepKind
  <2>1. PICK due \in SUBSET Clips : sweep' = [NoSweep EXCEPT !.pc = "next", !.due = due]
    BY <1>1 DEF ListExpired
  <2>2. sweep' \in SweepRecords /\ sweep'.pc = "next"
    BY <1>n, <2>1 DEF SweepRecords, SweepPcs
  <2>3. left' \in [sweeps: 0..MaxSweeps, trouble: 0..MaxFaults]
    BY <1>1, SweepsLeft DEF ListExpired
  <2> QED
    BY <1>1, <1>m, <2>2, <2>3, AssetTypesFrom DEF ListExpired, Lists, Sweeping, SweepKind
<1>2. ASSUME NEW c \in Clips, BeginDeletion(c) PROVE AssetTypes' /\ SweepKind
  <2>1. CASE deletion[c] = "completed"
    <3>1. sweep' = [sweep EXCEPT !.due = @ \ {c}] /\ deletion' = deletion
      BY <1>2, <2>1 DEF BeginDeletion
    <3>2. sweep' \in SweepRecords /\ sweep'.pc = "next" /\ sweep'.due \subseteq sweep.due
      BY <1>2, <1>c, <3>1 DEF BeginDeletion, SweepRecords
    <3> QED
      BY <1>2, <1>m, <3>1, <3>2, AssetTypesFrom DEF BeginDeletion, Retires, Sweeping, SweepKind
  <2>2. CASE deletion[c] # "completed"
    <3>1. deletion' = [deletion EXCEPT ![c] = "running"]
          /\ sweep' = [sweep EXCEPT !.pc = "remote", !.clip = c, !.mapping = remote[c]]
      BY <1>2, <2>2 DEF BeginDeletion
    <3>2. deletion' \in [Clips -> {"none", "running", "broken", "completed"}]
      BY <3>1
    <3>3. sweep' \in SweepRecords
      BY <3>1 DEF SweepRecords, SweepPcs
    <3> QED
      BY <1>2, <1>m, <3>1, <3>2, <3>3, AssetTypesFrom DEF BeginDeletion, Begins, Sweeping, SweepKind
  <2> QED
    BY <2>1, <2>2
<1>3. ASSUME DeleteRemote PROVE AssetTypes' /\ SweepKind
  <2>1. \/ Step("mark") /\ remote' = [remote EXCEPT ![sweep.clip].copy = FALSE]
        \/ Step("media") /\ remote' = remote
    BY <1>3 DEF DeleteRemote
  <2>2. sweep' \in SweepRecords
    BY <1>s, <2>1 DEF SweepPcs
  <2>3. remote' \in [Clips -> RemoteRecords]
    <3>1. remote \in [Clips -> RemoteRecords]
      OBVIOUS
    <3>2. [remote[sweep.clip] EXCEPT !.copy = FALSE] \in RemoteRecords
      <4>1. remote[sweep.clip] \in RemoteRecords
        BY <1>c, <3>1
      <4> QED
        BY <4>1, Copies
    <3>3. \/ remote' = remote
          \/ remote' = [remote EXCEPT ![sweep.clip] = [remote[sweep.clip] EXCEPT !.copy = FALSE]]
      BY <2>1
    <3> QED
      BY <1>c, <3>1, <3>2, <3>3
  <2> QED
    BY <1>3, <1>m, <2>2, <2>3, AssetTypesFrom
       DEF DeleteRemote, Withdraws, Sweeping, SweepKind, Step, Onward
<1>4. ASSUME MarkRemoteDeleted PROVE AssetTypes' /\ SweepKind
  <2>1. sweep' \in SweepRecords
    BY <1>4, <1>s DEF MarkRemoteDeleted, SweepPcs
  <2>2. remote' \in [Clips -> RemoteRecords]
    BY <1>4, <1>c DEF MarkRemoteDeleted, RemoteRecords
  <2> QED
    BY <1>4, <1>m, <2>1, <2>2, AssetTypesFrom
       DEF MarkRemoteDeleted, Notes, Sweeping, SweepKind, Step, Onward
<1>5. ASSUME DeleteMedia PROVE AssetTypes' /\ SweepKind
  <2>1. sweep' \in SweepRecords
    BY <1>5, <1>s DEF DeleteMedia, SweepPcs
  <2>2. stored' \in [Clips -> BOOLEAN]
    BY <1>5, <1>c DEF DeleteMedia
  <2> QED
    BY <1>5, <1>m, <2>1, <2>2, AssetTypesFrom
       DEF DeleteMedia, Erases, Sweeping, SweepKind, Step, Onward
<1>6. ASSUME ReadDeleted PROVE AssetTypes' /\ SweepKind
  <2>1. sweep' \in SweepRecords
    BY <1>6, <1>c DEF ReadDeleted, SweepRecords, SweepPcs
  <2> QED
    BY <1>6, <1>m, <2>1, AssetTypesFrom DEF ReadDeleted, ReadsAgain, Sweeping, SweepKind
<1>7. ASSUME WriteDeleted PROVE AssetTypes' /\ SweepKind
  <2>1. sweep' \in SweepRecords
    BY <1>7, <1>s DEF WriteDeleted, SweepPcs
  <2>2. [sweep.read EXCEPT !.status = "deleted"] \in RowRecords
    BY DEF SweepRecords, RowRecords
  <2>3. row' \in [Clips -> RowRecords]
    BY <1>7, <1>c, <2>2 DEF WriteDeleted
  <2> QED
    BY <1>7, <1>m, <2>1, <2>3, AssetTypesFrom
       DEF WriteDeleted, Buries, Sweeping, SweepKind, Step, Onward
<1>8. ASSUME FinishDeletion PROVE AssetTypes' /\ SweepKind
  <2>1. deletion' \in [Clips -> {"none", "running", "broken", "completed"}]
    BY <1>8, <1>c DEF FinishDeletion
  <2> QED
    BY <1>8, <1>m, <1>l, <2>1, AssetTypesFrom DEF FinishDeletion, Retires, Sweeping, SweepKind
<1>9. ASSUME DeletionFails PROVE AssetTypes' /\ SweepKind
  <2>1. /\ deletion' \in [Clips -> {"none", "running", "broken", "completed"}]
        /\ sweep.pc \in Deleting
        /\ remote' \in {remote, [remote EXCEPT ![sweep.clip].copy = FALSE]}
        /\ stored' \in {stored, [stored EXCEPT ![sweep.clip] = FALSE]}
    BY <1>9, <1>c DEF DeletionFails, Deleting, SweepPcs
  <2>2. remote' \in [Clips -> RemoteRecords]
    <3>1. remote \in [Clips -> RemoteRecords] /\ remote[sweep.clip] \in RemoteRecords
      BY <1>c
    <3>2. \/ remote' = remote
          \/ remote' = [remote EXCEPT ![sweep.clip] = [remote[sweep.clip] EXCEPT !.copy = FALSE]]
      BY <2>1
    <3> QED
      BY <1>c, <3>1, <3>2, Copies
  <2>3. stored' \in [Clips -> BOOLEAN]
    BY <1>c, <2>1
  <2> QED
    BY <1>9, <1>m, <1>l, <2>1, <2>2, <2>3, Faults, AssetTypesFrom
       DEF DeletionFails, Breaks, Sweeping, SweepKind
<1>10. ASSUME SweepDies PROVE AssetTypes' /\ SweepKind
  BY <1>10, <1>m, <1>n, Faults, AssetTypesFrom DEF SweepDies, Retires, Sweeping, SweepKind
<1>11. ASSUME SweepEnds PROVE AssetTypes' /\ SweepKind
  BY <1>11, <1>m, <1>n, AssetTypesFrom DEF SweepEnds, Retires, Sweeping, SweepKind
<1> QED
  BY <1>1, <1>2, <1>3, <1>4, <1>5, <1>6, <1>7, <1>8, <1>9, <1>10, <1>11

LEMMA AssetKinds ==
  ASSUME AssetTypes, [AssetNext]_assetVars
  PROVE  /\ AssetTypes'
         /\ \/ Skips \/ SweepKind
            \/ \E u \in Uploads : UploadKind(u)
            \/ \E c \in Clips : WorkKind(c)
         /\ \A c \in Clips \ met' : c \notin met /\ (~ Together(c) => ~ Together(c)')
<1>0. AssetTypes
  OBVIOUS
<1>1. CASE UNCHANGED assetVars
  BY <1>1, AssetFacts DEF assetVars, Skips, AssetTypes, AssetTypeOK, Together, Uploading
<1>2. CASE Tick
  <2>1. now' \in 0..MaxTime
    BY <1>2, AssetFacts, AssetAssumption DEF Tick
  <2>2. Skips /\ met' \subseteq Clips
    BY <1>2, Meets DEF Tick, Skips
  <2>3. AssetTypes'
    BY <1>2, <2>1, <2>2, AssetFacts, AssetTypesFrom DEF Tick
  <2> QED
    BY <1>2, <2>2, <2>3, Meets DEF Tick
<1>3. ASSUME NEW u \in Uploads,
             \/ \E c \in Clips : Measure(u, c)
             \/ StoreMedia(u) \/ PutAsset(u) \/ UndoMedia(u) \/ EnqueueChain(u) \/ UploadDies(u)
      PROVE  AssetTypes' /\ UploadKind(u) /\ Meet
  <2>1. Meet
    BY <1>3 DEF Measure, StoreMedia, PutAsset, UndoMedia, EnqueueChain, UploadDies
  <2> QED
    BY <1>3, <2>1, UploadSteps
<1>4. ASSUME NEW c \in Clips,
             \/ FetchClip(c) \/ SendClip(c) \/ MapClip(c) \/ AnalyzeClip(c) \/ ReadRow(c)
             \/ WriteRow(c) \/ WorkerDies(c)
      PROVE  AssetTypes' /\ (Skips \/ WorkKind(c)) /\ Meet
  <2>1. Meet
    BY <1>4 DEF FetchClip, SendClip, MapClip, AnalyzeClip, ReadRow, WriteRow, WorkerDies
  <2> QED
    BY <1>4, <2>1, WorkSteps
<1>5. ASSUME \/ \E c \in Clips : BeginDeletion(c)
             \/ ListExpired \/ DeleteRemote \/ MarkRemoteDeleted \/ DeleteMedia \/ ReadDeleted
             \/ WriteDeleted \/ FinishDeletion \/ DeletionFails \/ SweepDies \/ SweepEnds
      PROVE  AssetTypes' /\ SweepKind /\ Meet
  <2>1. Meet
    BY <1>5 DEF BeginDeletion, ListExpired, DeleteRemote, MarkRemoteDeleted, DeleteMedia,
       ReadDeleted, WriteDeleted, FinishDeletion, DeletionFails, SweepDies, SweepEnds
  <2> QED
    BY <1>5, <2>1, SweepSteps
<1> QED
  BY <1>1, <1>2, <1>3, <1>4, <1>5, Meets DEF AssetNext

-----------------------------------------------------------------------------
(* The invariant, clip by clip.                                            *)

(* What the provider holds of a clip, and where its worker and the sweep   *)
(* are: this is so whatever they do at the same time.                      *)
LEMMA RemoteStep ==
  ASSUME AssetTypes, [AssetNext]_assetVars, NEW c \in Clips, RemoteInv(c)
  PROVE  RemoteInv(c)'
<1>0. /\ remote \in [Clips -> RemoteRecords] /\ work \in [Clips -> WorkRecords]
      /\ sweep \in SweepRecords /\ sweep.clip \in Clips
      /\ deletion \in [Clips -> {"none", "running", "broken", "completed"}]
  BY AssetFacts DEF SweepRecords
<1>1. CASE UNCHANGED <<remote, deletion, work, sweep>>
  BY <1>1 DEF RemoteInv
<1>2. ASSUME NEW d \in Clips, WorkKind(d) PROVE RemoteInv(c)'
  <2>1. CASE c # d
    BY <1>0, <1>2, <2>1 DEF WorkKind, Marks, Readies, Sends, Drops, FailsToSend, Strays, Maps, Reads,
       Writes, Working, RemoteInv
  <2>2. CASE c = d /\ (Marks(c, "failed") \/ Marks(c, "processed"))
    BY <1>0, <2>2 DEF Marks, Working, RemoteInv, WorkRecords
  <2>3. CASE c = d /\ Readies(c)
    BY <1>0, <2>3 DEF Readies, RemoteInv, WorkRecords
  <2>4. CASE c = d /\ Sends(c)
    BY <1>0, <2>4 DEF Sends, RemoteInv, WorkRecords
  <2>7. CASE c = d /\ Maps(c)
    BY <1>0, <2>7 DEF Maps, Working, RemoteInv, WorkRecords, RemoteRecords
  <2>8. CASE c = d /\ (Drops(c) \/ FailsToSend(c))
    <3>1. /\ remote'[c].copy = remote[c].copy /\ remote'[c].mapped = remote[c].mapped
          /\ remote'[c].gone = remote[c].gone
      BY <1>0, <2>8 DEF Drops, FailsToSend, Strays, RemoteRecords
    <3>2. /\ work'[c].pc \in {"idle", "read"}
          /\ work'[c].pc = "read" => work'[c].status = "failed"
      BY <1>0, <2>8 DEF Drops, FailsToSend, Working, NoWork, WorkRecords
    <3>3. deletion' = deletion /\ sweep' = sweep
      BY <2>8 DEF Drops, FailsToSend, Strays
    <3> QED
      BY <3>1, <3>2, <3>3 DEF RemoteInv
  <2>5. CASE c = d /\ Reads(c)
    BY <1>0, <2>5 DEF Reads, RemoteInv, WorkRecords
  <2>6. CASE c = d /\ Writes(c)
    BY <1>0, <2>6 DEF Writes, NoWork, RemoteInv
  <2> QED
    BY <1>2, <2>1, <2>2, <2>3, <2>4, <2>5, <2>6, <2>7, <2>8 DEF WorkKind
<1>3. CASE SweepKind
  <2>1. CASE Lists \/ Retires
    BY <2>1 DEF Lists, Retires, Sweeping, RemoteInv, Deleting
  <2>7. CASE Breaks
    <3>1. /\ remote'[c].mapped = remote[c].mapped /\ remote'[c].gone = remote[c].gone
          /\ remote'[c].copy => remote[c].copy
      BY <1>0, <2>7 DEF Breaks, RemoteRecords
    <3>2. work' = work /\ sweep'.pc = "next"
      BY <2>7 DEF Breaks, Sweeping
    <3> QED
      BY <3>1, <3>2 DEF RemoteInv, Deleting
  <2>2. ASSUME NEW d \in Clips, Begins(d) PROVE RemoteInv(c)'
    BY <1>0, <2>2 DEF Begins, Sweeping, RemoteInv, SweepRecords
  <2>3. CASE Withdraws
    <3>0. /\ work' = work /\ deletion' = deletion /\ sweep.pc = "remote"
          /\ sweep'.clip = sweep.clip /\ sweep'.due = sweep.due
      BY <1>0, <2>3 DEF Withdraws, Onward, Sweeping, SweepRecords
    <3>1. sweep.clip = c => c \in sweep.due /\ deletion[c] = "running"
      BY <3>0 DEF RemoteInv, Deleting, SweepPcs
    <3>2. CASE remote' = remote /\ sweep'.pc = "media"
      BY <3>0, <3>1, <3>2 DEF RemoteInv
    <3>3. CASE /\ remote' = [remote EXCEPT ![sweep.clip].copy = FALSE]
               /\ sweep.mapping.mapped /\ sweep'.pc = "mark"
      <4>1. /\ remote'[c].mapped = remote[c].mapped /\ remote'[c].gone = remote[c].gone
            /\ remote'[c].copy => remote[c].copy
            /\ sweep.clip = c => ~ remote'[c].copy
        BY <1>0, <3>3 DEF RemoteRecords
      <4> QED
        BY <3>0, <3>1, <3>3, <4>1 DEF RemoteInv
    <3> QED
      BY <1>0, <2>3, <3>2, <3>3 DEF Withdraws, Onward, SweepRecords
  <2>4. CASE Notes
    BY <1>0, <2>4 DEF Notes, Onward, Sweeping, RemoteInv, Deleting, SweepPcs, SweepRecords,
       RemoteRecords
  <2>5. CASE Erases \/ Buries
    BY <1>0, <2>5 DEF Erases, Buries, Onward, Sweeping, RemoteInv, Deleting, SweepPcs, SweepRecords
  <2>6. CASE ReadsAgain
    BY <1>0, <2>6 DEF ReadsAgain, Sweeping, RemoteInv, Deleting, SweepPcs, SweepRecords
  <2> QED
    BY <1>3, <2>1, <2>2, <2>3, <2>4, <2>5, <2>6, <2>7 DEF SweepKind
<1> QED
  BY <1>1, <1>2, <1>3, AssetKinds DEF Skips, UploadKind, Recedes, Stores, Puts, TakesAway

(* What becomes of the uploads of a clip: one that broke off stays so, one *)
(* with the object in the store puts the row or breaks off.                *)
LEMMA UploadsOf ==
  ASSUME AssetTypes, NEW c \in Clips, NEW u \in Uploads, UploadKind(u)
  PROVE  /\ BrokenOff(c) => BrokenOff(c)'
         /\ Putting(c)' => Putting(c) \/ (Stores(u) /\ upload[u].clip = c)
         /\ Putting(c) => Putting(c)' \/ BrokenOff(c)' \/ (Puts(u) /\ upload[u].clip = c)
<1>0. upload \in [Uploads -> UploadRecords] /\ upload' \in [Uploads -> UploadRecords]
  BY AssetFacts DEF UploadKind, Recedes, Stores, Puts, TakesAway, Upward, Others
<1>1. \A v \in Uploads \ {u} : upload'[v] = upload[v]
  BY DEF UploadKind, Recedes, Stores, Puts, TakesAway, Upward, Others
<1>2. upload[u].pc # "new" => upload'[u].clip = upload[u].clip
  BY <1>0 DEF UploadKind, Recedes, Stores, Puts, TakesAway, Upward, UploadRecords
<1>3. upload[u].pc \in Broken => upload'[u].pc \in Broken
  BY <1>0 DEF UploadKind, Recedes, Stores, Puts, TakesAway, Upward, Broken, UploadRecords
<1>4. upload'[u].pc = "put" => Stores(u)
  BY <1>0 DEF UploadKind, Recedes, Puts, TakesAway, Upward, Broken, UploadRecords
<1>5. upload[u].pc = "put" => upload'[u].pc \in Broken \/ Puts(u)
  BY <1>0 DEF UploadKind, Recedes, Stores, TakesAway, Broken
<1>6. \A v \in Uploads : upload[v].pc \in Broken => upload'[v].pc \in Broken
                                                    /\ upload'[v].clip = upload[v].clip
  BY <1>1, <1>2, <1>3 DEF Broken
<1>7. BrokenOff(c) <=> \E v \in Uploads : upload[v].clip = c /\ upload[v].pc \in Broken
  BY DEF BrokenOff, Broken
<1>8. BrokenOff(c)' <=> \E v \in Uploads : upload'[v].clip = c /\ upload'[v].pc \in Broken
  BY DEF BrokenOff, Broken
<1>9. Putting(c)' => Putting(c) \/ (Stores(u) /\ upload[u].clip = c)
  BY <1>1, <1>2, <1>4 DEF Putting, Stores
<1>10. Putting(c) => Putting(c)' \/ BrokenOff(c)' \/ (Puts(u) /\ upload[u].clip = c)
  <2> SUFFICES ASSUME NEW v \in Uploads, upload[v].clip = c, upload[v].pc = "put"
               PROVE  Putting(c)' \/ BrokenOff(c)' \/ (Puts(u) /\ upload[u].clip = c)
    BY DEF Putting
  <2>1. CASE v # u
    BY <1>1, <2>1 DEF Putting
  <2>2. CASE v = u
    BY <1>2, <1>5, <1>8, <2>2
  <2> QED
    BY <2>1, <2>2
<1> QED
  BY <1>6, <1>7, <1>8, <1>9, <1>10

\* What held, before the step, of a clip that is not met after it.
LEMMA Apart ==
  ASSUME AssetInv, [AssetNext]_assetVars, NEW c \in Clips \ met'
  PROVE  c \in Clips \ met /\ ClipInv(c) /\ ~ Together(c) /\ ~ Together(c)' /\ RemoteInv(c)
  BY AssetKinds DEF AssetInv, ClipInv

LEMMA ClipUpload ==
  ASSUME AssetInv, [AssetNext]_assetVars, NEW c \in Clips \ met', NEW u \in Uploads, UploadKind(u)
  PROVE  ClipInv(c)'
<1>0. /\ AssetTypes /\ c \in Clips /\ ClipInv(c) /\ RemoteInv(c)
      /\ ~ Together(c) /\ ~ Together(c)'
      /\ row \in [Clips -> RowRecords] /\ stored \in [Clips -> BOOLEAN]
      /\ upload \in [Uploads -> UploadRecords] /\ upload[u].clip \in Clips
  BY Apart, AssetFacts DEF AssetInv, UploadRecords
<1>1. /\ BrokenOff(c) => BrokenOff(c)'
      /\ Putting(c)' => Putting(c) \/ (Stores(u) /\ upload[u].clip = c)
      /\ Putting(c) => Putting(c)' \/ BrokenOff(c)' \/ (Puts(u) /\ upload[u].clip = c)
  BY <1>0, UploadsOf
<1>2. UNCHANGED <<remote, deletion, work, sweep>>
  BY DEF UploadKind, Recedes, Stores, Puts, TakesAway
<1>3. CASE row'[c] = row[c] /\ stored'[c] = stored[c] /\ (c \in undone' <=> c \in undone)
           /\ ~ (Stores(u) /\ upload[u].clip = c) /\ ~ (Puts(u) /\ upload[u].clip = c)
  BY <1>0, <1>1, <1>2, <1>3 DEF ClipInv, Counted
<1>4. CASE Stores(u) /\ upload[u].clip = c
  <2>1. (Putting(c)' \/ BrokenOff(c)') /\ stored'[c] /\ row' = row /\ undone' = undone
    BY <1>0, <1>4 DEF Stores, Upward, Putting, BrokenOff, UploadRecords
  <2>2. c \notin sweep.due
    BY <1>0, <1>4 DEF Stores, Uploading, Together
  <2>3. ~ (sweep.clip = c /\ sweep.pc \in Deleting)
    BY <1>0, <2>2 DEF RemoteInv
  <2> QED
    BY <1>0, <1>2, <2>1, <2>3 DEF ClipInv, Deleting, SweepPcs
<1>5. CASE Puts(u) /\ upload[u].clip = c
  <2>1. Putting(c) /\ u \in Uploading
    BY <1>5 DEF Puts, Putting, Uploading
  <2>2. row'[c].status = "ready" /\ stored' = stored /\ undone' = undone
    BY <1>0, <1>5 DEF Puts
  <2>3. c \notin undone => stored[c]
    BY <1>0, <2>1 DEF ClipInv, Counted
  <2>4. c \notin sweep.due
    BY <1>0, <1>5, <2>1 DEF Together
  <2>5. ~ (sweep.clip = c /\ sweep.pc \in Deleting)
    BY <1>0, <2>4 DEF RemoteInv
  <2> QED
    BY <1>0, <1>2, <2>2, <2>3, <2>5 DEF ClipInv, Deleting, SweepPcs
<1>6. CASE TakesAway(u) /\ upload[u].clip = c
  <2>1. c \in undone' /\ ~ stored'[c] /\ row' = row
    BY <1>0, <1>6 DEF TakesAway
  <2>2. BrokenOff(c)
    BY <1>6 DEF TakesAway, BrokenOff
  <2> QED
    BY <1>0, <1>1, <1>2, <2>1, <2>2 DEF ClipInv
<1>7. CASE Recedes(u) /\ ~ (Stores(u) /\ upload[u].clip = c) /\ ~ (Puts(u) /\ upload[u].clip = c)
  BY <1>3, <1>7 DEF Recedes
<1>8. CASE upload[u].clip # c
  BY <1>0, <1>3, <1>8 DEF UploadKind, Recedes, Stores, Puts, TakesAway
<1> QED
  BY <1>4, <1>5, <1>6, <1>7, <1>8 DEF UploadKind

LEMMA ClipWork ==
  ASSUME AssetInv, [AssetNext]_assetVars, NEW c \in Clips \ met', NEW d \in Clips, WorkKind(d)
  PROVE  ClipInv(c)'
<1>0. /\ AssetTypes /\ c \in Clips /\ ClipInv(c) /\ RemoteInv(c) /\ ~ Together(c) /\ ~ Together(c)'
      /\ row \in [Clips -> RowRecords] /\ stored \in [Clips -> BOOLEAN]
      /\ remote \in [Clips -> RemoteRecords] /\ work \in [Clips -> WorkRecords]
  BY Apart, AssetFacts DEF AssetInv
<1>1. UNCHANGED <<stored, deletion, upload, sweep, undone>>
  BY DEF WorkKind, Marks, Readies, Sends, Drops, FailsToSend, Strays, Maps, Reads, Writes
<1>2. (BrokenOff(c)' <=> BrokenOff(c)) /\ (Putting(c)' <=> Putting(c))
  BY <1>1 DEF BrokenOff, Putting
<1>3. CASE c # d
  <2>1. row'[c] = row[c] /\ remote'[c] = remote[c] /\ work'[c] = work[c]
    BY <1>0, <1>3 DEF WorkKind, Marks, Readies, Sends, Drops, FailsToSend, Strays, Maps, Reads, Writes,
       Working
  <2> QED
    BY <1>0, <1>1, <1>2, <2>1 DEF ClipInv, Counted
<1>4. ASSUME c = d PROVE c \notin sweep.due
  <2>1. work[c].pc # "idle" \/ work'[c].pc # "idle"
    BY <1>0, <1>4 DEF WorkKind, Marks, Readies, Sends, Drops, FailsToSend, Maps, Reads, Writes, Working,
       WorkRecords
  <2> QED
    BY <1>0, <1>1, <2>1 DEF Together
<1>5. ASSUME c = d PROVE ~ (sweep.clip = c /\ sweep.pc \in Deleting)
  BY <1>0, <1>4, <1>5 DEF RemoteInv
<1>6. ASSUME c = d
      PROVE  ~ (sweep'.clip = c /\ sweep'.pc \in {"remote", "media", "read", "write", "finish"})
  BY <1>1, <1>5, <1>6 DEF Deleting, SweepPcs
<1>7. CASE c = d /\ (Marks(c, "failed") \/ Marks(c, "processed"))
  <2>1. /\ row' = row /\ remote' = remote /\ work'[c].pc = "read"
        /\ work'[c].status = "failed" \/ (stored[c] /\ work'[c].status = "processed")
    BY <1>0, <1>7 DEF Marks, Working, WorkRecords
  <2> QED
    BY <1>0, <1>1, <1>2, <1>6, <1>7, <2>1 DEF ClipInv, Counted
<1>8. CASE c = d /\ Readies(c)
  <2>1. row' = row /\ remote' = remote /\ work'[c].pc = "send" /\ stored[c]
    BY <1>0, <1>8 DEF Readies, WorkRecords
  <2> QED
    BY <1>0, <1>1, <1>2, <1>6, <1>8, <2>1 DEF ClipInv
<1>9. CASE c = d /\ Sends(c)
  <2>1. row' = row /\ remote' = remote /\ work[c].pc = "send" /\ work'[c].pc = "map"
    BY <1>0, <1>9 DEF Sends, WorkRecords
  <2> QED
    BY <1>0, <1>1, <1>2, <1>6, <1>9, <2>1 DEF ClipInv, Counted
<1>12. CASE c = d /\ Maps(c)
  <2>1. row' = row /\ work[c].pc = "map" /\ work'[c].pc = "read"
    BY <1>0, <1>12 DEF Maps, Working, WorkRecords
  <2> QED
    BY <1>0, <1>1, <1>2, <1>6, <1>12, <2>1 DEF ClipInv, Counted
<1>13. CASE c = d /\ (Drops(c) \/ FailsToSend(c))
  <2>1. /\ row' = row /\ remote'[c].copy = remote[c].copy
        /\ work'[c].pc = "idle" \/ (work'[c].pc = "read" /\ work'[c].status = "failed")
    BY <1>0, <1>13 DEF Drops, FailsToSend, Strays, Working, NoWork, WorkRecords, RemoteRecords
  <2> QED
    BY <1>0, <1>1, <1>2, <1>6, <1>13, <2>1 DEF ClipInv, Counted
<1>10. CASE c = d /\ Reads(c)
  <2>1. /\ row' = row /\ remote' = remote /\ work[c].pc = "read" /\ work'[c].pc = "write"
        /\ work'[c].status = work[c].status
    BY <1>0, <1>10 DEF Reads, WorkRecords
  <2> QED
    BY <1>0, <1>1, <1>2, <1>6, <1>10, <2>1 DEF ClipInv, Counted
<1>11. CASE c = d /\ Writes(c)
  <2>1. /\ remote' = remote /\ work[c].pc = "write" /\ work'[c].pc = "idle"
        /\ row'[c].status = work[c].status /\ work[c].status \in {"failed", "processing", "processed"}
    BY <1>0, <1>11 DEF Writes, NoWork, WorkRecords, RowRecords, RemoteInv
  <2>2. row'[c].status \in Usable /\ c \notin undone => stored[c]
    BY <1>0, <2>1 DEF ClipInv, Counted, Usable
  <2> QED
    BY <1>0, <1>1, <1>2, <1>6, <1>11, <2>1, <2>2 DEF ClipInv, Counted
<1> QED
  BY <1>3, <1>7, <1>8, <1>9, <1>10, <1>11, <1>12, <1>13 DEF WorkKind

LEMMA ClipSweep ==
  ASSUME AssetInv, [AssetNext]_assetVars, NEW c \in Clips \ met', SweepKind
  PROVE  ClipInv(c)'
<1>0. /\ AssetTypes /\ c \in Clips /\ ClipInv(c) /\ RemoteInv(c) /\ ~ Together(c) /\ ~ Together(c)'
      /\ row \in [Clips -> RowRecords] /\ stored \in [Clips -> BOOLEAN]
      /\ remote \in [Clips -> RemoteRecords] /\ sweep \in SweepRecords /\ sweep.clip \in Clips
      /\ deletion \in [Clips -> {"none", "running", "broken", "completed"}]
  BY Apart, AssetFacts DEF AssetInv, SweepRecords
<1>1. UNCHANGED <<upload, work, undone>>
  BY DEF SweepKind, Lists, Retires, Breaks, Begins, Withdraws, Notes, Erases, ReadsAgain, Buries,
     Sweeping
<1>2. (BrokenOff(c)' <=> BrokenOff(c)) /\ (Putting(c)' <=> Putting(c)) /\ (Counted(c)' <=> Counted(c))
  BY <1>1 DEF BrokenOff, Putting, Counted
<1>3. ASSUME sweep.clip = c, sweep.pc \in Deleting
      PROVE  deletion[c] = "running" /\ ~ Counted(c) /\ work[c].pc = "idle"
  <2>1. c \in sweep.due /\ deletion[c] = "running"
    BY <1>0, <1>3 DEF RemoteInv
  <2>2. work[c].pc = "idle" /\ ~ Putting(c)
    BY <1>0, <2>1 DEF Together, Putting, Uploading
  <2> QED
    BY <2>1, <2>2 DEF Counted
<1>4. CASE Lists
  BY <1>0, <1>1, <1>2, <1>4 DEF Lists, ClipInv
<1>5. CASE Retires
  <2>1. sweep'.pc \in {"idle", "next"} /\ row' = row /\ stored' = stored /\ remote' = remote
    BY <1>5 DEF Retires
  <2>2. CASE deletion'[c] = deletion[c]
    BY <1>0, <1>1, <1>2, <2>1, <2>2 DEF ClipInv
  <2>4. CASE sweep.clip = c /\ sweep.pc = "finish"
    <3>1. row[c].status = "deleted"
      BY <1>0, <2>4 DEF ClipInv
    <3> QED
      BY <1>0, <1>1, <1>2, <2>1, <3>1 DEF ClipInv, Usable
  <2> QED
    BY <1>0, <1>5, <2>2, <2>4 DEF Retires
<1>12. CASE Breaks
  <2>1. /\ sweep'.pc = "next" /\ row' = row
        /\ remote'[c].copy => remote[c].copy
        /\ stored'[c] => stored[c]
    BY <1>0, <1>12 DEF Breaks, RemoteRecords
  <2>2. CASE sweep.clip = c
    <3>1. deletion'[c] = "broken" /\ ~ Counted(c)
      BY <1>0, <1>3, <1>12, <2>2 DEF Breaks
    <3> QED
      BY <1>0, <1>1, <1>2, <2>1, <3>1 DEF ClipInv
  <2>3. CASE sweep.clip # c
    <3>1. deletion'[c] = deletion[c] /\ stored'[c] = stored[c]
      BY <1>0, <1>12, <2>3 DEF Breaks
    <3> QED
      BY <1>0, <1>1, <1>2, <2>1, <3>1 DEF ClipInv
  <2> QED
    BY <2>2, <2>3
<1>6. ASSUME NEW d \in Clips, Begins(d) PROVE ClipInv(c)'
  <2>1. /\ row' = row /\ stored' = stored /\ remote' = remote
        /\ sweep'.pc = "remote" /\ sweep'.clip = d /\ sweep'.mapping = remote[d]
        /\ deletion'[c] = deletion[c] \/ deletion'[c] = "running"
    BY <1>0, <1>6 DEF Begins, SweepRecords
  <2> QED
    BY <1>0, <1>1, <1>2, <2>1 DEF ClipInv
<1>7. CASE Withdraws
  <2>0. row' = row /\ stored' = stored /\ deletion' = deletion /\ sweep.pc = "remote"
        /\ sweep'.clip = sweep.clip
    BY <1>0, <1>7 DEF Withdraws, Onward, SweepRecords
  <2>1. CASE sweep.clip # c
    <3>1. remote'[c] = remote[c]
      BY <1>0, <1>7, <2>1 DEF Withdraws
    <3> QED
      BY <1>0, <1>1, <1>2, <2>0, <2>1, <3>1 DEF ClipInv
  <2>2. CASE sweep.clip = c
    <3>1. sweep.mapping = remote[c]
      BY <1>0, <2>0, <2>2 DEF ClipInv
    <3>2. ~ remote'[c].copy /\ sweep'.pc \in {"mark", "media"}
      BY <1>0, <1>7, <2>2, <3>1 DEF Withdraws, Onward, RemoteInv, RemoteRecords, SweepRecords
    <3> QED
      BY <1>0, <1>1, <1>2, <2>0, <3>2 DEF ClipInv
  <2> QED
    BY <2>1, <2>2
<1>8. CASE Notes
  <2>0. /\ row' = row /\ stored' = stored /\ deletion' = deletion /\ sweep.pc = "mark"
        /\ sweep'.clip = sweep.clip /\ sweep'.pc = "media" /\ remote'[c].copy = remote[c].copy
    BY <1>0, <1>8 DEF Notes, Onward, SweepRecords, RemoteRecords
  <2>1. sweep.clip = c => ~ remote[c].copy
    BY <1>0, <2>0 DEF RemoteInv
  <2> QED
    BY <1>0, <1>1, <1>2, <2>0, <2>1 DEF ClipInv
<1>9. CASE Erases
  <2>0. /\ row' = row /\ remote' = remote /\ deletion' = deletion /\ sweep.pc = "media"
        /\ sweep'.clip = sweep.clip /\ sweep'.pc = "read"
    BY <1>0, <1>9 DEF Erases, Onward, SweepRecords
  <2>1. CASE sweep.clip # c
    <3>1. stored'[c] = stored[c]
      BY <1>0, <1>9, <2>1 DEF Erases
    <3> QED
      BY <1>0, <1>1, <1>2, <2>0, <2>1, <3>1 DEF ClipInv
  <2>2. CASE sweep.clip = c
    <3>1. ~ stored'[c]
      BY <1>0, <1>9, <2>2 DEF Erases
    <3>2. ~ remote[c].copy
      BY <1>0, <2>0, <2>2 DEF ClipInv
    <3>3. deletion[c] = "running" /\ ~ Counted(c) /\ work[c].pc = "idle"
      BY <1>3, <2>0, <2>2 DEF Deleting, SweepPcs
    <3> QED
      BY <1>0, <1>1, <1>2, <2>0, <3>1, <3>2, <3>3 DEF ClipInv
  <2> QED
    BY <2>1, <2>2
<1>10. CASE ReadsAgain
  <2>0. /\ row' = row /\ stored' = stored /\ remote' = remote /\ deletion' = deletion
        /\ sweep.pc = "read" /\ sweep'.clip = sweep.clip /\ sweep'.pc = "write"
    BY <1>0, <1>10 DEF ReadsAgain, SweepRecords
  <2> QED
    BY <1>0, <1>1, <1>2, <2>0 DEF ClipInv
<1>11. CASE Buries
  <2>0. /\ stored' = stored /\ remote' = remote /\ deletion' = deletion
        /\ sweep.pc = "write" /\ sweep'.clip = sweep.clip /\ sweep'.pc = "finish"
    BY <1>0, <1>11 DEF Buries, Onward, SweepRecords
  <2>1. CASE sweep.clip # c
    <3>1. row'[c] = row[c]
      BY <1>0, <1>11, <2>1 DEF Buries
    <3> QED
      BY <1>0, <1>1, <1>2, <2>0, <2>1, <3>1 DEF ClipInv
  <2>2. CASE sweep.clip = c
    <3>1. row'[c].status = "deleted"
      BY <1>0, <1>11, <2>2 DEF Buries, SweepRecords, RowRecords
    <3>2. ~ remote[c].copy /\ ~ stored[c]
      BY <1>0, <2>0, <2>2 DEF ClipInv
    <3>3. work[c].pc = "idle" /\ ~ Counted(c)
      BY <1>3, <2>0, <2>2 DEF Deleting, SweepPcs
    <3> QED
      BY <1>0, <1>1, <1>2, <2>0, <3>1, <3>2, <3>3 DEF ClipInv, Usable
  <2> QED
    BY <2>1, <2>2
<1> QED
  BY <1>4, <1>5, <1>6, <1>7, <1>8, <1>9, <1>10, <1>11, <1>12 DEF SweepKind

LEMMA ClipStep ==
  ASSUME AssetInv, [AssetNext]_assetVars, NEW c \in Clips \ met'
  PROVE  ClipInv(c)'
<1>0. ClipInv(c) /\ ~ Together(c)'
  BY Apart
<1>1. CASE Skips
  BY <1>0, <1>1 DEF Skips, ClipInv, Counted, Putting, BrokenOff
<1> QED
  BY <1>1, ClipUpload, ClipWork, ClipSweep, AssetKinds DEF AssetInv

(* However many clips, uploads and sweeps there are, and whatever breaks   *)
(* off or fails between two of their steps, row, object, provider's copy   *)
(* and the steps under way agree for a clip nobody works on while a sweep  *)
(* has listed it.                                                          *)
THEOREM AssetInvariant == AssetSpec => []AssetInv
<1>1. AssetInit => AssetInv
  <2> SUFFICES ASSUME AssetInit PROVE AssetInv
    OBVIOUS
  <2>0. AnyClip \in Clips /\ Retention \in Nat /\ 0 \in 0..MaxTime /\ 0 \in Nat
        /\ MaxSweeps \in 0..MaxSweeps /\ MaxFaults \in 0..MaxFaults
    BY AssetAssumption DEF AnyClip
  <2>1. Absent \in RowRecords /\ Unmapped \in RemoteRecords
    BY <2>0 DEF Absent, RowRecords, Unmapped, RemoteRecords
  <2>2. NoWork \in WorkRecords /\ NoSweep \in SweepRecords
    BY <2>0, <2>1 DEF NoWork, WorkRecords, NoSweep, SweepRecords, SweepPcs
  <2>3. upload \in [Uploads -> UploadRecords]
    BY <2>0 DEF AssetInit, UploadRecords
  <2>4. left \in [sweeps: 0..MaxSweeps, trouble: 0..MaxFaults]
    BY <2>0 DEF AssetInit
  <2>5. row \in [Clips -> RowRecords] /\ remote \in [Clips -> RemoteRecords]
        /\ work \in [Clips -> WorkRecords] /\ sweep \in SweepRecords
    BY <2>1, <2>2 DEF AssetInit
  <2>6. stored \in [Clips -> BOOLEAN] /\ met \subseteq Clips /\ undone \subseteq Clips
        /\ excess \in Nat
    BY DEF AssetInit
  <2>7. /\ chain \in [Clips -> {"none", "upload", "analyze", "over"}]
        /\ deletion \in [Clips -> {"none", "running", "broken", "completed"}]
        /\ now \in 0..MaxTime /\ sweep.due \subseteq Clips
    BY <2>0 DEF AssetInit, NoSweep
  <2>8. AssetTypes
    BY <2>3, <2>4, <2>5, <2>6, <2>7
       DEF AssetTypes, AssetTypeOK, RowRecords, RemoteRecords, UploadRecords
  <2>9. ASSUME NEW c \in Clips PROVE RemoteInv(c) /\ ClipInv(c)
    <3>1. /\ row[c].status = "absent" /\ ~ stored[c] /\ ~ remote[c].copy /\ ~ remote[c].gone
          /\ work[c].pc = "idle" /\ sweep.pc = "idle" /\ sweep.due = {}
          /\ \A u \in Uploads : upload[u].pc = "new"
      BY DEF AssetInit, Absent, Unmapped, NoWork, NoSweep
    <3>2. ~ Counted(c) /\ ~ Together(c)
      BY <3>1 DEF Counted, Putting, Together
    <3> QED
      BY <3>1, <3>2 DEF RemoteInv, ClipInv, Deleting, Usable
  <2> QED
    BY <2>8, <2>9 DEF AssetInv
<1>2. AssetInv /\ [AssetNext]_assetVars => AssetInv'
  <2> SUFFICES ASSUME AssetInv, [AssetNext]_assetVars PROVE AssetInv'
    OBVIOUS
  <2>1. AssetTypes'
    BY AssetKinds DEF AssetInv
  <2>2. \A c \in Clips : RemoteInv(c)'
    BY RemoteStep DEF AssetInv
  <2> QED
    BY <2>1, <2>2, ClipStep DEF AssetInv
<1> QED
  BY <1>1, <1>2, PTL DEF AssetSpec

(* Rows, mappings, jobs and uploads keep their shape for any number of     *)
(* clips, uploads and sweeps.                                              *)
THEOREM AssetTypeCorrect == AssetSpec => []AssetTypeOK
<1>1. AssetInv => AssetTypeOK
  BY DEF AssetInv, AssetTypes
<1> QED
  BY <1>1, AssetInvariant, PTL

(* A row that says deleted has neither a copy that its mapping names nor a *)
(* stored object, and a clip that is shown as usable can be fetched, for   *)
(* any number of clips, uploads, crashed workers and repeated sweeps, with *)
(* the exceptions the property names.                                      *)
THEOREM RowAlwaysTellsMedia == AssetSpec => []RowTellsMedia
<1>1. AssetInv => RowTellsMedia
  BY DEF AssetInv, ClipInv, Putting, RowTellsMedia
<1> QED
  BY <1>1, AssetInvariant, PTL

-----------------------------------------------------------------------------
(* The quota.                                                              *)

\* What Bytes counts.
Content(clips) == UNION {{c} \X (1..SizeOf[c]) : c \in clips}

\* The rows the quota counts, the clips of QuotaKept, those with the ones that
\* are on their way, and the clips somebody has named.
KeptRows == {c \in Clips : row[c].status \in Kept}
HeldClips == {c \in Clips : row[c].status \in Kept /\ stored[c]}
Coming == {c \in Clips : \E u \in Uploading : upload[u].clip = c}
Charged == HeldClips \cup Coming
Noted == {c \in Clips : row[c].status # "absent"} \cup Coming

\* An upload on its way is charged before its clip is held.
QuotaInv == IsFiniteSet(Content(Noted)) /\ Bytes(Charged) <= Quota + excess

(* The bytes of a set with one more clip; a smaller set has no more.       *)
LEMMA OneMoreClip ==
  ASSUME NEW S \in SUBSET Clips, IsFiniteSet(Content(S)), NEW c \in Clips
  PROVE  /\ IsFiniteSet(Content(S \cup {c}))
         /\ Bytes(S) \in Nat /\ Bytes(S \cup {c}) \in Nat
         /\ Bytes(S \cup {c}) <= Bytes(S) + SizeOf[c]
<1> DEFINE own == {c} \X (1..SizeOf[c])
<1>1. SizeOf[c] \in Nat \ {0}
  BY AssetAssumption
<1>2. IsFiniteSet({c}) /\ Cardinality({c}) = 1
  BY FS_Singleton
<1>3. IsFiniteSet(1..SizeOf[c]) /\ Cardinality(1..SizeOf[c]) = SizeOf[c]
  BY <1>1, FS_Interval
<1>4. IsFiniteSet(own) /\ Cardinality(own) = SizeOf[c]
  <2>1. IsFiniteSet(own) /\ Cardinality(own) = Cardinality({c}) * Cardinality(1..SizeOf[c])
    BY <1>2, <1>3, FS_Product, Zenon
  <2> HIDE DEF own
  <2> QED
    BY <1>1, <1>2, <1>3, <2>1
<1>5. Content(S \cup {c}) = Content(S) \cup own
  BY DEF Content
<1> HIDE DEF own
<1>6. /\ IsFiniteSet(Content(S) \cup own)
      /\ Cardinality(Content(S) \cup own)
           = Cardinality(Content(S)) + Cardinality(own) - Cardinality(Content(S) \cap own)
  BY <1>4, FS_Union
<1>7. /\ Cardinality(Content(S)) \in Nat /\ Cardinality(Content(S) \cup own) \in Nat
      /\ Cardinality(Content(S) \cap own) \in Nat
  BY <1>4, <1>6, FS_CardinalityType, FS_Intersection
<1>8. Bytes(S) = Cardinality(Content(S)) /\ Bytes(S \cup {c}) = Cardinality(Content(S) \cup own)
  BY <1>5 DEF Bytes, Content
<1>9. Cardinality(Content(S) \cup own) <= Cardinality(Content(S)) + SizeOf[c]
  BY <1>1, <1>4, <1>6, <1>7
<1>10. IsFiniteSet(Content(S \cup {c}))
  BY <1>5, <1>6
<1> QED
  BY <1>7, <1>8, <1>9, <1>10

LEMMA FewerClips ==
  ASSUME NEW T \in SUBSET Clips, IsFiniteSet(Content(T)), NEW S \in SUBSET T
  PROVE  IsFiniteSet(Content(S)) /\ Bytes(S) \in Nat /\ Bytes(T) \in Nat /\ Bytes(S) <= Bytes(T)
<1>1. Content(S) \subseteq Content(T)
  BY DEF Content
<1>2. IsFiniteSet(Content(S)) /\ Cardinality(Content(S)) <= Cardinality(Content(T))
  BY <1>1, FS_Subset
<1>3. Bytes(S) = Cardinality(Content(S)) /\ Bytes(T) = Cardinality(Content(T))
  BY DEF Bytes, Content
<1> QED
  BY <1>2, <1>3, FS_CardinalityType

\* How what is charged may grow: not at all, by a clip that a race lets past the
\* quota, or by one the quota had room for beside every row it counts.
Grows ==
  /\ \E d \in Clips : Noted' \subseteq Noted \cup {d}
  /\ \/ Charged' \subseteq Charged /\ excess' = excess
     \/ \E c \in Clips : Charged' \subseteq Charged \cup {c} /\ excess' = excess + SizeOf[c]
     \/ \E c \in Clips : /\ Charged' \subseteq KeptRows \cup {c} /\ excess' = excess
                         /\ Bytes(KeptRows) + SizeOf[c] <= Quota

LEMMA QuotaSets ==
  ASSUME AssetTypes, IsFiniteSet(Content(Noted))
  PROVE  /\ Charged \subseteq Noted /\ KeptRows \subseteq Noted /\ Noted \subseteq Clips
         /\ IsFiniteSet(Content(Charged)) /\ IsFiniteSet(Content(KeptRows))
<1>1. Charged \subseteq Noted /\ KeptRows \subseteq Noted /\ Noted \subseteq Clips
  BY DEF Charged, HeldClips, Coming, KeptRows, Noted, Kept, Usable
<1> QED
  BY <1>1, FewerClips

(* An upload that is let in beside another one is paid for by excess; alone*)
(* it was measured against every row that is kept.                         *)
LEMMA MeasureGrows ==
  ASSUME AssetTypes, NEW u \in Uploads, NEW c \in Clips, Measure(u, c)
  PROVE  Grows
<1>0. upload \in [Uploads -> UploadRecords] /\ upload[u].pc = "new"
  BY AssetFacts DEF Measure
<1>1. UNCHANGED <<row, stored>>
  BY DEF Measure
<1>2. PICK pc \in {"store", "refused"} :
        /\ upload' = [upload EXCEPT ![u] = [pc |-> pc, clip |-> c, at |-> now]]
        /\ pc = "store" => Bytes(KeptRows) + SizeOf[c] <= Quota
        /\ pc = "store" /\ Uploading # {} => excess' = excess + SizeOf[c]
        /\ pc = "refused" \/ Uploading = {} => excess' = excess
  BY DEF Measure, Decide, Fits, KeptRows
<1>3. \A v \in Uploads \ {u} : upload'[v] = upload[v]
  BY <1>0, <1>2
<1>4. upload'[u].pc = pc /\ upload'[u].clip = c
  BY <1>0, <1>2
<1>5. HeldClips' = HeldClips
  BY <1>1 DEF HeldClips
<1>6. Coming' \subseteq Coming \cup {c}
  BY <1>3, <1>4 DEF Coming, Uploading
<1>7. Charged' \subseteq Charged \cup {c} /\ Noted' \subseteq Noted \cup {c}
  BY <1>1, <1>5, <1>6 DEF Charged, Noted
<1>8. CASE pc = "refused"
  <2>1. Coming' \subseteq Coming
    BY <1>3, <1>4, <1>8 DEF Coming, Uploading
  <2> QED
    BY <1>2, <1>5, <1>7, <1>8, <2>1 DEF Grows, Charged
<1>9. CASE pc = "store" /\ Uploading # {}
  BY <1>2, <1>7, <1>9 DEF Grows
<1>10. CASE pc = "store" /\ Uploading = {}
  <2>1. Coming = {} /\ HeldClips \subseteq KeptRows
    BY <1>10 DEF Coming, HeldClips, KeptRows
  <2>2. Charged' \subseteq KeptRows \cup {c}
    BY <1>7, <2>1 DEF Charged
  <2> QED
    BY <1>2, <1>7, <1>10, <2>2 DEF Grows
<1> QED
  BY <1>8, <1>9, <1>10

(* The later steps of an upload charge nothing new: its clip is charged.   *)
LEMMA UploadGrows ==
  ASSUME AssetTypes, NEW u \in Uploads, UploadKind(u), upload[u].pc # "new", excess' = excess
  PROVE  Grows
<1>0. /\ upload \in [Uploads -> UploadRecords] /\ row \in [Clips -> RowRecords]
      /\ stored \in [Clips -> BOOLEAN] /\ upload[u].clip \in Clips
  BY AssetFacts DEF UploadRecords
<1>1. /\ \A v \in Uploads \ {u} : upload'[v] = upload[v]
      /\ upload'[u].clip = upload[u].clip
      /\ upload'[u].pc \in {"store", "put", "undo"} => u \in Uploading
  BY <1>0 DEF UploadKind, Recedes, Stores, Puts, TakesAway, Upward, Others, UploadRecords, Uploading
<1>2. Coming' \subseteq Coming
  <2>1. \A v \in Uploading' : v \in Uploading /\ upload'[v].clip = upload[v].clip
    BY <1>1 DEF Uploading
  <2> QED
    BY <2>1 DEF Coming
<1>3. HeldClips' \subseteq HeldClips \cup Coming
  <2>1. CASE Recedes(u)
    BY <2>1 DEF Recedes, HeldClips
  <2>2. CASE Stores(u) \/ Puts(u)
    <3>1. u \in Uploading
      BY <2>2 DEF Stores, Puts, Uploading
    <3>2. upload[u].clip \in Coming
      BY <1>0, <3>1 DEF Coming
    <3>3. \A d \in Clips : d # upload[u].clip =>
            stored'[d] = stored[d] /\ row'[d] = row[d]
      BY <1>0, <2>2 DEF Stores, Puts
    <3> QED
      BY <3>2, <3>3 DEF HeldClips
  <2>3. CASE TakesAway(u)
    BY <1>0, <2>3 DEF TakesAway, HeldClips
  <2> QED
    BY <2>1, <2>2, <2>3 DEF UploadKind
<1>4. Charged' \subseteq Charged
  BY <1>2, <1>3 DEF Charged
<1>5. \A d \in Clips : d # upload[u].clip => row'[d] = row[d]
  BY <1>0 DEF UploadKind, Recedes, Stores, Puts, TakesAway
<1>6. Noted' \subseteq Noted \cup {upload[u].clip}
  BY <1>2, <1>5 DEF Noted
<1> QED
  BY <1>0, <1>4, <1>6 DEF Grows

(* A worker that brings a deleted row back is paid for by excess.          *)
LEMMA WriteGrows ==
  ASSUME AssetTypes, NEW c \in Clips, WriteRow(c)
  PROVE  Grows
<1>1. /\ \A d \in Clips \ {c} : row'[d] = row[d]
      /\ UNCHANGED <<stored, upload>>
      /\ excess' = IF row[c].status \notin Kept /\ stored[c] THEN excess + SizeOf[c] ELSE excess
  BY AssetFacts DEF WriteRow
<1>2. Coming' = Coming
  BY <1>1 DEF Coming, Uploading
<1>3. HeldClips' \subseteq HeldClips \cup {c} /\ Noted' \subseteq Noted \cup {c}
  BY <1>1, <1>2 DEF HeldClips, Noted
<1>4. CASE row[c].status \notin Kept /\ stored[c]
  BY <1>1, <1>2, <1>3, <1>4 DEF Grows, Charged
<1>5. CASE ~ (row[c].status \notin Kept /\ stored[c])
  <2>1. HeldClips' \subseteq HeldClips
    BY <1>1, <1>5 DEF HeldClips
  <2> QED
    BY <1>1, <1>2, <1>3, <1>5, <2>1 DEF Grows, Charged
<1> QED
  BY <1>4, <1>5

(* Whoever only deletes charges nothing.                                   *)
LEMMA SweepGrows ==
  ASSUME AssetTypes, SweepKind, excess' = excess
  PROVE  Grows
<1>0. /\ sweep.clip \in Clips /\ row \in [Clips -> RowRecords] /\ stored \in [Clips -> BOOLEAN]
      /\ sweep.read \in RowRecords
  BY AssetFacts DEF SweepRecords
<1>1. upload' = upload
  BY DEF SweepKind, Lists, Retires, Breaks, Begins, Withdraws, Notes, Erases, ReadsAgain, Buries,
     Sweeping
<1>2. \A d \in Clips : stored'[d] => stored[d]
  BY <1>0 DEF SweepKind, Lists, Retires, Breaks, Begins, Withdraws, Notes, Erases, ReadsAgain,
     Buries
<1>3. row' = row \/ Buries
  BY DEF SweepKind, Lists, Retires, Breaks, Begins, Withdraws, Notes, Erases, ReadsAgain
<1>4. \A d \in Clips : /\ row'[d].status \in Kept => row[d].status \in Kept
                       /\ d # sweep.clip => row'[d] = row[d]
  <2>1. CASE row' = row
    BY <2>1
  <2>2. CASE Buries
    <3>1. [sweep.read EXCEPT !.status = "deleted"].status \notin Kept
      BY <1>0 DEF RowRecords, Kept, Usable
    <3> QED
      BY <1>0, <2>2, <3>1 DEF Buries
  <2> QED
    BY <1>3, <2>1, <2>2
<1>5. Coming' = Coming
  BY <1>1 DEF Coming, Uploading
<1>6. Charged' \subseteq Charged /\ Noted' \subseteq Noted \cup {sweep.clip}
  BY <1>2, <1>4, <1>5 DEF Charged, HeldClips, Noted
<1> QED
  BY <1>0, <1>6 DEF Grows

LEMMA AssetGrows ==
  ASSUME AssetTypes, [AssetNext]_assetVars
  PROVE  Grows
<1>1. ASSUME NEW u \in Uploads,
             StoreMedia(u) \/ PutAsset(u) \/ UndoMedia(u) \/ EnqueueChain(u) \/ UploadDies(u)
      PROVE  Grows
  <2>1. upload[u].pc # "new" /\ excess' = excess
    BY <1>1 DEF StoreMedia, PutAsset, UndoMedia, EnqueueChain, UploadDies
  <2>2. UploadKind(u)
    BY <1>1, UploadSteps
  <2> QED
    BY <2>1, <2>2, UploadGrows
<1>2. ASSUME UNCHANGED <<row, stored, upload, excess>> PROVE Grows
  <2>1. Charged' = Charged /\ Noted' = Noted
    BY <1>2 DEF Charged, HeldClips, Coming, Uploading, Noted
  <2>2. AnyClip \in Clips
    BY AssetAssumption DEF AnyClip
  <2> QED
    BY <1>2, <2>1, <2>2 DEF Grows
<1>3. ASSUME NEW c \in Clips,
             \/ FetchClip(c) \/ SendClip(c) \/ MapClip(c) \/ AnalyzeClip(c) \/ ReadRow(c)
             \/ WorkerDies(c)
      PROVE  Grows
  BY <1>2, <1>3 DEF FetchClip, SendClip, MapClip, AnalyzeClip, ReadRow, WorkerDies
<1>4. ASSUME \/ \E c \in Clips : BeginDeletion(c)
             \/ ListExpired \/ DeleteRemote \/ MarkRemoteDeleted \/ DeleteMedia \/ ReadDeleted
             \/ WriteDeleted \/ FinishDeletion \/ DeletionFails \/ SweepDies \/ SweepEnds
      PROVE  Grows
  <2>1. excess' = excess
    BY <1>4 DEF BeginDeletion, ListExpired, DeleteRemote, MarkRemoteDeleted, DeleteMedia,
       ReadDeleted, WriteDeleted, FinishDeletion, DeletionFails, SweepDies, SweepEnds
  <2> QED
    BY <1>4, <2>1, SweepSteps, SweepGrows
<1>5. ASSUME Tick \/ UNCHANGED assetVars PROVE Grows
  BY <1>2, <1>5 DEF Tick, assetVars
<1> QED
  BY <1>1, <1>3, <1>4, <1>5, MeasureGrows, WriteGrows DEF AssetNext

LEMMA QuotaStep ==
  ASSUME AssetTypes, AssetTypes', QuotaInv, [AssetNext]_assetVars
  PROVE  QuotaInv'
<1>0. /\ Grows /\ IsFiniteSet(Content(Noted)) /\ Bytes(Charged) <= Quota + excess
      /\ Quota \in Nat /\ excess \in Nat /\ Noted \subseteq Clips /\ Noted' \subseteq Clips
      /\ Charged \subseteq Clips /\ KeptRows \subseteq Clips /\ Charged' \subseteq Noted'
  <2>1. Noted' \subseteq Clips /\ Charged' \subseteq Noted'
    BY DEF Noted, Charged, HeldClips, Coming, Kept, Usable
  <2> QED
    BY <2>1, AssetGrows, AssetFacts, AssetAssumption, QuotaSets DEF QuotaInv
<1>1. IsFiniteSet(Content(Noted'))
  <2>1. PICK d \in Clips : Noted' \subseteq Noted \cup {d}
    BY <1>0 DEF Grows
  <2>2. Noted \cup {d} \in SUBSET Clips /\ IsFiniteSet(Content(Noted \cup {d}))
    BY <1>0, OneMoreClip
  <2> QED
    BY <2>1, <2>2, FewerClips
<1>2. ASSUME NEW T \in SUBSET Clips, IsFiniteSet(Content(T)), NEW c \in Clips,
             Charged' \subseteq T \cup {c}
      PROVE  /\ Bytes(Charged') \in Nat /\ Bytes(T) \in Nat /\ SizeOf[c] \in Nat
             /\ Bytes(Charged') <= Bytes(T) + SizeOf[c]
  <2>1. /\ IsFiniteSet(Content(T \cup {c})) /\ Bytes(T) \in Nat /\ Bytes(T \cup {c}) \in Nat
        /\ Bytes(T \cup {c}) <= Bytes(T) + SizeOf[c] /\ SizeOf[c] \in Nat
    BY <1>2, OneMoreClip, AssetAssumption
  <2>2. T \cup {c} \in SUBSET Clips
    OBVIOUS
  <2>3. Bytes(Charged') \in Nat /\ Bytes(Charged') <= Bytes(T \cup {c})
    BY <1>2, <2>1, <2>2, FewerClips
  <2> QED
    BY <2>1, <2>3
<1>3. IsFiniteSet(Content(Charged)) /\ IsFiniteSet(Content(KeptRows))
  BY <1>0, QuotaSets
<1>4. CASE Charged' \subseteq Charged /\ excess' = excess
  <2>1. Bytes(Charged') \in Nat /\ Bytes(Charged) \in Nat /\ Bytes(Charged') <= Bytes(Charged)
    BY <1>0, <1>3, <1>4, FewerClips
  <2>2. Bytes(Charged') <= Quota + excess'
    BY <1>0, <1>4, <2>1
  <2> QED
    BY <1>1, <2>2 DEF QuotaInv, Bytes, Content
<1>5. ASSUME NEW c \in Clips, Charged' \subseteq Charged \cup {c}, excess' = excess + SizeOf[c]
      PROVE  QuotaInv'
  <2>1. Bytes(Charged') <= Quota + excess'
    BY <1>0, <1>2, <1>3, <1>5
  <2> QED
    BY <1>1, <2>1 DEF QuotaInv, Bytes, Content
<1>6. ASSUME NEW c \in Clips, Charged' \subseteq KeptRows \cup {c}, excess' = excess,
             Bytes(KeptRows) + SizeOf[c] <= Quota
      PROVE  QuotaInv'
  <2>1. Bytes(Charged') <= Quota + excess'
    BY <1>0, <1>2, <1>3, <1>6
  <2> QED
    BY <1>1, <2>1 DEF QuotaInv, Bytes, Content
<1> QED
  BY <1>0, <1>4, <1>5, <1>6 DEF Grows

(* For any clips, any sizes and any quota, and whatever fails: what is     *)
(* stored of a tenant's clips exceeds the quota by no more than the clips  *)
(* that were let in beside another upload and those that a worker brought  *)
(* back after their deletion.                                              *)
THEOREM QuotaAlwaysKept == AssetSpec => []QuotaKept
<1>1. AssetInit => QuotaInv
  <2> SUFFICES ASSUME AssetInit PROVE QuotaInv
    OBVIOUS
  <2>1. Uploading = {}
    BY DEF AssetInit, Uploading
  <2>2. Noted = {} /\ Charged = {} /\ excess = 0
    BY <2>1 DEF AssetInit, Absent, Noted, Charged, HeldClips, Coming, Kept, Usable
  <2>3. Content({}) = {} /\ Bytes({}) = Cardinality({})
    <3>1. Content({}) = {}
      BY DEF Content
    <3> QED
      BY <3>1 DEF Content, Bytes
  <2> QED
    BY <2>2, <2>3, FS_EmptySet, AssetAssumption DEF QuotaInv
<1>2. AssetInv /\ AssetInv' /\ QuotaInv /\ [AssetNext]_assetVars => QuotaInv'
  BY QuotaStep DEF AssetInv
<1>3. AssetInv /\ QuotaInv => QuotaKept
  <2> SUFFICES ASSUME AssetInv, QuotaInv PROVE QuotaKept
    OBVIOUS
  <2>1. /\ HeldClips \subseteq Charged /\ Charged \subseteq Clips /\ IsFiniteSet(Content(Charged))
        /\ Quota \in Nat /\ excess \in Nat /\ Bytes(Charged) <= Quota + excess
    BY QuotaSets, AssetFacts, AssetAssumption DEF AssetInv, QuotaInv, Charged
  <2>2. Bytes(HeldClips) \in Nat /\ Bytes(Charged) \in Nat /\ Bytes(HeldClips) <= Bytes(Charged)
    BY <2>1, FewerClips
  <2>3. Bytes(HeldClips) <= Quota + excess
    BY <2>1, <2>2
  <2> QED
    BY <2>3 DEF QuotaKept, HeldClips
<1> QED
  BY <1>1, <1>2, <1>3, AssetInvariant, PTL DEF AssetSpec

-----------------------------------------------------------------------------
(* Live capture.  The bound of the backlog, for any number of cameras,     *)
(* captures and video workers and any failures, is that of a load which no *)
(* step raises above it: the messages sent, and those that producers and   *)
(* workers at work have yet to send.  The coverage is right because nobody *)
(* but the worker that holds a clip's message changes its job: what that   *)
(* worker is about to record goes with the state of the job until the      *)
(* message is let go.                                                      *)

Busy(w) == hand[w].pc # "idle"

(* The load.                                                               *)
Filming == {c \in Cameras : producer[c].pc \in {"record", "accept", "publish"}}
Awaited == {p \in Captures : producer[p].round = 1}
Carrying == {w \in Handlers : hand[w].pc = "next"}
Load == Depth + Cardinality(Filming) + Cardinality(Awaited) + Cardinality(Carrying)
Bound == MaxPending - 1 + Cardinality(Cameras) + Cardinality(Captures)
                        + Cardinality(Handlers)

(* A producer works on a segment of its own that nobody has seen before it *)
(* is accepted.                                                            *)
InRounds(p) == producer[p].pc # "idle" => Segment(p) \in Segments
Fresh(s) == \/ s[2] > producer[s[1]].round
            \/ /\ s[2] = producer[s[1]].round
               /\ producer[s[1]].pc \in {"idle", "record", "accept"}

(* The worker that holds a message, and its job.                           *)
Holds(w) ==
  LET h == hand[w]
      job == clipJob[h.seg] IN
  /\ h.pc \notin {"idle", "next"} => h.seg \in backlog
  /\ h.pc = "run" => job.state = "running"
  /\ h.pc \in {"observe", "cover"} =>
       \/ /\ h.last = "acknowledge" /\ h.verdict = "available" /\ h.seg \in analysed
          /\ job = [stage |-> LastStage, state |-> "completed"]
       \/ h.last = "release" /\ h.verdict = "unavailable" /\ job.state = "queued"
       \/ h.last = "bury" /\ h.verdict = "unavailable" /\ job.state = "failed"
  /\ h.pc = "release" => job.state = "queued"
  /\ h.pc = "acknowledge" => job.state = "completed"
  /\ h.pc = "bury" => job.state = "failed"
  /\ h.pc = "next" => job.state = "completed" /\ job.stage < LastStage
Alone == \A v, w \in Handlers : Busy(v) /\ Busy(w) /\ hand[v].seg = hand[w].seg => v = w

(* What is recorded of a segment.                                          *)
Recorded(s) ==
  /\ Fresh(s) => clipJob[s].state = "none"
  /\ snapshot[s] = "available" \/ telemetry[s] = "detector" => s \in analysed
  /\ /\ clipJob[s] = [stage |-> LastStage, state |-> "completed"]
     /\ s \notin mishaps.on
     => \/ snapshot[s] = "available"
        \/ \E w \in Handlers : hand[w].seg = s /\ hand[w].pc \in {"observe", "cover"}

CoverageInv ==
  /\ CoverageTypeOK
  /\ \A p \in Producers : InRounds(p)
  /\ \A w \in Handlers : Holds(w)
  /\ Alone
  /\ \A s \in Segments : Recorded(s)
  /\ IsFiniteSet(backlog)
  /\ Load <= Bound
-----------------------------------------------------------------------------
(* Records and functions.                                                  *)

ProducerStates == [pc: {"idle", "record", "accept", "publish", "observe"}, round: Nat \ {0}]
Jobs == [stage: 1..LastStage, state: {"none", "queued", "running", "completed", "failed"}]
Hands == [pc: {"idle", "run", "observe", "cover", "release", "acknowledge", "bury", "next"},
          seg: Segments, verdict: {"none", "available", "unavailable"},
          last: {"release", "acknowledge", "bury"}]

LEMMA Types ==
  CoverageTypeOK <=>
    /\ producer \in [Producers -> ProducerStates]
    /\ clipJob \in [Segments -> Jobs]
    /\ backlog \subseteq Segments /\ analysed \subseteq Segments /\ mishaps.on \subseteq Segments
    /\ hand \in [Handlers -> Hands]
    /\ telemetry \in [Segments -> {"none", "gap", "dark", "processable", "detector"}]
    /\ snapshot \in [Segments -> {"none", "available", "unavailable"}]
  BY DEF CoverageTypeOK, ProducerStates, Jobs, Hands

LEMMA SegmentPairs ==
  /\ \A s \in Segments : s = <<s[1], s[2]>> /\ s[1] \in Producers /\ s[2] \in Nat
  /\ \A p \in Producers : Segment(p)[1] = p /\ Segment(p)[2] = producer[p].round
  BY CoverageAssumption DEF Segments, Producers, Segment

LEMMA RestingTyped == Resting \in Hands /\ Resting.pc = "idle"
<1>1. \E s : s \in Segments
  <2>1. 1 \in 1..Rounds
    BY CoverageAssumption
  <2>2. \A c \in Cameras : <<c, 1>> \in Segments
    BY <2>1 DEF Segments
  <2>3. \A p \in Captures : <<p, 1>> \in Segments
    BY DEF Segments
  <2> QED
    BY <2>2, <2>3, CoverageAssumption
<1>2. (CHOOSE s \in Segments : TRUE) \in Segments
  BY <1>1
<1> QED
  BY <1>2 DEF Resting, Hands

(* What moves one producer, one worker or one job.                         *)
LEMMA MoveDoes ==
  ASSUME producer \in [Producers -> ProducerStates], NEW p \in Producers,
         NEW x \in {"record", "accept", "publish", "observe"}, Move(p, x)
  PROVE  /\ producer' \in [Producers -> ProducerStates]
         /\ producer'[p].pc = x /\ producer'[p].round = producer[p].round
         /\ \A q \in Producers \ {p} : producer'[q] = producer[q]
<1>1. producer[p] \in ProducerStates
  OBVIOUS
<1>2. [producer[p] EXCEPT !.pc = x] \in ProducerStates
  BY <1>1 DEF ProducerStates
<1>3. producer' = [producer EXCEPT ![p] = [producer[p] EXCEPT !.pc = x]]
  BY DEF Move
<1>4. producer'[p] = [producer[p] EXCEPT !.pc = x]
  BY <1>3
<1> QED
  BY <1>1, <1>2, <1>3, <1>4 DEF ProducerStates

LEMMA LeavesDoes ==
  ASSUME producer \in [Producers -> ProducerStates], NEW p \in Producers, Leaves(p)
  PROVE  /\ producer' \in [Producers -> ProducerStates]
         /\ producer'[p].pc = "idle" /\ producer'[p].round = producer[p].round + 1
         /\ \A q \in Producers \ {p} : producer'[q] = producer[q]
<1>1. producer[p].round + 1 \in Nat \ {0}
  BY DEF ProducerStates
<1>2. producer' = [producer EXCEPT ![p] = [pc |-> "idle", round |-> producer[p].round + 1]]
  BY DEF Leaves
<1>3. [pc |-> "idle", round |-> producer[p].round + 1] \in ProducerStates
  BY <1>1 DEF ProducerStates
<1> QED
  BY <1>2, <1>3

LEMMA TurnDoes ==
  ASSUME hand \in [Handlers -> Hands], NEW w \in Handlers,
         NEW x \in {"cover", "release", "acknowledge", "bury", "next"}, Turn(w, x)
  PROVE  /\ hand' \in [Handlers -> Hands]
         /\ hand'[w] = [hand[w] EXCEPT !.pc = x]
         /\ hand'[w].pc = x /\ hand'[w].seg = hand[w].seg
         /\ hand'[w].verdict = hand[w].verdict /\ hand'[w].last = hand[w].last
         /\ \A v \in Handlers \ {w} : hand'[v] = hand[v]
<1>1. hand[w] \in Hands
  OBVIOUS
<1>2. [hand[w] EXCEPT !.pc = x] \in Hands
  BY <1>1 DEF Hands
<1>3. hand' = [hand EXCEPT ![w] = [hand[w] EXCEPT !.pc = x]]
  BY DEF Turn
<1>4. hand'[w] = [hand[w] EXCEPT !.pc = x]
  BY <1>3
<1> QED
  BY <1>1, <1>2, <1>3, <1>4 DEF Hands

LEMMA LetGoDoes ==
  ASSUME hand \in [Handlers -> Hands], NEW w \in Handlers, LetGo(w)
  PROVE  /\ hand' \in [Handlers -> Hands]
         /\ hand'[w].pc = "idle"
         /\ \A v \in Handlers \ {w} : hand'[v] = hand[v]
  BY RestingTyped DEF LetGo

LEMMA TellDoes ==
  ASSUME hand \in [Handlers -> Hands], NEW w \in Handlers,
         NEW verdict \in {"none", "available", "unavailable"},
         NEW last \in {"release", "acknowledge", "bury"}, Tell(w, verdict, last)
  PROVE  /\ hand' \in [Handlers -> Hands]
         /\ hand'[w].pc = IF verdict = "none" THEN last ELSE "observe"
         /\ hand'[w].seg = hand[w].seg
         /\ hand'[w].verdict = verdict /\ hand'[w].last = last
         /\ \A v \in Handlers \ {w} : hand'[v] = hand[v]
<1> DEFINE h == [hand[w] EXCEPT !.pc = IF verdict = "none" THEN last ELSE "observe",
                                !.verdict = verdict, !.last = last]
<1>1. hand[w] \in Hands
  OBVIOUS
<1>2. /\ h \in Hands
      /\ h.pc = IF verdict = "none" THEN last ELSE "observe"
      /\ h.seg = hand[w].seg /\ h.verdict = verdict /\ h.last = last
  BY <1>1 DEF Hands
<1>3. hand' = [hand EXCEPT ![w] = h]
  BY DEF Tell
<1> HIDE DEF h
<1> QED
  BY <1>2, <1>3

LEMMA JobBecomesDoes ==
  ASSUME clipJob \in [Segments -> Jobs], NEW s \in Segments,
         NEW x \in {"queued", "running", "completed", "failed"}, JobBecomes(s, x)
  PROVE  /\ clipJob' \in [Segments -> Jobs]
         /\ clipJob'[s].state = x /\ clipJob'[s].stage = clipJob[s].stage
         /\ \A t \in Segments \ {s} : clipJob'[t] = clipJob[t]
<1>1. clipJob[s] \in Jobs
  OBVIOUS
<1>2. [clipJob[s] EXCEPT !.state = x] \in Jobs
  BY <1>1 DEF Jobs
<1>3. clipJob' = [clipJob EXCEPT ![s] = [clipJob[s] EXCEPT !.state = x]]
  BY DEF JobBecomes
<1>4. clipJob'[s] = [clipJob[s] EXCEPT !.state = x]
  BY <1>3
<1> QED
  BY <1>1, <1>2, <1>3, <1>4 DEF Jobs

LEMMA MishapDoes ==
  ASSUME mishaps.on \subseteq Segments, NEW on \in SUBSET Segments, Setback(on)
  PROVE  mishaps'.on = mishaps.on \cup on /\ mishaps'.on \subseteq Segments
  BY DEF Setback

LEMMA ObserveDoes ==
  ASSUME telemetry \in [Segments -> {"none", "gap", "dark", "processable", "detector"}],
         NEW s \in Segments, NEW x \in {"gap", "dark", "processable", "detector"}, Observe(s, x)
  PROVE  /\ telemetry' \in [Segments -> {"none", "gap", "dark", "processable", "detector"}]
         /\ telemetry'[s] = x
         /\ \A t \in Segments \ {s} : telemetry'[t] = telemetry[t]
  BY DEF Observe
-----------------------------------------------------------------------------
(* The producers.  Whatever one does, it goes on with its segment, gives   *)
(* it up, has it accepted, or sends it.                                    *)

ProducerStep(p) ==
  \/ CaptureOnce(p) /\ p \in Cameras
  \/ RecordSegment(p) /\ p \in Cameras
  \/ ObserveSegment(p) /\ p \in Cameras
  \/ StartCapture(p) /\ p \in Captures
  \/ RecordClip(p) /\ p \in Captures
  \/ Accept(p) \/ PublishSegment(p) \/ ProducerDies(p)

GoesOn(p) ==
  /\ producer'[p].round = producer[p].round
  /\ \/ /\ producer[p].pc = "idle" /\ producer'[p].pc = "record"
        /\ p \in Cameras => Depth < MaxPending
     \/ producer[p].pc = "record" /\ producer'[p].pc = "accept"
  /\ UNCHANGED <<clipJob, backlog>>
GivesUp(p) ==
  /\ producer'[p].pc = "idle" /\ producer'[p].round = producer[p].round + 1
  /\ UNCHANGED <<clipJob, backlog>>
StoresClip(p) ==
  /\ producer[p].pc = "accept" /\ producer'[p].pc = "publish"
  /\ producer'[p].round = producer[p].round
  /\ clipJob' = [clipJob EXCEPT ![Segment(p)].state = "queued"]
  /\ UNCHANGED backlog
SendsOn(p) ==
  /\ producer[p].pc = "publish"
  /\ IF p \in Cameras
     THEN producer'[p].pc = "observe" /\ producer'[p].round = producer[p].round
     ELSE producer'[p].pc = "idle" /\ producer'[p].round = producer[p].round + 1
  /\ backlog' = backlog \cup {Segment(p)}
  /\ UNCHANGED clipJob

(* The rest of what a producer's step does.                                *)
ElsewhereSame(p) ==
  /\ producer' \in [Producers -> ProducerStates]
  /\ \A q \in Producers \ {p} : producer'[q] = producer[q]
  /\ UNCHANGED <<hand, analysed, snapshot>>
  /\ Segment(p) \in Segments
  /\ telemetry' \in [Segments -> {"none", "gap", "dark", "processable", "detector"}]
  /\ \A s \in Segments : telemetry'[s] = "detector" => telemetry[s] = "detector"
  /\ mishaps.on \subseteq mishaps'.on /\ mishaps'.on \subseteq Segments

LEMMA ProducerDoes ==
  ASSUME CoverageTypeOK, IsFiniteSet(backlog),
         NEW p \in Producers, InRounds(p), ProducerStep(p)
  PROVE  ElsewhereSame(p) /\ (GoesOn(p) \/ GivesUp(p) \/ StoresClip(p) \/ SendsOn(p))
<1>1. /\ producer \in [Producers -> ProducerStates]
      /\ mishaps.on \subseteq Segments
      /\ telemetry \in [Segments -> {"none", "gap", "dark", "processable", "detector"}]
  BY Types
<1>2. Segment(p) \in Segments
  <2>1. \/ producer[p].pc # "idle"
        \/ p \in Cameras /\ producer[p].round \in 1..Rounds
        \/ p \in Captures /\ producer[p].round = 1
    BY <1>1, CoverageAssumption DEF ProducerStep, CaptureOnce, RecordSegment,
       ObserveSegment, StartCapture, RecordClip, Accept, PublishSegment, ProducerDies, Now,
       ProducerStates
  <2> QED
    BY <2>1 DEF InRounds, Segment, Segments
<1>3. ASSUME NEW x \in {"record", "accept", "publish", "observe"}, Move(p, x)
      PROVE  /\ producer' \in [Producers -> ProducerStates]
             /\ producer'[p].pc = x /\ producer'[p].round = producer[p].round
             /\ \A q \in Producers \ {p} : producer'[q] = producer[q]
  BY <1>1, <1>3, MoveDoes
<1>4. ASSUME Leaves(p)
      PROVE  /\ producer' \in [Producers -> ProducerStates]
             /\ producer'[p].pc = "idle" /\ producer'[p].round = producer[p].round + 1
             /\ \A q \in Producers \ {p} : producer'[q] = producer[q]
  BY <1>1, <1>4, LeavesDoes
<1>5. ASSUME Mishap(Segment(p))
      PROVE  mishaps.on \subseteq mishaps'.on /\ mishaps'.on \subseteq Segments
  BY <1>1, <1>2, <1>5, MishapDoes DEF Mishap
<1>6. ASSUME NEW x \in {"gap", "dark", "processable"}, Observe(Segment(p), x)
      PROVE  /\ telemetry' \in [Segments -> {"none", "gap", "dark", "processable", "detector"}]
             /\ \A s \in Segments : telemetry'[s] = "detector" => telemetry[s] = "detector"
  BY <1>1, <1>2, <1>6, ObserveDoes
<1> HIDE DEF Move, Leaves, Mishap, Observe
<1>7. CASE CaptureOnce(p) /\ p \in Cameras
  <2>1. /\ producer[p].pc = "idle"
        /\ \/ Depth < MaxPending /\ Move(p, "record") /\ UNCHANGED telemetry
           \/ Observe(Segment(p), "gap") /\ Leaves(p)
        /\ UNCHANGED <<clipJob, backlog, hand, analysed, snapshot, mishaps>>
    <3>1. Depth >= MaxPending \/ Depth < MaxPending
      BY FS_CardinalityType, CoverageAssumption DEF Depth
    <3>2. CASE Depth >= MaxPending
      BY <1>7, <3>2 DEF CaptureOnce, Now
    <3>3. CASE Depth < MaxPending
      <4>1. ~ (Depth >= MaxPending)
        BY <3>3, FS_CardinalityType, CoverageAssumption DEF Depth
      <4> QED  BY <1>7, <3>3, <4>1 DEF CaptureOnce, Now
    <3> QED  BY <3>1, <3>2, <3>3
  <2> QED
    BY <1>1, <1>2, <1>3, <1>4, <1>6, <1>7, <2>1 DEF ElsewhereSame, GoesOn, GivesUp
<1>8. CASE RecordSegment(p) /\ p \in Cameras
  <2>1. /\ producer[p].pc = "record"
        /\ \/ Move(p, "accept") /\ UNCHANGED <<telemetry, mishaps>>
           \/ /\ Leaves(p) /\ Mishap(Segment(p))
              /\ Observe(Segment(p), "dark") \/ UNCHANGED telemetry
        /\ UNCHANGED <<clipJob, backlog, hand, analysed, snapshot>>
    BY <1>8 DEF RecordSegment, Now
  <2> QED
    BY <1>1, <1>2, <1>3, <1>4, <1>5, <1>6, <2>1 DEF ElsewhereSame, GoesOn, GivesUp
<1>9. CASE ObserveSegment(p) /\ p \in Cameras
  BY <1>1, <1>2, <1>4, <1>6, <1>9 DEF ObserveSegment, ElsewhereSame, GivesUp
<1>10. CASE StartCapture(p) /\ p \in Captures
  BY <1>1, <1>2, <1>3, <1>10, CoverageAssumption DEF StartCapture, Now, ElsewhereSame, GoesOn
<1>11. CASE RecordClip(p) /\ p \in Captures
  BY <1>1, <1>2, <1>3, <1>4, <1>5, <1>11 DEF RecordClip, Now, ElsewhereSame, GoesOn, GivesUp
<1>12. CASE Accept(p)
  BY <1>1, <1>2, <1>3, <1>4, <1>5, <1>12 DEF Accept, Now, ElsewhereSame, StoresClip, GivesUp
<1>13. CASE PublishSegment(p)
  BY <1>1, <1>2, <1>3, <1>4, <1>13 DEF PublishSegment, Now, ElsewhereSame, SendsOn
<1>14. CASE ProducerDies(p)
  BY <1>1, <1>2, <1>4, <1>5, <1>14 DEF ProducerDies, ElsewhereSame, GivesUp
<1> QED
  BY <1>7, <1>8, <1>9, <1>10, <1>11, <1>12, <1>13, <1>14 DEF ProducerStep

(* What it leaves of the invariant but for the load.                       *)
LEMMA ProducerKeeps ==
  ASSUME CoverageInv, NEW p \in Producers, ProducerStep(p)
  PROVE  /\ CoverageTypeOK'
         /\ \A q \in Producers : InRounds(q)'
         /\ \A w \in Handlers : Holds(w)'
         /\ Alone'
         /\ \A s \in Segments : Recorded(s)'
<1>1. ElsewhereSame(p) /\ (GoesOn(p) \/ GivesUp(p) \/ StoresClip(p) \/ SendsOn(p))
  BY ProducerDoes DEF CoverageInv
<1>2. /\ producer \in [Producers -> ProducerStates] /\ clipJob \in [Segments -> Jobs]
      /\ backlog \subseteq Segments /\ analysed \subseteq Segments
      /\ hand \in [Handlers -> Hands]
      /\ snapshot \in [Segments -> {"none", "available", "unavailable"}]
  BY Types DEF CoverageInv
<1>3. \/ clipJob' = clipJob
      \/ /\ producer[p].pc = "accept"
         /\ clipJob' \in [Segments -> Jobs] /\ clipJob'[Segment(p)].state = "queued"
         /\ \A t \in Segments \ {Segment(p)} : clipJob'[t] = clipJob[t]
  BY <1>1, <1>2, JobBecomesDoes DEF GoesOn, GivesUp, StoresClip, SendsOn, JobBecomes, ElsewhereSame
<1>4. backlog' = backlog \/ backlog' = backlog \cup {Segment(p)}
  BY <1>1 DEF GoesOn, GivesUp, StoresClip, SendsOn
<1>5. CoverageTypeOK'
  <2>1. clipJob' \in [Segments -> Jobs] /\ backlog' \subseteq Segments
    BY <1>1, <1>2, <1>3, <1>4 DEF ElsewhereSame
  <2> QED
    BY <1>1, <1>2, <2>1 DEF ElsewhereSame, CoverageTypeOK, ProducerStates, Jobs, Hands
<1>6. \A q \in Producers : InRounds(q)'
  <2>1. InRounds(p)'
    <3>1. \/ producer'[p].pc = "idle"
          \/ producer'[p].round = producer[p].round
      BY <1>1 DEF GoesOn, GivesUp, StoresClip, SendsOn
    <3> QED  BY <1>1, <3>1 DEF InRounds, Segment, ElsewhereSame
  <2>2. ASSUME NEW q \in Producers \ {p} PROVE InRounds(q)'
    BY <1>1, <2>2 DEF ElsewhereSame, CoverageInv, InRounds, Segment
  <2> QED  BY <2>1, <2>2
<1>7. Fresh(Segment(p)) => clipJob[Segment(p)].state = "none"
  BY <1>1 DEF ElsewhereSame, CoverageInv, Recorded
<1>8. producer[p].pc = "accept" => Fresh(Segment(p))
  BY SegmentPairs DEF Fresh
<1>9. ASSUME NEW w \in Handlers PROVE Holds(w)'
  <2>1. Holds(w) /\ hand'[w] = hand[w] /\ analysed' = analysed
    BY <1>1 DEF CoverageInv, ElsewhereSame
  <2>2. /\ hand[w].seg \in Segments
        /\ hand[w].pc \in {"idle", "run", "observe", "cover", "release", "acknowledge", "bury",
                           "next"}
    BY <1>2 DEF Hands
  <2>3. hand[w].pc # "idle" => clipJob[hand[w].seg].state # "none"
    BY <2>1, <2>2 DEF Holds
  <2>4. hand[w].pc # "idle" => clipJob'[hand[w].seg] = clipJob[hand[w].seg]
    BY <1>3, <1>7, <1>8, <2>2, <2>3
  <2>5. hand[w].seg \in backlog => hand[w].seg \in backlog'
    BY <1>4
  <2> QED  BY <2>1, <2>4, <2>5 DEF Holds
<1>10. Alone'
  BY <1>1 DEF ElsewhereSame, CoverageInv, Alone, Busy
<1>11. ASSUME NEW s \in Segments PROVE Recorded(s)'
  <2>1. Recorded(s) /\ s = <<s[1], s[2]>> /\ s[1] \in Producers /\ s[2] \in Nat
    BY SegmentPairs DEF CoverageInv
  <2>2. Fresh(s)' => Fresh(s) /\ clipJob'[s] = clipJob[s]
    <3>1. CASE s[1] # p
      <4>1. s # Segment(p)
        BY <3>1, SegmentPairs
      <4> QED
        BY <1>1, <1>3, <2>1, <3>1, <4>1 DEF Fresh, ElsewhereSame
    <3>2. CASE s[1] = p
      <4>1. producer[p].round \in Nat /\ (s = Segment(p) => s[2] = producer[p].round)
        BY <1>2, SegmentPairs DEF ProducerStates
      <4>2. Fresh(s)' => Fresh(s)
        BY <1>1, <2>1, <3>2, <4>1 DEF Fresh, GoesOn, GivesUp, StoresClip, SendsOn
      <4>3. CASE StoresClip(p)
        BY <1>3, <2>1, <3>2, <4>1, <4>2, <4>3 DEF Fresh, StoresClip
      <4>4. CASE ~ StoresClip(p)
        BY <1>1, <4>2, <4>4 DEF GoesOn, GivesUp, SendsOn
      <4> QED  BY <4>3, <4>4
    <3> QED  BY <3>1, <3>2
  <2>3. clipJob'[s] = clipJob[s] \/ clipJob'[s].state = "queued"
    BY <1>3
  <2>4. /\ snapshot' = snapshot /\ analysed' = analysed /\ hand' = hand
        /\ telemetry'[s] = "detector" => telemetry[s] = "detector"
        /\ s \in mishaps.on => s \in mishaps'.on
    BY <1>1 DEF ElsewhereSame
  <2> QED
    BY <2>1, <2>2, <2>3, <2>4 DEF Recorded
<1> QED
  BY <1>5, <1>6, <1>9, <1>10, <1>11
-----------------------------------------------------------------------------
(* The video workers.  A step of one of them is about one segment, that of *)
(* the message it holds or takes, which no other one holds.                *)

WorkerStep(w) ==
  \/ \E s \in Segments : TakeClip(w, s)
  \/ Succeeds(w) \/ Fails(w) \/ ObserveDetector(w) \/ RecordCoverage(w)
  \/ CoverageRefused(w) \/ RecordingFails(w) \/ Release(w) \/ Acknowledge(w)
  \/ PublishNext(w) \/ HandlerDies(w)

(* Only worker w and segment s are concerned.                              *)
About(w, s) ==
  /\ Busy(w) => hand[w].seg = s
  /\ \A v \in Handlers \ {w} : Busy(v) => hand[v].seg # s
  /\ clipJob[s].state # "none"
  /\ UNCHANGED producer
  /\ hand' \in [Handlers -> Hands]
  /\ hand'[w].pc = "idle" \/ hand'[w].seg = s
  /\ \A v \in Handlers \ {w} : hand'[v] = hand[v]
  /\ clipJob' \in [Segments -> Jobs] /\ clipJob'[s].state # "none"
  /\ \A t \in Segments \ {s} : clipJob'[t] = clipJob[t]
  /\ telemetry' \in [Segments -> {"none", "gap", "dark", "processable", "detector"}]
  /\ \A t \in Segments \ {s} : telemetry'[t] = telemetry[t]
  /\ snapshot' \in [Segments -> {"none", "available", "unavailable"}]
  /\ \A t \in Segments \ {s} : snapshot'[t] = snapshot[t]
  /\ backlog' \subseteq Segments
  /\ \A t \in Segments \ {s} : t \in backlog => t \in backlog'
  /\ analysed \subseteq analysed' /\ analysed' \subseteq Segments
  /\ \A t \in Segments \ {s} : t \in analysed' => t \in analysed
  /\ mishaps.on \subseteq mishaps'.on /\ mishaps'.on \subseteq Segments

(* What it has to show of these two.                                       *)
Done(w, s) == Holds(w)' /\ Recorded(s)'

LEMMA WorkerKeeps ==
  ASSUME CoverageInv, NEW w \in Handlers, NEW s \in Segments, About(w, s), Done(w, s)
  PROVE  /\ CoverageTypeOK'
         /\ \A q \in Producers : InRounds(q)'
         /\ \A v \in Handlers : Holds(v)'
         /\ Alone'
         /\ \A t \in Segments : Recorded(t)'
<1>1. /\ producer \in [Producers -> ProducerStates] /\ hand \in [Handlers -> Hands]
  BY Types DEF CoverageInv
<1>2. CoverageTypeOK'
  <2>1. producer' \in [Producers -> ProducerStates]
    BY <1>1 DEF About
  <2> QED
    BY <2>1 DEF About, CoverageTypeOK, ProducerStates, Jobs, Hands
<1>3. \A q \in Producers : InRounds(q)'
  BY DEF CoverageInv, About, InRounds, Segment
<1>4. ASSUME NEW v \in Handlers PROVE Holds(v)'
  <2>1. CASE v = w
    BY <2>1 DEF Done
  <2>2. CASE v # w
    <3>1. Holds(v) /\ hand'[v] = hand[v] /\ hand[v].seg \in Segments
      BY <1>1, <2>2 DEF CoverageInv, About, Hands
    <3>2. CASE hand[v].pc = "idle"
      BY <3>1, <3>2 DEF Holds
    <3>3. CASE hand[v].pc # "idle"
      <4>1. /\ clipJob'[hand[v].seg] = clipJob[hand[v].seg]
            /\ hand[v].seg \in backlog => hand[v].seg \in backlog'
            /\ hand[v].seg \in analysed => hand[v].seg \in analysed'
        BY <2>2, <3>1, <3>3 DEF About, Busy
      <4> QED  BY <3>1, <4>1 DEF Holds
    <3> QED  BY <3>2, <3>3
  <2> QED  BY <2>1, <2>2
<1>5. Alone'
  BY DEF CoverageInv, About, Alone, Busy
<1>6. ASSUME NEW t \in Segments PROVE Recorded(t)'
  <2>1. CASE t = s
    BY <2>1 DEF Done
  <2>2. CASE t # s
    <3>1. /\ Recorded(t) /\ (Fresh(t)' <=> Fresh(t))
          /\ clipJob'[t] = clipJob[t] /\ snapshot'[t] = snapshot[t] /\ telemetry'[t] = telemetry[t]
          /\ t \in analysed => t \in analysed'
          /\ t \in mishaps.on => t \in mishaps'.on
      BY <2>2 DEF CoverageInv, About, Fresh
    <3>2. ASSUME NEW v \in Handlers, hand[v].seg = t, hand[v].pc \in {"observe", "cover"}
          PROVE  hand'[v] = hand[v]
      BY <2>2, <3>2 DEF About, Busy
    <3> QED  BY <3>1, <3>2 DEF Recorded
  <2> QED  BY <2>1, <2>2
<1> QED
  BY <1>2, <1>3, <1>4, <1>5, <1>6

LEMMA WorkerDoes ==
  ASSUME CoverageInv, NEW w \in Handlers, WorkerStep(w)
  PROVE  \E s \in Segments : About(w, s) /\ Done(w, s)
<1>1. /\ producer \in [Producers -> ProducerStates] /\ clipJob \in [Segments -> Jobs]
      /\ backlog \subseteq Segments /\ analysed \subseteq Segments /\ mishaps.on \subseteq Segments
      /\ hand \in [Handlers -> Hands]
      /\ telemetry \in [Segments -> {"none", "gap", "dark", "processable", "detector"}]
      /\ snapshot \in [Segments -> {"none", "available", "unavailable"}]
  BY Types DEF CoverageInv
<1>0. PICK sg \in Segments : sg = hand[w].seg
  BY <1>1 DEF Hands
<1>2. sg \in Segments /\ Holds(w) /\ Recorded(sg)
  BY DEF CoverageInv
<1>3. Busy(w) => \A v \in Handlers \ {w} : Busy(v) => hand[v].seg # sg
  BY <1>0 DEF CoverageInv, Alone
<1>4. Busy(w) => clipJob[sg].state # "none"
  BY <1>0, <1>1, <1>2 DEF Holds, Busy, Hands
<1>5. ASSUME NEW x \in {"queued", "running", "completed", "failed"}, JobBecomes(sg, x)
      PROVE  /\ clipJob' \in [Segments -> Jobs]
             /\ clipJob'[sg].state = x /\ clipJob'[sg].stage = clipJob[sg].stage
             /\ \A t \in Segments \ {sg} : clipJob'[t] = clipJob[t]
  BY <1>1, <1>2, <1>5, JobBecomesDoes
<1>6. ASSUME Mishap(sg)
      PROVE  /\ mishaps.on \subseteq mishaps'.on /\ mishaps'.on \subseteq Segments
             /\ sg \in mishaps'.on
  BY <1>1, <1>2, <1>6, MishapDoes DEF Mishap
<1>7. ASSUME LetGo(w)
      PROVE  /\ hand' \in [Handlers -> Hands] /\ hand'[w].pc = "idle"
             /\ \A v \in Handlers \ {w} : hand'[v] = hand[v]
  BY <1>1, <1>7, LetGoDoes
<1>8. ASSUME NEW x \in {"cover", "release", "acknowledge", "bury", "next"}, Turn(w, x)
      PROVE  /\ hand' \in [Handlers -> Hands]
             /\ hand'[w].pc = x /\ hand'[w].seg = sg
             /\ hand'[w].verdict = hand[w].verdict /\ hand'[w].last = hand[w].last
             /\ \A v \in Handlers \ {w} : hand'[v] = hand[v]
  BY <1>0, <1>1, <1>8, TurnDoes
<1>9. Busy(w) => ~ Fresh(sg)
  BY <1>2, <1>4 DEF Recorded
<1>10. clipJob[sg] \in Jobs /\ hand[w] \in Hands
  BY <1>1, <1>2
<1>11. CASE \E s \in Segments : TakeClip(w, s)
  <2>1. PICK s \in Segments : TakeClip(w, s)
    BY <1>11
  <2> DEFINE h == [Resting EXCEPT !.pc = "run", !.seg = s]
  <2>2. h \in Hands /\ h.pc = "run" /\ h.seg = s
    BY RestingTyped DEF Hands
  <2>3. /\ hand[w].pc = "idle" /\ s \in backlog \ Held /\ clipJob[s].state = "queued"
        /\ JobBecomes(s, "running")
        /\ hand' = [hand EXCEPT ![w] = h]
        /\ UNCHANGED <<producer, backlog, analysed, telemetry, snapshot, mishaps>>
    BY <2>1 DEF TakeClip, Doing
  <2> HIDE DEF h
  <2>4. /\ hand' \in [Handlers -> Hands] /\ hand'[w] = h
        /\ \A v \in Handlers \ {w} : hand'[v] = hand[v]
    BY <1>1, <2>2, <2>3
  <2>5. /\ clipJob' \in [Segments -> Jobs] /\ clipJob'[s].state = "running"
        /\ \A t \in Segments \ {s} : clipJob'[t] = clipJob[t]
    BY <1>1, <2>3, JobBecomesDoes
  <2>6. \A v \in Handlers \ {w} : Busy(v) => hand[v].seg # s
    BY <2>3 DEF Held, Busy, Doing
  <2>7. About(w, s)
    BY <1>1, <2>2, <2>3, <2>4, <2>5, <2>6 DEF About, Busy
  <2>8. Holds(w)'
    BY <2>2, <2>3, <2>4, <2>5 DEF Holds
  <2>9. Recorded(s)'
    <3>1. Recorded(s)
      BY DEF CoverageInv
    <3> QED  BY <2>3, <2>5, <3>1 DEF Recorded, Fresh
  <2> QED  BY <2>7, <2>8, <2>9 DEF Done
<1>12. CASE Succeeds(w)
  <2>1. /\ hand[w].pc = "run" /\ JobBecomes(sg, "completed")
        /\ UNCHANGED <<producer, backlog, telemetry, snapshot, mishaps>>
        /\ \/ /\ clipJob[sg].stage = LastStage /\ analysed' = analysed \cup {sg}
              /\ Tell(w, "available", "acknowledge")
           \/ /\ clipJob[sg].stage # LastStage /\ UNCHANGED analysed
              /\ Tell(w, "none", "acknowledge")
    BY <1>0, <1>12 DEF Succeeds, Doing
  <2>2. /\ hand' \in [Handlers -> Hands] /\ hand'[w].seg = sg
        /\ \A v \in Handlers \ {w} : hand'[v] = hand[v]
        /\ \/ /\ clipJob[sg].stage = LastStage /\ hand'[w].pc = "observe"
              /\ hand'[w].verdict = "available" /\ hand'[w].last = "acknowledge"
           \/ clipJob[sg].stage # LastStage /\ hand'[w].pc = "acknowledge"
    BY <1>0, <1>1, <2>1, TellDoes
  <2>3. Busy(w) /\ clipJob[sg].state = "running"
    BY <1>0, <1>2, <2>1 DEF Holds, Busy
  <2>4. About(w, sg)
    BY <1>0, <1>1, <1>2, <1>3, <1>4, <1>5, <2>1, <2>2, <2>3 DEF About
  <2>5. clipJob'[sg] = [stage |-> clipJob[sg].stage, state |-> "completed"]
    BY <1>5, <1>2, <2>1 DEF Jobs
  <2>6. Holds(w)'
    BY <1>0, <1>2, <2>1, <2>2, <2>5 DEF Holds
  <2>7. Recorded(sg)'
    BY <1>2, <1>9, <2>1, <2>2, <2>3, <2>5 DEF Recorded, Fresh
  <2> QED  BY <1>2, <2>4, <2>6, <2>7 DEF Done
<1>13. CASE Fails(w)
  <2>1. PICK verdict \in {"none", "unavailable"} :
             \/ JobBecomes(sg, "queued") /\ Tell(w, verdict, "release")
             \/ JobBecomes(sg, "failed") /\ Tell(w, verdict, "bury")
    BY <1>0, <1>13 DEF Fails
  <2>2. /\ hand[w].pc = "run" /\ Setback({})
        /\ UNCHANGED <<producer, backlog, analysed, telemetry, snapshot>>
    BY <1>13 DEF Fails, Doing
  <2>3. PICK last \in {"release", "bury"} :
             /\ JobBecomes(sg, IF last = "release" THEN "queued" ELSE "failed")
             /\ Tell(w, verdict, last)
    BY <2>1
  <2>4. /\ hand' \in [Handlers -> Hands] /\ hand'[w].seg = sg
        /\ \A v \in Handlers \ {w} : hand'[v] = hand[v]
        /\ hand'[w].pc = IF verdict = "none" THEN last ELSE "observe"
        /\ hand'[w].verdict = verdict /\ hand'[w].last = last
    BY <1>0, <1>1, <2>3, TellDoes
  <2>5. /\ clipJob' \in [Segments -> Jobs]
        /\ clipJob'[sg].state = IF last = "release" THEN "queued" ELSE "failed"
        /\ \A t \in Segments \ {sg} : clipJob'[t] = clipJob[t]
    BY <1>5, <2>3
  <2>6. mishaps'.on = mishaps.on
    BY <2>2 DEF Setback
  <2>7. Busy(w)
    BY <2>2 DEF Busy
  <2>8. About(w, sg)
    BY <1>0, <1>1, <1>2, <1>3, <1>4, <2>2, <2>4, <2>5, <2>6, <2>7 DEF About
  <2>9. Holds(w)'
    BY <1>0, <1>2, <2>2, <2>4, <2>5 DEF Holds
  <2>10. Recorded(sg)'
    BY <1>2, <1>9, <2>2, <2>5, <2>6, <2>7 DEF Recorded, Fresh
  <2> QED  BY <1>2, <2>8, <2>9, <2>10 DEF Done
<1>14. CASE ObserveDetector(w)
  <2>1. /\ hand[w].pc = "observe" /\ Turn(w, "cover")
        /\ Observe(sg, IF hand[w].verdict = "available" THEN "detector" ELSE "processable")
        /\ UNCHANGED <<producer, clipJob, backlog, analysed, snapshot, mishaps>>
    BY <1>0, <1>14 DEF ObserveDetector, Doing
  <2>2. Busy(w)
    BY <2>1 DEF Busy
  <2>3. /\ telemetry' \in [Segments -> {"none", "gap", "dark", "processable", "detector"}]
        /\ telemetry'[sg] = (IF hand[w].verdict = "available" THEN "detector" ELSE "processable")
        /\ \A t \in Segments \ {sg} : telemetry'[t] = telemetry[t]
    BY <1>1, <1>2, <2>1, ObserveDoes
  <2>4. About(w, sg)
    BY <1>0, <1>1, <1>2, <1>3, <1>4, <1>8, <2>1, <2>2, <2>3 DEF About
  <2>5. Holds(w)'
    BY <1>0, <1>2, <1>8, <2>1 DEF Holds
  <2>6. hand[w].verdict = "available" => sg \in analysed
    BY <1>0, <1>2, <2>1 DEF Holds
  <2>7. Recorded(sg)'
    BY <1>2, <1>8, <1>9, <2>1, <2>2, <2>3, <2>6 DEF Recorded, Fresh
  <2> QED  BY <1>2, <2>4, <2>5, <2>7 DEF Done
<1>15. CASE RecordCoverage(w)
  <2>1. /\ hand[w].pc = "cover" /\ Turn(w, hand[w].last)
        /\ snapshot' = [snapshot EXCEPT ![sg] = hand[w].verdict]
        /\ UNCHANGED <<producer, clipJob, backlog, analysed, telemetry, mishaps>>
    BY <1>0, <1>15 DEF RecordCoverage, Doing
  <2>2. Busy(w) /\ hand[w].verdict \in {"available", "unavailable"}
        /\ hand[w].last \in {"release", "acknowledge", "bury"}
    BY <1>2, <1>10, <2>1 DEF Busy, Hands, Holds
  <2>3. /\ snapshot' \in [Segments -> {"none", "available", "unavailable"}]
        /\ snapshot'[sg] = hand[w].verdict
        /\ \A t \in Segments \ {sg} : snapshot'[t] = snapshot[t]
    BY <1>1, <1>2, <2>1, <2>2
  <2>4. About(w, sg)
    BY <1>0, <1>1, <1>2, <1>3, <1>4, <1>8, <2>1, <2>2, <2>3 DEF About
  <2>5. Holds(w)'
    BY <1>0, <1>2, <1>8, <2>1, <2>2 DEF Holds
  <2>6. /\ hand[w].verdict = "available" => sg \in analysed
        /\ hand[w].verdict # "available" => clipJob[sg].state # "completed"
    BY <1>0, <1>2, <2>1 DEF Holds
  <2>7. Recorded(sg)'
    BY <1>2, <1>9, <2>1, <2>2, <2>3, <2>6 DEF Recorded, Fresh
  <2> QED  BY <1>2, <2>4, <2>5, <2>7 DEF Done
<1>16. CASE CoverageRefused(w) \/ RecordingFails(w)
  <2>1. /\ hand[w].pc \in {"observe", "cover"}
        /\ UNCHANGED <<producer, backlog, analysed, telemetry, snapshot>>
        /\ mishaps' = mishaps \/ Mishap(sg)
        /\ \/ JobBecomes(sg, "failed") /\ Turn(w, "bury")
           \/ hand[w].last # "acknowledge" /\ UNCHANGED clipJob /\ LetGo(w)
    BY <1>0, <1>16 DEF CoverageRefused, RecordingFails, Doing
  <2>2. Busy(w)
    BY <2>1 DEF Busy
  <2>3. mishaps.on \subseteq mishaps'.on /\ mishaps'.on \subseteq Segments
    BY <1>1, <1>6, <2>1
  <2>4. CASE JobBecomes(sg, "failed") /\ Turn(w, "bury")
    <3>1. About(w, sg)
      BY <1>0, <1>1, <1>2, <1>3, <1>4, <1>5, <1>8, <2>1, <2>2, <2>3, <2>4 DEF About
    <3>2. Holds(w)'
      BY <1>0, <1>2, <1>5, <1>8, <2>1, <2>4 DEF Holds
    <3>3. Recorded(sg)'
      BY <1>2, <1>5, <1>9, <2>1, <2>2, <2>3, <2>4 DEF Recorded, Fresh
    <3> QED  BY <1>2, <3>1, <3>2, <3>3 DEF Done
  <2>5. CASE hand[w].last # "acknowledge" /\ UNCHANGED clipJob /\ LetGo(w)
    <3>1. About(w, sg)
      BY <1>0, <1>1, <1>2, <1>3, <1>4, <1>7, <2>1, <2>2, <2>3, <2>5 DEF About
    <3>2. Holds(w)'
      BY <1>7, <2>5 DEF Holds
    <3>3. clipJob[sg].state # "completed"
      BY <1>0, <1>2, <2>1, <2>5 DEF Holds
    <3>4. Recorded(sg)'
      BY <1>2, <1>9, <2>1, <2>2, <2>3, <2>5, <3>3 DEF Recorded, Fresh
    <3> QED  BY <1>2, <3>1, <3>2, <3>4 DEF Done
  <2> QED  BY <2>1, <2>4, <2>5
<1>17. CASE Acknowledge(w)
  <2>1. /\ hand[w].pc \in {"acknowledge", "bury"}
        /\ backlog' = backlog \ {sg}
        /\ \/ /\ hand[w].pc = "acknowledge" /\ clipJob[sg].stage < LastStage
              /\ Turn(w, "next")
           \/ LetGo(w)
        /\ UNCHANGED <<producer, clipJob, analysed, telemetry, snapshot, mishaps>>
    BY <1>0, <1>17 DEF Acknowledge, Doing
  <2>2. Busy(w)
    BY <2>1 DEF Busy
  <2>3. About(w, sg)
    BY <1>0, <1>1, <1>2, <1>3, <1>4, <1>7, <1>8, <2>1, <2>2 DEF About
  <2>4. Holds(w)'
    BY <1>0, <1>2, <1>7, <1>8, <2>1 DEF Holds
  <2>5. Recorded(sg)'
    <3>1. ASSUME NEW v \in Handlers, hand[v].seg = sg, hand[v].pc \in {"observe", "cover"}
          PROVE  FALSE
      BY <1>3, <2>1, <2>2, <3>1 DEF Busy
    <3> QED  BY <1>2, <1>9, <2>1, <2>2, <3>1 DEF Recorded, Fresh
  <2> QED  BY <1>2, <2>3, <2>4, <2>5 DEF Done
<1>18. CASE PublishNext(w)
  <2>1. /\ hand[w].pc = "next" /\ LetGo(w)
        /\ clipJob' = [clipJob EXCEPT ![sg] = [stage |-> clipJob[sg].stage + 1, state |-> "queued"]]
        /\ backlog' = backlog \cup {sg}
        /\ UNCHANGED <<producer, analysed, telemetry, snapshot, mishaps>>
    BY <1>0, <1>18 DEF PublishNext, Doing
  <2>2. Busy(w) /\ clipJob[sg].stage < LastStage
    BY <1>0, <1>2, <2>1 DEF Busy, Holds
  <2>3. [stage |-> clipJob[sg].stage + 1, state |-> "queued"] \in Jobs
    BY <1>10, <2>2 DEF Jobs, LastStage
  <2>4. /\ clipJob' \in [Segments -> Jobs] /\ clipJob'[sg].state = "queued"
        /\ \A t \in Segments \ {sg} : clipJob'[t] = clipJob[t]
    BY <1>1, <1>2, <2>1, <2>3
  <2>5. About(w, sg)
    BY <1>0, <1>1, <1>2, <1>3, <1>4, <1>7, <2>1, <2>2, <2>4 DEF About
  <2>6. Holds(w)'
    BY <1>7, <2>1 DEF Holds
  <2>7. Recorded(sg)'
    BY <1>2, <1>9, <2>1, <2>2, <2>4 DEF Recorded, Fresh
  <2> QED  BY <1>2, <2>5, <2>6, <2>7 DEF Done
<1>19. CASE HandlerDies(w)
  <2>1. /\ Busy(w) /\ LetGo(w) /\ Mishap(sg)
        /\ UNCHANGED <<producer, clipJob, backlog, analysed, telemetry, snapshot>>
    BY <1>0, <1>19 DEF HandlerDies, Busy, Doing
  <2>2. About(w, sg)
    BY <1>0, <1>1, <1>2, <1>3, <1>4, <1>6, <1>7, <2>1 DEF About
  <2>3. Holds(w)'
    BY <1>7, <2>1 DEF Holds
  <2>4. Recorded(sg)'
    BY <1>2, <1>6, <1>9, <2>1 DEF Recorded, Fresh
  <2> QED  BY <1>2, <2>2, <2>3, <2>4 DEF Done
<1>20. CASE Release(w)
  <2>1. /\ Busy(w) /\ hand[w].pc = "release" /\ LetGo(w)
        /\ UNCHANGED <<producer, clipJob, backlog, analysed, telemetry, snapshot, mishaps>>
    BY <1>20 DEF Release, Busy, Doing
  <2>2. About(w, sg)
    BY <1>0, <1>1, <1>2, <1>3, <1>4, <1>7, <2>1 DEF About
  <2>3. Holds(w)'
    BY <1>7, <2>1 DEF Holds
  <2>4. clipJob[sg].state # "completed"
    BY <1>0, <1>2, <2>1 DEF Holds
  <2>5. Recorded(sg)'
    BY <1>2, <1>9, <2>1, <2>4 DEF Recorded, Fresh
  <2> QED  BY <1>2, <2>2, <2>3, <2>5 DEF Done
<1> QED
  BY <1>11, <1>12, <1>13, <1>14, <1>15, <1>16, <1>17, <1>18, <1>19, <1>20 DEF WorkerStep
-----------------------------------------------------------------------------
(* The load.                                                               *)

LEMMA LoadParts ==
  ASSUME IsFiniteSet(backlog)
  PROVE  /\ Depth \in Nat
         /\ IsFiniteSet(Filming) /\ Cardinality(Filming) \in Nat
         /\ IsFiniteSet(Awaited) /\ Cardinality(Awaited) \in Nat
         /\ IsFiniteSet(Carrying) /\ Cardinality(Carrying) \in Nat
         /\ Cardinality(Filming) <= Cardinality(Cameras)
         /\ Cardinality(Awaited) <= Cardinality(Captures)
         /\ Cardinality(Carrying) <= Cardinality(Handlers)
<1>1. /\ Filming \in SUBSET Cameras /\ Awaited \in SUBSET Captures
      /\ Carrying \in SUBSET Handlers
  BY DEF Filming, Awaited, Carrying
<1>2. /\ IsFiniteSet(Filming) /\ IsFiniteSet(Awaited) /\ IsFiniteSet(Carrying)
      /\ Cardinality(Filming) <= Cardinality(Cameras)
      /\ Cardinality(Awaited) <= Cardinality(Captures)
      /\ Cardinality(Carrying) <= Cardinality(Handlers)
  BY <1>1, FS_Subset, CoverageAssumption
<1> QED
  BY <1>2, FS_CardinalityType DEF Depth

LEMMA Limits ==
  /\ Cardinality(Cameras) \in Nat /\ Cardinality(Captures) \in Nat
  /\ Cardinality(Handlers) \in Nat /\ MaxPending \in Nat \ {0}
  BY CoverageAssumption, FS_CardinalityType

(* A part that loses an element, or has at most one more.                  *)
LEMMA Fewer ==
  ASSUME NEW S, NEW T, IsFiniteSet(S), T \subseteq S
  PROVE  IsFiniteSet(T) /\ Cardinality(T) <= Cardinality(S) /\ Cardinality(T) \in Nat
  BY FS_Subset, FS_CardinalityType

LEMMA OneLess ==
  ASSUME NEW S, NEW T, IsFiniteSet(S), NEW x \in S, T \subseteq S \ {x}
  PROVE  IsFiniteSet(T) /\ Cardinality(T) <= Cardinality(S) - 1 /\ Cardinality(T) \in Nat
<1>1. /\ IsFiniteSet(S \ {x}) /\ Cardinality(S \ {x}) = Cardinality(S) - 1
      /\ Cardinality(S) \in Nat
  BY FS_RemoveElement, FS_CardinalityType
<1> QED
  BY <1>1, Fewer

LEMMA OneMore ==
  ASSUME NEW S, NEW T, IsFiniteSet(S), NEW x, T \subseteq S \cup {x}
  PROVE  IsFiniteSet(T) /\ Cardinality(T) <= Cardinality(S) + 1 /\ Cardinality(T) \in Nat
<1>1. /\ IsFiniteSet(S \cup {x}) /\ Cardinality(S \cup {x}) <= Cardinality(S) + 1
      /\ Cardinality(S) \in Nat /\ Cardinality(S \cup {x}) \in Nat
  BY FS_AddElement, FS_CardinalityType
<1>2. IsFiniteSet(T) /\ Cardinality(T) <= Cardinality(S \cup {x}) /\ Cardinality(T) \in Nat
  BY <1>1, Fewer
<1> QED
  BY <1>1, <1>2

LEMMA ProducerLoad ==
  ASSUME CoverageInv, NEW p \in Producers, ProducerStep(p)
  PROVE  IsFiniteSet(backlog') /\ Load' <= Bound
<1>1. ElsewhereSame(p) /\ (GoesOn(p) \/ GivesUp(p) \/ StoresClip(p) \/ SendsOn(p))
  BY ProducerDoes DEF CoverageInv
<1>2. /\ producer \in [Producers -> ProducerStates] /\ IsFiniteSet(backlog) /\ Load <= Bound
      /\ producer[p].round \in Nat \ {0}
  BY Types DEF CoverageInv, ProducerStates
<1>3. Carrying' = Carrying
  BY <1>1 DEF Carrying, ElsewhereSame
<1>4. IsFiniteSet(backlog')
  BY <1>1, <1>2, OneMore DEF GoesOn, GivesUp, StoresClip, SendsOn
<1>5. /\ Depth' \in Nat /\ Cardinality(Filming') \in Nat /\ Cardinality(Awaited') \in Nat
      /\ Cardinality(Filming') <= Cardinality(Cameras)
      /\ Cardinality(Awaited') <= Cardinality(Captures)
  <2>1. Filming' \in SUBSET Cameras /\ Awaited' \in SUBSET Captures
    BY DEF Filming, Awaited
  <2> QED
    BY <1>4, <2>1, FS_Subset, FS_CardinalityType, CoverageAssumption DEF Depth
<1>6. \A c \in Cameras : c # p => (c \in Filming' <=> c \in Filming)
  BY <1>1 DEF Filming, ElsewhereSame, Producers
<1>7. \A c \in Captures : c # p => (c \in Awaited' <=> c \in Awaited)
  BY <1>1 DEF Awaited, ElsewhereSame, Producers
<1>8. p \in Captures => p \notin Filming /\ p \notin Filming'
  BY CoverageAssumption DEF Filming
<1>9. p \in Cameras => p \notin Awaited /\ p \notin Awaited'
  BY CoverageAssumption DEF Awaited
<1>10. Filming \subseteq Cameras /\ Filming' \subseteq Cameras
       /\ Awaited \subseteq Captures /\ Awaited' \subseteq Captures
  BY DEF Filming, Awaited
<1>11. CASE GoesOn(p) /\ p \in Cameras /\ producer[p].pc = "idle"
  <2>1. Depth' <= MaxPending - 1
    <3>1. Depth' = Depth /\ Depth < MaxPending /\ Depth \in Nat
      BY <1>2, <1>11, LoadParts DEF GoesOn, Depth
    <3> QED  BY <3>1, Limits
  <2> QED
    BY <1>2, <1>3, <1>4, <1>5, <2>1, Limits, LoadParts DEF Load, Bound
<1>12. CASE \/ GivesUp(p) \/ StoresClip(p)
            \/ GoesOn(p) /\ (p \in Captures \/ producer[p].pc = "record")
  <2>1. Depth' = Depth
    BY <1>12 DEF GivesUp, StoresClip, GoesOn, Depth
  <2>2. Filming' \subseteq Filming
    <3>1. p \in Cameras => (p \in Filming' => p \in Filming)
      BY <1>8, <1>12, CoverageAssumption DEF GivesUp, StoresClip, GoesOn, Filming
    <3> QED  BY <1>6, <1>10, <3>1
  <2>3. Awaited' \subseteq Awaited
    <3>1. p \in Captures => (p \in Awaited' => p \in Awaited)
      BY <1>2, <1>12 DEF GivesUp, StoresClip, GoesOn, Awaited
    <3> QED  BY <1>7, <1>10, <3>1
  <2>4. Cardinality(Filming') <= Cardinality(Filming)
    BY <1>2, <2>2, LoadParts, Fewer
  <2>5. Cardinality(Awaited') <= Cardinality(Awaited)
    BY <1>2, <2>3, LoadParts, Fewer
  <2> QED
    BY <1>2, <1>3, <1>4, <1>5, <2>1, <2>4, <2>5, LoadParts, Limits DEF Load, Bound
<1>13. CASE SendsOn(p)
  <2>1. Depth' <= Depth + 1
    BY <1>2, <1>13, OneMore DEF SendsOn, Depth
  <2>2. CASE p \in Cameras
    <3>1. p \in Filming /\ p \notin Filming'
      BY <1>13, <2>2 DEF SendsOn, Filming
    <3>2. Filming' \subseteq Filming \ {p} /\ Awaited' = Awaited
      BY <1>6, <1>7, <1>9, <1>10, <2>2, <3>1
    <3>3. Cardinality(Filming') <= Cardinality(Filming) - 1
      BY <1>2, <3>1, <3>2, LoadParts, OneLess
    <3> QED
      BY <1>2, <1>3, <1>4, <1>5, <2>1, <3>2, <3>3, LoadParts, Limits DEF Load, Bound
  <2>3. CASE p \notin Cameras
    <3>1. p \in Captures /\ producer[p].round = 1
      BY <1>1, <2>3, SegmentPairs DEF ElsewhereSame, Producers, Segments, Segment
    <3>2. p \in Awaited /\ p \notin Awaited'
      BY <1>2, <1>13, <2>3, <3>1 DEF SendsOn, Awaited
    <3>3. Awaited' \subseteq Awaited \ {p} /\ Filming' = Filming
      BY <1>6, <1>7, <1>8, <1>10, <3>1, <3>2
    <3>4. Cardinality(Awaited') <= Cardinality(Awaited) - 1
      BY <1>2, <3>2, <3>3, LoadParts, OneLess
    <3> QED
      BY <1>2, <1>3, <1>4, <1>5, <2>1, <3>3, <3>4, LoadParts, Limits DEF Load, Bound
  <2> QED  BY <2>2, <2>3
<1> QED
  BY <1>1, <1>11, <1>12, <1>13 DEF GoesOn, Producers

LEMMA WorkerLoad ==
  ASSUME CoverageInv, NEW w \in Handlers, WorkerStep(w)
  PROVE  IsFiniteSet(backlog') /\ Load' <= Bound
<1>1. /\ hand \in [Handlers -> Hands] /\ IsFiniteSet(backlog) /\ Load <= Bound
      /\ Holds(w)
  BY Types DEF CoverageInv
<1>2. UNCHANGED producer /\ \A v \in Handlers \ {w} : hand'[v] = hand[v]
  BY WorkerDoes DEF About
<1>3. Filming' = Filming /\ Awaited' = Awaited
  BY <1>2 DEF Filming, Awaited
<1>4. \A v \in Handlers : v # w => (v \in Carrying' <=> v \in Carrying)
  BY <1>2 DEF Carrying
<1>5. Carrying \subseteq Handlers /\ Carrying' \subseteq Handlers
  BY DEF Carrying
<1>6. CASE backlog' = backlog /\ hand'[w].pc # "next"
  <2>1. Carrying' \subseteq Carrying
    BY <1>4, <1>5, <1>6 DEF Carrying
  <2>2. Cardinality(Carrying') <= Cardinality(Carrying) /\ Cardinality(Carrying') \in Nat
    BY <1>1, <2>1, LoadParts, Fewer
  <2> QED
    BY <1>1, <1>3, <1>6, <2>2, LoadParts, Limits DEF Load, Bound, Depth
<1>7. CASE Acknowledge(w)
  <2>1. hand[w].seg \in backlog /\ backlog' = backlog \ {hand[w].seg}
    BY <1>1, <1>7 DEF Acknowledge, Holds
  <2>2. IsFiniteSet(backlog') /\ Cardinality(backlog') = Cardinality(backlog) - 1
    BY <1>1, <2>1, FS_RemoveElement
  <2>3. Carrying' \subseteq Carrying \cup {w}
    BY <1>4, <1>5
  <2>4. Cardinality(Carrying') <= Cardinality(Carrying) + 1 /\ Cardinality(Carrying') \in Nat
    BY <1>1, <2>3, LoadParts, OneMore
  <2> QED
    BY <1>1, <1>3, <2>2, <2>4, LoadParts, Limits DEF Load, Bound, Depth
<1>8. CASE PublishNext(w)
  <2>1. hand[w].pc = "next" /\ backlog' = backlog \cup {hand[w].seg} /\ LetGo(w)
    BY <1>8 DEF PublishNext, Doing
  <2>2. /\ IsFiniteSet(backlog') /\ Cardinality(backlog') <= Cardinality(backlog) + 1
        /\ Cardinality(backlog') \in Nat
    BY <1>1, <2>1, OneMore
  <2>3. w \in Carrying /\ Carrying' \subseteq Carrying \ {w}
    BY <1>1, <1>4, <1>5, <2>1, LetGoDoes DEF Carrying
  <2>4. Cardinality(Carrying') <= Cardinality(Carrying) - 1 /\ Cardinality(Carrying') \in Nat
    BY <1>1, <2>3, LoadParts, OneLess
  <2> QED
    BY <1>1, <1>3, <2>2, <2>4, LoadParts, Limits DEF Load, Bound, Depth
<1>9. CASE \E s \in Segments : TakeClip(w, s)
  <2>1. PICK s \in Segments : TakeClip(w, s)
    BY <1>9
  <2>2. backlog' = backlog /\ hand'[w] = [Resting EXCEPT !.pc = "run", !.seg = s]
    BY <1>1, <2>1 DEF TakeClip
  <2>3. hand'[w].pc = "run"
    BY <2>2, RestingTyped DEF Hands
  <2> QED  BY <1>6, <2>2, <2>3
<1>10. CASE Succeeds(w)
  <2>1. backlog' = backlog /\ \E verdict \in {"none", "available"} : Tell(w, verdict, "acknowledge")
    BY <1>10 DEF Succeeds
  <2>2. hand'[w].pc # "next"
    BY <1>1, <2>1, TellDoes
  <2> QED  BY <1>6, <2>1, <2>2
<1>11. CASE Fails(w)
  <2>1. /\ backlog' = backlog
        /\ \E verdict \in {"none", "unavailable"}, last \in {"release", "bury"} :
             Tell(w, verdict, last)
    BY <1>11 DEF Fails
  <2>2. hand'[w].pc # "next"
    BY <1>1, <2>1, TellDoes
  <2> QED  BY <1>6, <2>1, <2>2
<1>12. CASE ObserveDetector(w)
  <2>1. backlog' = backlog /\ Turn(w, "cover")
    BY <1>12 DEF ObserveDetector
  <2> QED  BY <1>1, <1>6, <2>1, TurnDoes
<1>13. CASE RecordCoverage(w)
  <2>1. backlog' = backlog /\ Turn(w, hand[w].last)
    BY <1>13 DEF RecordCoverage
  <2>2. hand[w].last \in {"release", "acknowledge", "bury"}
    BY <1>1 DEF Hands
  <2> QED  BY <1>1, <1>6, <2>1, <2>2, TurnDoes
<1>14. CASE CoverageRefused(w) \/ RecordingFails(w)
  <2>1. backlog' = backlog /\ (Turn(w, "bury") \/ LetGo(w))
    BY <1>14 DEF CoverageRefused, RecordingFails
  <2> QED  BY <1>1, <1>6, <2>1, TurnDoes, LetGoDoes
<1>15. CASE Release(w) \/ HandlerDies(w)
  BY <1>1, <1>6, <1>15, LetGoDoes DEF Release, HandlerDies
<1> QED
  BY <1>7, <1>8, <1>9, <1>10, <1>11, <1>12, <1>13, <1>14, <1>15 DEF WorkerStep

-----------------------------------------------------------------------------
(* The queue gives up a message that nobody holds.                         *)
LEMMA DropKeeps ==
  ASSUME CoverageInv, NEW s \in Segments, DropMessage(s)
  PROVE  CoverageInv'
<1>1. /\ s \in backlog \ Held /\ backlog' = backlog \ {s}
      /\ UNCHANGED <<producer, clipJob, hand, analysed, telemetry, snapshot, mishaps>>
  BY DEF DropMessage
<1>2. CoverageTypeOK'
  BY <1>1 DEF CoverageInv, CoverageTypeOK
<1>3. \A p \in Producers : InRounds(p)'
  BY <1>1 DEF CoverageInv, InRounds, Segment
<1>4. ASSUME NEW w \in Handlers PROVE Holds(w)'
  <2>1. Holds(w) /\ (hand[w].pc # "idle" => hand[w].seg # s)
    BY <1>1 DEF CoverageInv, Held, Doing
  <2> QED  BY <1>1, <2>1 DEF Holds
<1>5. Alone'
  BY <1>1 DEF CoverageInv, Alone, Busy
<1>6. \A t \in Segments : Recorded(t)'
  BY <1>1 DEF CoverageInv, Recorded, Fresh
<1>7. IsFiniteSet(backlog') /\ Load' <= Bound
  <2>1. /\ IsFiniteSet(backlog') /\ Cardinality(backlog') <= Cardinality(backlog)
        /\ Cardinality(backlog') \in Nat
    BY <1>1, Fewer DEF CoverageInv
  <2>2. Filming' = Filming /\ Awaited' = Awaited /\ Carrying' = Carrying
    BY <1>1 DEF Filming, Awaited, Carrying
  <2> QED
    BY <2>1, <2>2, LoadParts, Limits DEF CoverageInv, Load, Bound, Depth
<1> QED
  BY <1>2, <1>3, <1>4, <1>5, <1>6, <1>7 DEF CoverageInv, Bound
-----------------------------------------------------------------------------
(* The theorems.                                                           *)

LEMMA InvariantStarts == CoverageInit => CoverageInv
<1> SUFFICES ASSUME CoverageInit PROVE CoverageInv
  OBVIOUS
<1>1. /\ \A p \in Producers : producer[p].pc = "idle" /\ producer[p].round = 1
      /\ \A s \in Segments : clipJob[s].state = "none"
      /\ \A w \in Handlers : hand[w].pc = "idle"
      /\ \A s \in Segments : snapshot[s] = "none" /\ telemetry[s] = "none"
      /\ backlog = {}
  BY RestingTyped DEF CoverageInit
<1>2. CoverageTypeOK
  <2>1. /\ producer \in [Producers -> ProducerStates] /\ clipJob \in [Segments -> Jobs]
        /\ backlog \subseteq Segments /\ analysed \subseteq Segments
        /\ mishaps.on \subseteq Segments
    BY DEF CoverageInit, ProducerStates, Jobs, LastStage
  <2>2. /\ hand \in [Handlers -> Hands]
        /\ telemetry \in [Segments -> {"none", "gap", "dark", "processable", "detector"}]
        /\ snapshot \in [Segments -> {"none", "available", "unavailable"}]
    BY RestingTyped DEF CoverageInit
  <2> QED  BY <2>1, <2>2, Types
<1>3. \A p \in Producers : InRounds(p)
  BY <1>1 DEF InRounds
<1>4. \A w \in Handlers : Holds(w)
  BY <1>1 DEF Holds
<1>5. Alone
  BY <1>1 DEF Alone, Busy
<1>6. \A s \in Segments : Recorded(s)
  BY <1>1 DEF Recorded
<1>7. IsFiniteSet(backlog) /\ Load <= Bound
  <2>1. IsFiniteSet(backlog) /\ Depth = 0
    BY <1>1, FS_EmptySet DEF Depth
  <2>2. Filming = {} /\ Carrying = {}
    BY <1>1 DEF Filming, Carrying, Producers
  <2>3. Cardinality(Filming) = 0 /\ Cardinality(Carrying) = 0
    BY <2>2, FS_EmptySet
  <2> QED
    BY <2>1, <2>3, LoadParts, Limits DEF Load, Bound
<1> QED
  BY <1>2, <1>3, <1>4, <1>5, <1>6, <1>7 DEF CoverageInv

LEMMA InvariantKept == CoverageInv /\ [CoverageNext]_coverageVars => CoverageInv'
<1> SUFFICES ASSUME CoverageInv, [CoverageNext]_coverageVars PROVE CoverageInv'
  OBVIOUS
<1>1. \/ \E p \in Producers : ProducerStep(p)
      \/ \E w \in Handlers : WorkerStep(w)
      \/ \E s \in Segments : DropMessage(s)
      \/ UNCHANGED coverageVars
  BY DEF CoverageNext, ProducerStep, WorkerStep, Producers
<1>2. ASSUME NEW p \in Producers, ProducerStep(p) PROVE CoverageInv'
  BY <1>2, ProducerKeeps, ProducerLoad DEF CoverageInv, Bound
<1>3. ASSUME NEW w \in Handlers, WorkerStep(w) PROVE CoverageInv'
  <2>1. PICK s \in Segments : About(w, s) /\ Done(w, s)
    BY <1>3, WorkerDoes
  <2>2. /\ CoverageTypeOK' /\ \A q \in Producers : InRounds(q)'
        /\ \A v \in Handlers : Holds(v)'
        /\ Alone' /\ \A t \in Segments : Recorded(t)'
    BY <2>1, WorkerKeeps
  <2> QED
    BY <1>3, <2>2, WorkerLoad DEF CoverageInv, Bound
<1>4. CASE UNCHANGED coverageVars
  <2>1. UNCHANGED <<producer, clipJob, backlog, hand, analysed, telemetry, snapshot, mishaps>>
    BY <1>4 DEF coverageVars
  <2>2. CoverageTypeOK' /\ Alone' /\ IsFiniteSet(backlog')
    BY <2>1 DEF CoverageInv, CoverageTypeOK, Alone, Busy
  <2>3. /\ \A p \in Producers : InRounds(p)'
        /\ \A w \in Handlers : Holds(w)'
        /\ \A s \in Segments : Recorded(s)'
    BY <2>1 DEF CoverageInv, InRounds, Segment, Holds, Recorded, Fresh
  <2>4. Load' <= Bound
    BY <2>1 DEF CoverageInv, Load, Depth, Filming, Awaited, Carrying
  <2> QED
    BY <2>2, <2>3, <2>4 DEF CoverageInv, Bound
<1> QED
  BY <1>1, <1>2, <1>3, <1>4, DropKeeps

(* The invariant holds whatever the producers and the workers do.          *)
THEOREM CoverageInvariant == CoverageSpec => []CoverageInv
  BY InvariantStarts, InvariantKept, PTL DEF CoverageSpec

(* capture.py and worker.py leave only rows and jobs of the declared       *)
(* kinds.                                                                  *)
THEOREM CoverageTypeCorrect == CoverageSpec => []CoverageTypeOK
<1>1. CoverageInv => CoverageTypeOK
  BY DEF CoverageInv
<1> QED
  BY <1>1, CoverageInvariant, PTL

(* The back-pressure of capture_once, which reads the depth before the     *)
(* segment and not when it is sent, lets the backlog pass its limit by no  *)
(* more than the number of producers and workers.                          *)
THEOREM BacklogStaysBounded == CoverageSpec => []BacklogBounded
<1>1. CoverageInv => BacklogBounded
  BY LoadParts, Limits DEF CoverageInv, Load, Bound, BacklogBounded
<1> QED
  BY <1>1, CoverageInvariant, PTL

(* What worker.py and record_coverage write of a clip is what its analysis *)
(* came to, in spite of retries, deaths and a message delivered again.     *)
THEOREM CoverageIsMeasured == CoverageSpec => []CoverageFollowsAnalysis
<1>1. CoverageInv => CoverageFollowsAnalysis
  <2> SUFFICES ASSUME CoverageInv, NEW s \in Segments
               PROVE  /\ snapshot[s] = "available" \/ telemetry[s] = "detector" => s \in analysed
                      /\ /\ clipJob[s] = [stage |-> LastStage, state |-> "completed"]
                         /\ s \notin backlog \cup mishaps.on
                         => snapshot[s] = "available"
    BY DEF CoverageFollowsAnalysis
  <2>1. Recorded(s)
    BY DEF CoverageInv
  <2>2. \A w \in Handlers : hand[w].seg = s /\ hand[w].pc \in {"observe", "cover"} => s \in backlog
    BY DEF CoverageInv, Holds
  <2> QED
    BY <2>1, <2>2 DEF Recorded
<1> QED
  BY <1>1, CoverageInvariant, PTL

-----------------------------------------------------------------------------
(* The three parts side by side: none touches what belongs to another.     *)
LEMMA PartsOfVideo == Spec => ReanalysisSpec /\ AssetSpec /\ CoverageSpec
<1>1. Init => ReanalysisInit /\ AssetInit /\ CoverageInit
  BY DEF Init
<1>2. [Next]_<<allVars, assetVars, coverageVars, part>>
        => [ReanalysisNext]_allVars /\ [AssetNext]_assetVars /\ [CoverageNext]_coverageVars
  BY DEF Next
<1> QED
  BY <1>1, <1>2, PTL DEF Spec, ReanalysisSpec, AssetSpec, CoverageSpec

(* The three parts keep the shape of their state while the others work:    *)
(* analyses and their jobs, what is stored of the clips, and the capture.  *)
THEOREM VideoClipsTypeCorrect == Spec => []VideoClipsTypeOK
<1>1. ReanalysisTypeOK /\ AssetTypeOK /\ CoverageTypeOK => VideoClipsTypeOK
  BY DEF VideoClipsTypeOK
<1> QED
  BY <1>1, PartsOfVideo, ReanalysisTypeCorrect, AssetTypeCorrect, CoverageTypeCorrect, PTL

=============================================================================
