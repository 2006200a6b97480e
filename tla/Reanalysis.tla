----------------------------- MODULE Reanalysis -----------------------------
(***************************************************************************)
(* Fresh analysis of a clip whose analysis failed: the API handler         *)
(* reanalyze_ingestion_run (src/api/app.py) inside its idempotency         *)
(* reservation, request_reanalysis (src/data/video/service.py), the unique *)
(* keys of the job table (postgres.py, migration 008) and the worker that  *)
(* runs what was published.                                                *)
(*                                                                         *)
(* The clip's upload and index are complete and its first analysis failed  *)
(* (VideoJobs says how).  A worker is reduced to what it does to a job and *)
(* to the asset's status; it may take any published job that is queued.    *)
(***************************************************************************)
EXTENDS Idempotency, FiniteSets

CONSTANTS
  Chain,           \* the analysis that failed
  TargetOf         \* request -> the failed job it names

Analyses == {Chain} \cup Keys
NoJob == "none"

(* The payload names the job, and so does the operation the key belongs to.*)
ASSUME ReanalysisAssumption ==
  /\ Chain \notin Keys
  /\ TargetOf \in [Requests -> Analyses]
  /\ BodyOf = TargetOf
  /\ \A r, s \in Requests : KeyOf[r] = KeyOf[s] => TargetOf[r] = TargetOf[s]

VARIABLES
  jobs,      \* analysis -> its row's state and, for created_at, its number
  sent,      \* the analyses whose message was published
  asset,     \* the asset's status
  media,     \* is the stored clip there?
  worker     \* analysis -> the write a worker still owes

jobVars == <<jobs, sent, asset, media, worker>>
allVars == <<idempotencyVars, jobVars>>

Active == {"queued", "running"}
Final == {"completed", "failed"}
ActiveJobs == {j \in Analyses : jobs[j].state \in Active}

ReanalysisInit ==
  /\ IdempotencyInit
  /\ jobs = [j \in Analyses |-> IF j = Chain THEN [state |-> "failed", made |-> 1]
                                ELSE [state |-> NoJob, made |-> 0]]
  /\ sent = {Chain}
  /\ asset = "failed"
  /\ media = TRUE
  /\ worker = [j \in Analyses |-> "none"]

Made == Cardinality({j \in Analyses : jobs[j].state # NoJob})
Related(r) == {j \in Analyses \ {TargetOf[r]} : jobs[j].state # NoJob}

-----------------------------------------------------------------------------
(* The request.                                                            *)

Start(r) ==
  /\ At(r, "new")
  /\ Become(r, "reserve")
  /\ UNCHANGED <<records, trouble, jobVars>>

(* get_job, get_asset: a final failed analysis of a clip that is kept.     *)
CheckTarget(r) ==
  /\ At(r, "act")
  /\ IF jobs[TargetOf[r]].state = "failed" /\ asset # "deleted"
     THEN Become(r, "related") ELSE Fail(r, "not_allowed")
  /\ UNCHANGED <<records, trouble, jobVars>>

(* list_jobs: no analysis is active, and no newer one has completed.       *)
CheckRelated(r) ==
  /\ At(r, "related")
  /\ IF Related(r) \cap ActiveJobs # {} THEN Fail(r, "in_progress")
     ELSE IF \E j \in Related(r) : /\ jobs[j].state = "completed"
                                   /\ jobs[j].made > jobs[TargetOf[r]].made
          THEN Fail(r, "already_completed") ELSE Become(r, "enqueue")
  /\ UNCHANGED <<records, trouble, jobVars>>

(* Mutant of Enqueue: without the index of migration 008.                  *)
EnqueueUnchecked(r) ==
  LET j == KeyOf[r] IN
  /\ At(r, "enqueue")
  /\ jobs' = IF jobs[j].state = NoJob
             THEN [jobs EXCEPT ![j] = [state |-> "queued", made |-> Made + 1]] ELSE jobs
  /\ Become(r, "touch")
  /\ UNCHANGED <<records, trouble, sent, asset, media, worker>>

(* enqueue: INSERT ... ON CONFLICT DO NOTHING, on the key or on the index  *)
(* that admits one active analysis; then the row with this key, if any.    *)
Enqueue(r) ==
  LET j == KeyOf[r] IN
  /\ At(r, "enqueue")
  /\ IF jobs[j].state # NoJob THEN Become(r, "touch") /\ UNCHANGED jobs
     ELSE IF ActiveJobs # {} THEN Fail(r, "job_conflict") /\ UNCHANGED jobs
     ELSE /\ jobs' = [jobs EXCEPT ![j] = [state |-> "queued", made |-> Made + 1]]
          /\ Become(r, "touch")
  /\ UNCHANGED <<records, trouble, sent, asset, media, worker>>

Touch(r) ==
  /\ At(r, "touch")
  /\ asset' = "processing"
  /\ Become(r, "publish")
  /\ UNCHANGED <<records, trouble, jobs, sent, media, worker>>

(* Mutant of Publish: a failure to publish is passed over.                 *)
PublishPerhaps(r) ==
  /\ At(r, "publish")
  /\ sent' \in {sent, sent \cup {KeyOf[r]}}
  /\ Become(r, "audit")
  /\ UNCHANGED <<records, trouble, jobs, asset, media, worker>>

Publish(r) ==
  /\ At(r, "publish")
  /\ sent' = sent \cup {KeyOf[r]}
  /\ Become(r, "audit")
  /\ UNCHANGED <<records, trouble, jobs, asset, media, worker>>

Audit(r) ==
  /\ At(r, "audit")
  /\ Succeed(r, r)
  /\ UNCHANGED <<records, trouble, jobVars>>

InAction == {"act", "related", "enqueue", "touch", "publish", "audit"}

Request(r) ==
  \/ Start(r) \/ CheckTarget(r) \/ CheckRelated(r) \/ Enqueue(r) \/ Touch(r)
  \/ Publish(r) \/ Audit(r)
  \/ Execute(r) /\ UNCHANGED jobVars
RequestFault(r) ==
  (DatabaseFails(r, InAction) \/ ProcessDies(r)) /\ UNCHANGED jobVars

-----------------------------------------------------------------------------
(* The worker: the analysis writes the asset and then the job; a failure   *)
(* the job and then the asset.                                             *)

Claim(j) ==
  /\ j \in sent
  /\ jobs[j].state = "queued"
  /\ jobs' = [jobs EXCEPT ![j].state = "running"]
  /\ UNCHANGED <<idempotencyVars, sent, asset, media, worker>>
Analyze(j) ==
  /\ jobs[j].state = "running" /\ worker[j] = "none"
  /\ media
  /\ asset' = "processed"
  /\ worker' = [worker EXCEPT ![j] = "finish"]
  /\ UNCHANGED <<idempotencyVars, jobs, sent, media>>
Finish(j) ==
  /\ worker[j] = "finish"
  /\ jobs' = [jobs EXCEPT ![j].state = "completed"]
  /\ worker' = [worker EXCEPT ![j] = "none"]
  /\ UNCHANGED <<idempotencyVars, sent, asset, media>>
AnalysisFails(j) ==
  /\ jobs[j].state = "running" /\ worker[j] = "none"
  /\ jobs' = [jobs EXCEPT ![j].state = "failed"]
  /\ worker' = [worker EXCEPT ![j] = "spoil"]
  /\ UNCHANGED <<idempotencyVars, sent, asset, media>>
SpoilAsset(j) ==
  /\ worker[j] = "spoil"
  /\ asset' = "failed"
  /\ worker' = [worker EXCEPT ![j] = "none"]
  /\ UNCHANGED <<idempotencyVars, jobs, sent, media>>

(* Retention deletes the clip.                                             *)
DeleteClip ==
  /\ media
  /\ media' = FALSE
  /\ asset' = "deleted"
  /\ UNCHANGED <<idempotencyVars, jobs, sent, worker>>

ReanalysisNext ==
  \/ \E r \in Requests : Request(r) \/ RequestFault(r)
  \/ \E j \in Analyses : Claim(j) \/ Analyze(j) \/ Finish(j) \/ AnalysisFails(j) \/ SpoilAsset(j)
  \/ DeleteClip

ReanalysisSpec == ReanalysisInit /\ [][ReanalysisNext]_allVars

-----------------------------------------------------------------------------
(* Properties                                                              *)

(* The shape of the state.                                                 *)
ReanalysisTypeOK ==
  /\ jobs \in [Analyses -> [state: {NoJob} \cup Active \cup Final, made: Nat]]
  /\ sent \subseteq Analyses
  /\ asset \in {"failed", "processing", "processed", "deleted"}
  /\ media \in BOOLEAN
  /\ worker \in [Analyses -> {"none", "finish", "spoil"}]

(* However many requests see no active analysis, one clip never has two    *)
(* (the unique index of migration 008 behind enqueue), and only that one   *)
(* is being executed.                                                      *)
OneActiveAnalysis ==
  /\ \A i, j \in ActiveJobs : i = j
  /\ \A j \in Analyses : worker[j] = "finish" => j \in ActiveJobs

(* A request that is told its analysis is under way has a job with a       *)
(* message, also when it repeats a request that failed half-way: what was  *)
(* answered is run without anybody's further help.                         *)
AnsweredReanalysisRuns ==
  \A r \in Requests :
    calls[r].answer = "ok" => KeyOf[r] \in sent /\ jobs[KeyOf[r]].state # NoJob

=============================================================================
