--------------------------- MODULE ModelRegistry ---------------------------
(***************************************************************************)
(* One tenant's approved models: FilesystemApprovedModelRegistry           *)
(* (src/models/registry.py) on files that the API's processes share, the   *)
(* handlers promote_model and rollback_model (src/api/app.py) inside their *)
(* idempotency reservation, the training that writes a model's artifacts   *)
(* (src/models/pipeline.py), and the inference that publishes forecasts by *)
(* the approved model (src/api/forecasting.py, src/models/operational.py). *)
(*                                                                         *)
(* A lock excludes the threads of one process only, and training is a      *)
(* process of its own.  A model's artifacts are told apart by their        *)
(* generation: training the same data again writes the same version in the *)
(* same place.  _load verifies the files first, and then reads them again. *)
(***************************************************************************)
EXTENDS Idempotency, Sequences, FiniteSets

CONSTANTS
  Approvers,       \* the requests that promote a model or roll back
  Processes,
  Schedulers,      \* the processes that compute forecasts
  ProcessOf,       \* such a request -> the process that serves it
  Versions, NoVersion,
  Rollback,        \* stands for a request to roll back
  Wanted,          \* body -> the version to promote, or Rollback
  Approvals,       \* the approvals at the start
  Torn, NoFile,    \* a file that is not written yet, and no file
  BatchSize,       \* the cells of a forecast batch
  MaxTrainings, MaxBatches  \* bounds

(* seen: how many approvals there were when a roll-back chose its version. *)
Approval(version, manifest, previous, by, seen) ==
  [version |-> version, manifest |-> manifest, previous |-> previous, by |-> by, seen |-> seen]
ApprovalRecords ==
  [version: Versions, manifest: Nat, previous: Versions \cup {NoVersion},
   by: Approvers \cup {NoRequest}, seen: Nat]
Linked(approvals) ==
  \A k \in DOMAIN approvals :
    approvals[k].previous = IF k = 1 THEN NoVersion ELSE approvals[k - 1].version

ASSUME RegistryAssumption ==
  /\ Approvers \subseteq Requests
  /\ ProcessOf \in [Approvers -> Processes] /\ Schedulers \subseteq Processes
  /\ NoVersion \notin Versions /\ Rollback \notin Versions
  /\ \A r \in Approvers : Wanted[BodyOf[r]] \in Versions \cup {Rollback}
  /\ Approvals \in Seq(ApprovalRecords) /\ Linked(Approvals)
  /\ \A k \in DOMAIN Approvals : Approvals[k].by = NoRequest
  /\ Torn \notin Seq(ApprovalRecords) /\ NoFile \notin Seq(ApprovalRecords)
  /\ BatchSize \in Nat \ {0} /\ {MaxTrainings, MaxBatches} \subseteq Nat

VARIABLES
  main, temp,  \* registry-state.json and registry-state.tmp
  disk,        \* version -> the generation of its artifacts and of their manifest
  cache,       \* process -> version -> the generation it has loaded, or 0
  change,      \* request -> the change it makes
  reading,     \* process -> the approved model that inference is loading
  batch,       \* process -> the forecasts it is computing
  published,   \* the forecasts of the window
  logged,      \* requests with an entry in the audit log
  spent,       \* trainings and batches so far
  crossed      \* history: have two processes been changing the file at once?

inferenceVars == <<reading, batch, published>>
registryVars == <<main, temp, disk, cache, change, inferenceVars, logged, spent, crossed>>

\* raced: training wrote anew what was loaded, after it was verified or cached.
NoModel == [version |-> NoVersion, frozen |-> 0, raced |-> FALSE]
NoChange == [version |-> NoVersion, seen |-> 0, new |-> <<>>, handle |-> "none"]

RegistryInit ==
  /\ IdempotencyInit
  /\ main = Approvals /\ temp = NoFile
  /\ disk = [v \in Versions |-> [artifacts |-> 1, manifest |-> 1]]
  /\ cache = [p \in Processes |-> [v \in Versions |-> 0]]
  /\ change = [r \in Approvers |-> NoChange]
  /\ reading = [p \in Processes |-> NoModel]
  /\ batch = [p \in Schedulers |-> <<>>]
  /\ published = <<>>
  /\ logged = {}
  /\ spent = [trainings |-> 0, batches |-> 0]
  /\ crossed = FALSE

Latest == main[Len(main)]
Locked == {"load", "read", "freeze", "open", "fill", "replace"}
Changes(p) == \E r \in Approvers : ProcessOf[r] = p /\ calls[r].pc \in Locked
Free(p) == ~ Changes(p) /\ reading[p] = NoModel

(* _load refuses artifacts that are not the manifest's; what was loaded    *)
(* before is used again.  The files of two trainings may not fit together. *)
Verified(v) == disk[v].artifacts = disk[v].manifest
Cached(p, v) == cache[p][v] # 0
Load(p, v) == cache' = [cache EXCEPT ![p][v] = disk[v].artifacts]

Quit(r, answer) == Fail(r, answer) /\ change' = [change EXCEPT ![r] = NoChange]

-----------------------------------------------------------------------------
(* rollback looks up the version under the lock, and lets go of it.        *)
LookBack(r) ==
  /\ At(r, "act") /\ Wanted[BodyOf[r]] = Rollback /\ Free(ProcessOf[r])
  /\ IF main = Torn THEN Quit(r, "error")
     ELSE IF Len(main) < 2 \/ Latest.previous = NoVersion THEN Quit(r, "refused")
     ELSE /\ change' = [change EXCEPT ![r] = [NoChange EXCEPT !.version = Latest.previous,
                                                              !.seen = Len(main)]]
          /\ Become(r, "promote")
  /\ UNCHANGED <<records, trouble, main, temp, disk, cache, inferenceVars, logged, spent,
                 crossed>>

(* promote: a version, or what rollback has found.                         *)
Promote(r) ==
  /\ Free(ProcessOf[r])
  /\ \/ /\ At(r, "act") /\ Wanted[BodyOf[r]] # Rollback
        /\ change' = [change EXCEPT ![r] = [NoChange EXCEPT !.version = Wanted[BodyOf[r]]]]
     \/ At(r, "promote") /\ UNCHANGED change
  /\ Become(r, "load")
  /\ crossed' = (crossed \/ \E p \in Processes : Changes(p))
  /\ UNCHANGED <<records, trouble, main, temp, disk, cache, inferenceVars, logged, spent>>

VerifyModel(r) ==
  /\ At(r, "load")
  /\ IF Verified(change[r].version)
     THEN /\ Become(r, IF Cached(ProcessOf[r], change[r].version) THEN "freeze" ELSE "read")
          /\ UNCHANGED change
     ELSE Quit(r, "refused")
  /\ UNCHANGED <<records, trouble, main, temp, disk, cache, inferenceVars, logged, spent,
                 crossed>>
LoadModel(r) ==
  /\ At(r, "read")
  /\ \/ Load(ProcessOf[r], change[r].version) /\ Become(r, "freeze") /\ UNCHANGED change
     \/ ~ Verified(change[r].version) /\ Quit(r, "refused") /\ UNCHANGED cache
  /\ UNCHANGED <<records, trouble, main, temp, disk, inferenceVars, logged, spent,
                 crossed>>

(* Mutant of Freeze: the previous version is the one before the active one.*)
FreezeEarlier(r) ==
  LET v == change[r].version
      last == Len(main) IN
  /\ At(r, "freeze")
  /\ change' = [change EXCEPT ![r].new =
       Append(main, Approval(v, disk[v].manifest, main[last].previous, r, change[r].seen))]
  /\ Become(r, "open")
  /\ UNCHANGED <<records, trouble, main, temp, disk, cache, inferenceVars, logged, spent,
                 crossed>>

(* The manifest's checksum, and the state with one approval more.          *)
Freeze(r) ==
  LET v == change[r].version
      previous == IF main = <<>> THEN NoVersion ELSE Latest.version IN
  /\ At(r, "freeze")
  /\ IF main = Torn THEN Quit(r, "error")
     ELSE /\ change' = [change EXCEPT ![r].new =
               Append(main, Approval(v, disk[v].manifest, previous, r, change[r].seen))]
          /\ Become(r, "open")
  /\ UNCHANGED <<records, trouble, main, temp, disk, cache, inferenceVars, logged, spent,
                 crossed>>

(* _write_state: the name of the temporary file is always the same; it is  *)
(* opened, which empties it, written, and takes the state file's place,    *)
(* whoever has it open.                                                    *)
OpenTemp(r) ==
  /\ At(r, "open")
  /\ temp' = Torn
  /\ change' = [change EXCEPT ![r].handle = "temp"]
  /\ Become(r, "fill")
  /\ UNCHANGED <<records, trouble, main, disk, cache, inferenceVars, logged, spent,
                 crossed>>
FillTemp(r) ==
  /\ At(r, "fill")
  /\ temp' = IF change[r].handle = "temp" THEN change[r].new ELSE temp
  /\ main' = IF change[r].handle = "main" THEN change[r].new ELSE main
  /\ Become(r, "replace")
  /\ UNCHANGED <<records, trouble, disk, cache, change, inferenceVars, logged, spent,
                 crossed>>
Moved(handle) == CASE handle = "temp" -> "main" [] handle = "main" -> "none" [] OTHER -> handle
Replace(r) ==
  /\ At(r, "replace")
  /\ IF temp = NoFile THEN Quit(r, "error") /\ UNCHANGED <<main, temp>>
     ELSE /\ main' = temp /\ temp' = NoFile
          /\ change' = [s \in Approvers |->
               IF s = r THEN NoChange ELSE [change[s] EXCEPT !.handle = Moved(@)]]
          /\ Become(r, "log")
  /\ UNCHANGED <<records, trouble, disk, cache, inferenceVars, logged, spent, crossed>>

(* Mutant of LogApproval: a failure to record the entry is passed over.    *)
LogPerhaps(r) ==
  /\ At(r, "log")
  /\ logged' \in {logged, logged \cup {r}}
  /\ Succeed(r, r)
  /\ UNCHANGED <<records, trouble, main, temp, disk, cache, change, inferenceVars, spent,
                 crossed>>

LogApproval(r) ==
  /\ At(r, "log")
  /\ logged' = logged \cup {r}
  /\ Succeed(r, r)
  /\ UNCHANGED <<records, trouble, main, temp, disk, cache, change, inferenceVars, spent,
                 crossed>>

Arriving(r) == At(r, "new") /\ Become(r, "reserve") /\ UNCHANGED <<records, trouble>>

StorageFails(r) ==
  /\ calls[r].pc \in {"open", "fill", "replace"}
  /\ Trouble
  /\ Quit(r, "error")
  /\ UNCHANGED <<records, main, temp, disk, cache, inferenceVars, logged, spent,
                 crossed>>

(* All that a process does and has in memory ends.                         *)
RegistryProcessDies(p) ==
  LET alive == {r \in Approvers : ProcessOf[r] = p /\ calls[r].pc \notin {"new", "done", "dead"}} IN
  /\ Trouble
  /\ calls' = [r \in Requests |-> IF r \in alive THEN [calls[r] EXCEPT !.pc = "dead"] ELSE calls[r]]
  /\ change' = [r \in Approvers |-> IF r \in alive THEN NoChange ELSE change[r]]
  /\ cache' = [cache EXCEPT ![p] = [v \in Versions |-> 0]]
  /\ reading' = [reading EXCEPT ![p] = NoModel]
  /\ batch' = [q \in Schedulers |-> IF q = p THEN <<>> ELSE batch[q]]
  /\ UNCHANGED <<records, main, temp, disk, published, logged, spent, crossed>>

-----------------------------------------------------------------------------
(* The pipeline writes the artifacts first, and then their manifest.       *)
Train(v) ==
  /\ spent.trainings < MaxTrainings
  /\ spent' = [spent EXCEPT !.trainings = @ + 1]
  /\ disk' = [disk EXCEPT ![v].artifacts = @ + 1]
  /\ reading' = [p \in Processes |->
       IF reading[p].version = v THEN [reading[p] EXCEPT !.raced = TRUE] ELSE reading[p]]
  /\ UNCHANGED <<idempotencyVars, main, temp, cache, change, batch, published, logged, crossed>>
WriteManifest(v) ==
  /\ ~ Verified(v)
  /\ disk' = [disk EXCEPT ![v].manifest = disk[v].artifacts]
  /\ UNCHANGED <<idempotencyVars, main, temp, cache, change, inferenceVars, logged,
                 spent, crossed>>

(* A forecast of the batch: approved_for, asked for every row, takes the   *)
(* latest approval and wants the manifest that was frozen with it.         *)
MayInfer(p) ==
  /\ Free(p) /\ Len(batch[p]) < BatchSize /\ spent.batches < MaxBatches
  /\ main \notin {Torn, <<>>}
StillApproved(version) ==
  Verified(version) /\ disk[version].manifest = Latest.manifest
Forecast(p, model, loaded) ==
  batch' = [batch EXCEPT ![p] =
    Append(@, [version |-> model.version, frozen |-> model.frozen, loaded |-> loaded,
               raced |-> model.raced])]
Active(raced) == [version |-> Latest.version, frozen |-> Latest.manifest, raced |-> raced]

InferCached(p) ==
  LET v == Latest.version IN
  /\ MayInfer(p) /\ StillApproved(v) /\ Cached(p, v)
  /\ Forecast(p, Active(cache[p][v] # disk[v].artifacts), cache[p][v])
  /\ UNCHANGED <<idempotencyVars, main, temp, disk, cache, change, reading, published,
                 logged, spent, crossed>>

(* Mutant of Choose: the approval's checksum is not compared.              *)
ChooseUnchecked(p) ==
  /\ MayInfer(p) /\ Verified(Latest.version) /\ ~ Cached(p, Latest.version)
  /\ reading' = [reading EXCEPT ![p] = Active(FALSE)]
  /\ UNCHANGED <<idempotencyVars, main, temp, disk, cache, change, batch, published,
                 logged, spent, crossed>>

(* Nothing is cached: the files are verified, and then read again.         *)
Choose(p) ==
  /\ MayInfer(p) /\ StillApproved(Latest.version) /\ ~ Cached(p, Latest.version)
  /\ reading' = [reading EXCEPT ![p] = Active(FALSE)]
  /\ UNCHANGED <<idempotencyVars, main, temp, disk, cache, change, batch, published,
                 logged, spent, crossed>>
Infer(p) ==
  /\ reading[p] # NoModel
  /\ Load(p, reading[p].version)
  /\ Forecast(p, reading[p], disk[reading[p].version].artifacts)
  /\ reading' = [reading EXCEPT ![p] = NoModel]
  /\ UNCHANGED <<idempotencyVars, main, temp, disk, change, published, logged, spent,
                 crossed>>
(* Otherwise approved_for raises an error, and the batch is given up.      *)
InferFails(p) ==
  /\ \/ Free(p) /\ batch[p] # <<>> /\ (main # Torn => ~ StillApproved(Latest.version))
     \/ reading[p] # NoModel /\ ~ Verified(reading[p].version)
  /\ reading' = [reading EXCEPT ![p] = NoModel]
  /\ batch' = [batch EXCEPT ![p] = <<>>]
  /\ spent' = [spent EXCEPT !.batches = @ + 1]
  /\ UNCHANGED <<idempotencyVars, main, temp, disk, cache, change, published, logged,
                 crossed>>
(* publish: the batch is stored in one transaction, in place of another.   *)
PublishBatch(p) ==
  /\ Len(batch[p]) = BatchSize
  /\ published' = batch[p]
  /\ batch' = [batch EXCEPT ![p] = <<>>]
  /\ spent' = [spent EXCEPT !.batches = @ + 1]
  /\ UNCHANGED <<idempotencyVars, main, temp, disk, cache, change, reading, logged,
                 crossed>>

RegistryRequest(r) ==
  \/ LookBack(r) \/ Promote(r) \/ VerifyModel(r) \/ LoadModel(r) \/ Freeze(r)
  \/ OpenTemp(r) \/ FillTemp(r) \/ Replace(r) \/ LogApproval(r)
  \/ StorageFails(r)
  \/ (Arriving(r) \/ Execute(r) \/ DatabaseFails(r, {"log"})) /\ UNCHANGED registryVars

RegistryNext ==
  \/ \E r \in Approvers : RegistryRequest(r)
  \/ \E p \in Processes : RegistryProcessDies(p)
  \/ \E p \in Schedulers :
       InferCached(p) \/ Choose(p) \/ Infer(p) \/ InferFails(p) \/ PublishBatch(p)
  \/ \E v \in Versions : Train(v) \/ WriteManifest(v)

RegistrySpec == RegistryInit /\ [][RegistryNext]_<<idempotencyVars, registryVars>>

-----------------------------------------------------------------------------
(* Properties                                                              *)

(* The shape of the state.                                                 *)
RegistryTypeOK ==
  /\ main = Torn \/ main \in Seq(ApprovalRecords)
  /\ temp \in {Torn, NoFile} \/ temp \in Seq(ApprovalRecords)
  /\ disk \in [Versions -> [artifacts: Nat, manifest: Nat]]
  /\ cache \in [Processes -> [Versions -> Nat]]
  /\ reading \in [Processes -> [version: Versions \cup {NoVersion}, frozen: Nat, raced: BOOLEAN]]
  /\ \A p \in Schedulers : Len(batch[p]) <= BatchSize
  /\ Len(published) \in {0, BatchSize}
  /\ logged \subseteq Approvers
  /\ crossed \in BOOLEAN

(* The state file is whole unless two processes wrote it at once; whatever *)
(* can be read is a history in which every approval names the one before   *)
(* it (promote).  As long as nobody wrote at once, a roll-back has restored*)
(* what was active before the approval it saw, unless another change came  *)
(* between (rollback).                                                     *)
ApprovalsFormHistory ==
  /\ ~ crossed => main # Torn
  /\ main # Torn => Linked(main)
  /\ ~ crossed =>
       \A k \in DOMAIN main : \A r \in Approvers :
         main[k].by = r /\ Wanted[BodyOf[r]] = Rollback /\ main[k].seen = k - 1 =>
           main[k].version = main[k - 1].previous

(* An approval that was answered is in the state and in the audit log,     *)
(* whatever failed or was retried, unless two processes wrote at once.     *)
AnsweredApprovalStands ==
  ~ crossed =>
    \A r \in Approvers :
      calls[r].answer = "ok" =>
        /\ \E k \in DOMAIN main : main[k].by = calls[r].result
        /\ calls[r].result \in logged

(* What is published was computed by an approved model whose artifacts are *)
(* those of the manifest frozen at its approval, whatever was trained,     *)
(* promoted or rolled back meanwhile, except a forecast whose process had  *)
(* kept in memory what training has since replaced, or for which training  *)
(* wrote just between the verification and the reading that follows it     *)
(* (_load holds no lock that training takes).                              *)
PublishedModelApproved ==
  /\ ~ crossed =>
       \A k \in DOMAIN published : \E j \in DOMAIN main :
         main[j].version = published[k].version /\ main[j].manifest = published[k].frozen
  /\ \A k \in DOMAIN published :
       published[k].raced \/ published[k].loaded = published[k].frozen

(* "Atomic approval state": whatever the processes do, there is an         *)
(* approval state to read.                                                 *)
StateStaysWhole == main # Torn

=============================================================================
