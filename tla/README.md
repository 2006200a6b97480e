# Verification of the crime-prediction platform

TLA+ models of the stateful core of this repository, the TLC runs that check
them on small instances, and TLAPS proofs of the properties that matter most.
Paths are relative to the repository root; `PROJECT.json` maps every definition
to the lines it models and lists runs, mutants, findings, hazards and theorems.

This directory holds

| modules | what they are |
| --- | --- |
| `DispatchRepository`, `DispatchCoordinator`, `Escalation` | one dispatch case: its rows and compare-and-swap methods; the processes that use them; the abstract ladder they implement |
| `DispatchDelivery` | the coordinator composed with the queue, the worker loop and the webhooks that keep a case moving |
| `VideoJobs`, `JobChain` | the durable upload / index / analyze jobs, their workers and their broker; the abstract chain of stages they implement |
| `VideoAssets` | what is stored of a clip from its upload to the end of its retention |
| `LiveCoverage` | live capture against its back-pressure, and the coverage recorded of each clip |
| `Idempotency` | the reservation every mutation of the API runs in; extended by the next two and by `ModelRegistry` |
| `CandidateReview`, `Reanalysis` | the review of a detection; fresh analysis of a failed clip |
| `ResponseContacts` | the response directory of a zone and the authorization of cases from it |
| `ModelRegistry` | approval, roll-back and use of forecast models over shared files |
| `IncidentHistory` | resumable ingestion of incidents |
| `DispatchSafetyProofs`, `DispatchLadderProofs` | theorems about the coordinator |
| `DispatchDeliveryProofs` | theorems about the delivery composed with it |
| `VideoJobsProofs` | theorems about the jobs |
| `IdempotencyProofs` | theorems about the reservation and any action; extended by the next three |
| `VideoClipsProofs` | theorems about `Reanalysis`, `VideoAssets` and `LiveCoverage` |
| `ApiProofs` | theorems about `CandidateReview` and `ResponseContacts` |
| `DataProofs` | theorems about `IncidentHistory` and `ModelRegistry` |
| `MC*` and `*.cfg` | the small instances TLC checks |

Check a run with `tlc -config DispatchCalls.cfg MCDispatchCalls` and the
proofs of a module with `tlapm DispatchSafetyProofs.tla`.

## 1. Inventory

The repository is a platform that turns consented camera clips and incident
feeds into reviewed events, aggregates them into features and a forecast, and
lets an authorized human have a responder called by telephone.

| component (code) | state it keeps | operations | hard behaviours | what makes it correct |
| --- | --- | --- | --- | --- |
| Dispatch repository (`src/data/dispatch/repository.py`, `postgres.py`, `models.py`) | case, up to three call attempts, a provider-submission claim per attempt, deduplicated events | create, reserve, claim, finish, expire, bind, apply_transition, append_event | two stores that must agree; compare-and-swap on two versions | one live attempt; case and attempts agree; a bound call reference never changes |
| Dispatch coordinator (`service.py`) | none between calls: it acts on rows it read | dispatch_next, handle_status / gather / amd / voice, cancel, mark_delivery_exhausted | many transactions per operation; callbacks late, repeated, reordered, before the call returns; crashes; claim deadlines | one call per attempt, the ladder order, final outcomes, honoured presses |
| Dispatch queue and worker (`broker.py`, `worker.py`) | SQS messages, receive counts | enqueue, receive, acknowledge, release; poll_once | at-least-once, capped delays, redrive, crashes | a due case always has a message; each case settles or leaves a dead letter |
| Dispatch API (`src/api/dispatch_application.py`, `dispatch.py`) | daily quota, idempotency key per request | authorize, webhooks, reschedule, cancel | crash between commit and enqueue; quota check outside the insert | an accepted authorization is eventually dispatched |
| Twilio (`twilio.py`) | external | place_call | accepted although the request failed | a repeated call only after a certain failure |
| Response directory (`directory.py`, `secrets.py`, `dispatch_application.py`, migration 009) | a row and a secret per contact, cases of the day | create, patch, delete, authorize, resolve | row and secret in two stores, changed in turn; a commit whose answer is lost; read-modify-write of whole rows; a quota counted elsewhere | whoever a case names can be dialled, at the number that is shown, which the provider's own check lets through |
| Video job worker and store (`src/data/video/worker.py`, `store.py`, `postgres.py`) | `video_processing_jobs` rows, leases | enqueue, claim, heartbeat, transition, dead letter, chain | duplicate deliveries, lost leases, crashes at every step, unfenced transitions | one executor per job, order of the chain, nothing run twice, every run ends |
| Video broker (`src/data/video/broker.py`) | SQS queues, or a PostgreSQL table in the demo | publish, receive, retry, acknowledge, dead_letter | as above | no message lost |
| Video service (`src/data/video/service.py`) | assets, objects, remote mapping, candidates, reviews | accept_upload, _execute, review_candidate, expire_due_candidates, enforce_retention, request_reanalysis | check-then-act on quota, status and review; whole-row writes of old reads; the same clip again; failures between object, row and remote copy | one promoted event per confirmed review; a row tells what is stored; deleted media leave no copy |
| Live capture (`capture.py`, `live.py`, `cli.py`, threads of `src/api/app.py`) | segments in flight | capture_once, one capture per request | back-pressure read before the segment, sent after it; captures that never read it | bounded backlog |
| Coverage (`coverage.py`, `worker.py`, `record_coverage`) | one telemetry row and one snapshot per clip | observe, record | rows written by three parties, between the end of a job and its acknowledgement | coverage is what was analysed, never assumed |
| API idempotency and audit (`src/api/state.py`) | a record per key, audit rows | reserve, act, complete, give back | crash or failure between action and record; concurrent repetitions | one run per key; what was answered stands |
| API security (`security.py`, `tenancy.py`) | rate-limit buckets, active tenant | authenticate, limit | - | tenant isolation |
| Incident ingestion (`src/data/service.py`, `store.py`, `postgres.py`, `adapters/replay.py`) | events, checkpoint, quarantine, run records | ingest_replay | four transactions per line, overlapping runs, failures and crashes between any two, a lost answer of the store | nothing skipped, nothing good diverted, true counts |
| Features (`src/features`) | none | rolling windows | boundary comparisons | no future information |
| Model registry (`src/models/registry.py`, `operational.py`, `src/api/forecasting.py`) | one state file per tenant, artifacts, models in memory | promote, rollback, train, infer, publish | several processes, one file, one name for its temporary copy; roll-back lets go of the lock; caches | approvals form one history; forecasts come from approved artifacts |
| Splits, calibration, training (`src/models`) | none | pure numerics | - | chronological splits, monotone calibration |
| Web console (`src/web`) | browser state | - | - | not modelled |

Interactions: the API writes a dispatch case and enqueues it; the worker
receives the message and runs the coordinator, which writes the repository and
calls Twilio; Twilio's webhooks come back through the API into the coordinator
and may enqueue again. The API stores a clip and enqueues its upload job; video
workers run the operations of the video service and enqueue the next one; a
reviewed candidate is promoted into the incident store, from which features and
forecasts are built.

The hazards this code is exposed to, each at its line and with the property
that watches it, are listed under `hazards` in `PROJECT.json`. They are what the
properties below were chosen for.

## 2. Plan

Most important first: calling a person too often, or not at all, is the worst
this system can do; losing a clip's processing comes next; then what reviewers,
operators and the forecast are told.

| order | module | state |
| --- | --- | --- |
| 1 | `DispatchRepository`, `DispatchCoordinator`, refinement of `Escalation` | modelled, checked, proved |
| 2 | `DispatchDelivery` (composes 1 with queue, worker, webhooks) | modelled, checked, its safety proved |
| 3 | `VideoJobs` (job table, SQS or Postgres broker, worker), refinement of `JobChain` | modelled, checked, its safety and the refinement proved |
| 4 | `Idempotency`, and over it `CandidateReview` and `Reanalysis` | modelled, checked, proved |
| 5 | `ResponseContacts` (directory, authorization, quota) | modelled, checked, proved |
| 6 | `VideoAssets` (upload, retention, delete job, remote copies, quota) | modelled, checked, proved |
| 7 | `LiveCoverage` (capture, back-pressure, coverage) | modelled, checked, proved |
| 8 | `IncidentHistory`, `ModelRegistry` | modelled, checked, proved |

A theorem still worth proving: how far a stale copy may take a clip back in
`VideoAssets`.

## 3. The models

### DispatchRepository

One case stands for all: cases share no row. Its variables are the rows: `case`
(status, `next_attempt_at`, `attempt_count`, version), `attempts`, `submission`
(the provider-submission claim), `seen` (events already recorded, which is what
deduplicates callbacks). Each operator that primes a variable is one method, a
critical section of the in-memory store and one transaction of the PostgreSQL
store; a caller passes the rows it read earlier, and the method compares
versions. The two stores differ where it shows: PostgreSQL keeps only a hash of
the provider's call reference. `Durable` says which is meant.

Contact names, reasons, request fingerprints, event payloads and hashes are left
out: no property tells them apart.

### DispatchCoordinator

The processes are `Workers` (dispatch_next; members of `Exhausters` may also run
mark_delivery_exhausted), `Handlers` (webhook requests) and `Operators` (cancel
requests). Each has a program counter and the rows it read (`case`, `att`), so
an action is one transaction or one provider call of the method, and any other
process may act between two actions. A process that dies is one that never takes
its next step: no fairness is assumed here, so every safety result covers a
crash at every point.

External: `calls` counts the calls Twilio accepted (`place_call` may be refused,
accepted, or accepted although the request failed) and `line` the callbacks
Twilio may send for an accepted call, in any order and any number of times.
`clock` is a discrete time with the two deadlines the code compares with: the
retry delay and the claim time-out. The contact directory may fail at any
lookup. PostgreSQL's resolve_callback reads case and attempt with two SELECTs;
what could be torn between them is caught by the compare of both versions, so
the model reads them together.

### Escalation

The abstract promise: climb a ladder of three rungs, the next only when the call
on the last went unanswered; one call per rung; one outcome, which only a late
human answer may change. `ClimbsTheLadder` is its specification under the
mapping in `DispatchCoordinator` (rung = `attempt_count`, dialled = the
provider's count, outcome = the closed status).

### DispatchDelivery

Composes the coordinator with SQS messages (`queue`), the worker's poll_once
(`job`, `exhausting`) and the API: authorize's enqueue, and `_schedule`, which a
webhook request runs after the coordinator returned (`scheduling`). A message is
hidden while it is held or delayed; a delay is capped (`MaxDelay`, 900 s in SQS);
a delivery more than the queue's redrive policy allows moves it to the
dead-letter queue; a worker that dies loses its place and the message returns.

One timing assumption (`Waiting`): no time passes while a worker or a webhook is
between two database steps; a call to the provider may take as long as it likes.
Slow steps of every kind are in the runs of `DispatchCoordinator`, whose clock is
free.

### VideoJobs

One asset (jobs of different assets share nothing), its three jobs, and its
messages. A worker's `pc` walks through `_handle`: look, claim, run the
operation, then finish, acknowledge, enqueue and publish the successor; or
transition to retry and give the message back; or fail, spoil the asset, mark,
dead-letter. Every store or broker call is a step of its own. The catch-all
`except Exception` is `Defect`: any exception in the `try` fails the job,
whoever runs it. An exception inside an `except` handler, and the death of the
process, are `CrashWorker`. The heartbeat thread appears as `RenewalFails` and
`LeaseLost`, which is how it can influence `_handle`.

The deployment has one of two brokers (`Brokers`, chosen in the initial state).
SQS takes a message for every publication, counts deliveries, and moves a message
delivered too often to the dead-letter queue; a stale receipt may still settle a
message. The demo's PostgresJobBroker has one row per job, which a publication
queues again; the row bears the receipt of its last delivery (`holder`), without
which acknowledging, retrying and dead-lettering do nothing; nobody limits the
deliveries.

Delays are flags (`due`, `late`) that time clears: what matters is that a job or
a message is not ready yet, never for how long. Every upload request accepts the
same clip: accept_upload derives the asset from its checksum, resets the status
to `ready` and enqueues a job that may already exist.

What a re-analysis, a deletion and a detector's row add to this is in the next
modules, each with the chain of jobs reduced to what touches its own state.

### JobChain

The abstract promise: three stages, opened once and in order, the second only
when a copy is recorded and the third only when the index was seen complete; each
begun a limited number of times and by one executor at a time; at most one copy
of the clip sent for each attempt, and none once one is recorded. Whoever
executes a stage lets go of it: completed, failed, for another attempt if there
is one left, or leaving it as it is when it dies. Anybody's unexpected error may
`Break` a stage, also a completed one. `RunsTheChain` is its specification under
the mapping in `VideoJobs` (stage = the job's state, queued and retry being one;
begun = `attempts`; busy = the operations some worker executes; copies, recorded,
indexed = `remote`). Rows, messages, receipts, leases and requests are gone.

### Idempotency

`PostgresIdempotencyStore.execute`: reserve (INSERT ... ON CONFLICT DO NOTHING),
look at the row, act, complete, or delete the reservation after an exception.
Each is a transaction, so requests with one key interleave between any two;
`DatabaseFails` is an error of one of them; when recording the result fails, the
reservation is given up, unless the transaction was committed and only its answer
lost: then the except branch deletes nothing, because it deletes a running row
only, the client gets an error, and a repetition the recorded result. `ProcessDies`
leaves the record `running` for good. A module that extends this one supplies the
action between `act` and `Succeed` or `Fail`. A request is an execution: the
client's retry is another request with the same key and body.

### CandidateReview

One candidate, its review, the promoted event, and the requests that review it.
The handler looks the candidate up before the reservation (`Find`); the service
then reads review, candidate and clock (`Look`, `Decide`) and stores review,
decision and event in one transaction (`Write`), which the unique constraint and
the foreign key may refuse. Against it: `PutCandidate` (an analysis), the demo
clean-up `DeletePendingCandidates`, and the expiry sweep, which writes back the
whole copy it listed (`ListDue`, `WriteExpired`).

### Reanalysis

One clip whose analysis failed, and requests to analyse it again:
`CheckTarget`, `CheckRelated`, `Enqueue` (the two unique keys of the job table),
`Touch`, `Publish`, `Audit`, inside the reservation, against workers that claim
any published job, and against the clip's deletion. A job is named by the key of
the request that made it, as `request_reanalysis` derives it.

### ResponseContacts

Rows and secrets of a zone's contacts, cases of one day, clients with one request
each. A patch reads the row in one transaction and updates all of its columns in
another; the secret is changed before the row and put back when the row is not
changed. `authorize` resolves the directory twice, looks for the key's case,
counts the day's cases, and creates the case under the trigger and foreign keys
of migration 009. A worker reads the row (`LookUp`) and then has the number
dialled (`PlaceCall`), which the provider resolves and checks against the
deployment's allowlist once more. Every store's error may hide that its write was
done: after such an answer to the row's insertion or update the `except` branches
take the number of a row that is there away, or put the old number back under the
new mask and consent. Four variables are history: which contacts were changed by
requests that overlapped or broke off (`upset`), whose commit was answered by an
error (`unsure`), who was at rest and could not be called (`barred`), and how many
quotas were counted while another case was being made (`hasty`). They let a
property say exactly what the code does not exclude.

### VideoAssets

Clips are named by their content, so a clip that comes again meets its own row,
object, mapping and jobs. `Measure` .. `EnqueueChain` are accept_upload and the
handler's undo; `FetchClip` .. `WriteRow` the worker's chain: `SendClip` gives the
clip to the provider and `MapClip` stores the identifier it answered, in a
transaction of its own, and update_asset_status reads the row in one transaction
and writes all of it in another; `ListExpired` .. `SweepEnds` are
enforce_retention with the delete job. Storage, provider and database may fail,
and each process may die, between any two steps (`UploadDies`, `WorkerDies`,
`SweepDies`). A copy at the provider that no mapping names is `stray`: nobody can
delete it. A worker that dies leaves its job running or failed, and nobody takes
it up again, which `VideoJobs` shows; what a retried job does is there too.
`met`, `excess` and `undone` are history: who worked on a clip while a sweep had
listed it, the bytes that races have let past the quota, objects that a failed
second upload took away.

### LiveCoverage

A producer is a camera's worker (`CaptureOnce` reads the depth; then record,
accept, publish, observe) or one capture of the API, which never reads it. A
video worker's `hand` is what it is about to do with one clip: run, record the
detector's row and the coverage, then acknowledge, release or bury the message,
and only then publish the next operation. `backlog` is the set of segments with a
message in a queue. Mishaps are failures of cameras, uploads, provider and
database and deaths of processes. Telemetry rows of both writers have one key, so
the later write replaces the earlier. A clip's message has one holder here: what
two holders of one job do is the matter of `VideoJobs`. A clip shorter than a
second is refused by record_coverage after its analysis completed
(`CoverageRefused`).

### IncidentHistory

A run reads the line after its own position, stores it or quarantines it, then
sets the checkpoint, whatever another run set it to; each is a transaction.
`sqlite` says which store it is: SQLite's insertion is tried `MaxAttempts` times
and then taken for a bad record, PostgreSQL's fails the run and may have been
done all the same. So may any other transaction that is answered by an error: a
line put aside, a checkpoint set, a run's record finished, which the `except`
branch then writes over. A run counts in local variables (`inserted`, `repeated`,
`refused`); its record has them only after `Conclude` (`report`), and the record of
a run that died says `running` and reports nothing. A count is the set of lines it
counts, so that the counts of several runs can be compared.

### ModelRegistry

`main` and `temp` are registry-state.json and its temporary copy; a lock excludes
the threads of one process. `promote` verifies the files by their checksums
(`VerifyModel`), opens them again to load the model (`LoadModel`), freezes the
manifest's checksum into a new approval (`Freeze`), then opens, fills and
renames the temporary file (`OpenTemp`, `FillTemp`, `Replace`): the handle of
another process follows the file (`Moved`). `rollback` chooses under the lock, lets
go, and promotes. `Train` writes artifacts before their manifest, in the same
place as before, and takes no lock: it may write between a verification and the
reading after it (`raced`). A process keeps loaded models in memory. For every row
of a batch inference takes the latest approval and verifies it against the frozen
checksum; then it uses what it has in memory (`InferCached`), or loads it (`Choose`,
`Infer`). `PublishBatch` stores the batch. A process that dies loses all it does
and has in memory, whether a request of its is under way or not.

## 4. Runs

`expect pass`:

| run | question | instance |
| --- | --- | --- |
| `DispatchCalls` | two workers race on one message, both may exhaust it, a claim expires, a call is accepted late; or a lone worker climbs through every end of a call and every press: is a responder called twice for one attempt, is the outcome final, is the ladder climbed rung by rung? `CallOncePerAttempt`, `OneActiveAttempt`, `RetryOnlyCertainFailure`, `ClosedCaseIsFinal`, refinement `ClimbsTheLadder` | race: 2 workers (symmetric), 1 webhook, ends of calls, one refused call an attempt, clock to 1; ladder: 1 worker, 1 webhook, 5 callback values, clock to 2 (two scheduled retries) |
| `DispatchCancel` | an operator cancels while two webhook requests apply reordered and repeated callbacks, in the in-memory store: `TypeOK`, `CaseMatchesAttempts`, `AttemptMovesForward` | 1 worker, 2 webhooks, 1 operator, a stopped clock |
| `DispatchDelivery` | one crash of the worker, full delivery loop: `DeliveryTypeOK`, `NoDueCaseForgotten`, and under fairness `EnqueuedCaseSettles` | 3 messages, exhaustion at the 2nd delivery |
| `DispatchRequeue` | repeated authorization and callbacks, capped delays, dying webhooks: `QuietBetweenRungs` | 4 messages, one refused call an attempt, retry delay longer than `MaxDelay` |
| `VideoJobs` | duplicates, exceptions, crash or lost visibility: `VideoTypeOK`, `OneExecutor`, `ChainInOrder`, refinement `RunsTheChain`, under fairness `RunSettles` | both brokers, 2 workers, 2 uploads, 4 messages, 1 trouble |
| `Api` | part "review": does what was answered stand, once per key? `OneRunPerKey`, `RepeatsAgree`, `OutcomeFollowsReview`, `AnsweredReviewStands`. Part "contacts": can every case be dialled, where, and how many are there? `CaseCanBeDialled`, `MaskTellsNumber`, `CallIsLetThrough`, `DailyQuota`. `ApiTypeOK` | a review, its repetition, another decision under its key, another reviewer, 1 trouble, 1 analysis, 1 clean-up or sweep; 3 contacts, 3 numbers, 2 incidents, 3 clients, 12 requests to choose from, quota 1, 1 outage |
| `VideoClips` | part "reanalysis": one analysis at a time, and none that was answered is forgotten: `OneActiveAnalysis`, `AnsweredReanalysisRuns`. Part "assets": `QuotaKept`, `RowTellsMedia`. Part "coverage": `BacklogBounded`, `CoverageFollowsAnalysis`. `VideoClipsTypeOK` | 4 requests on 3 keys, one of them about a repeated analysis; 2 clips, 2 uploads, quota for one or both, 2 sweeps, 1 fault; 1 camera of 3 segments, 1 capture shorter than a second, 1 video worker, limit 1, 1 mishap |
| `Data` | part "history": `NothingSkipped`, `GoodEventsKept`, `CountsAgree`. Part "models": `ApprovalsFormHistory`, `AnsweredApprovalStands`, `PublishedModelApproved`. `DataTypeOK` | 2 runs over 5 lines (new, no object, repeated, other content, from the future), 2 attempts, 3 failures; 2 promotions with one key and a roll-back in 2 processes, 2 versions, 1 training, 1 batch, 1 trouble |

`expect violation`, each one finding (section 6): `DispatchLostEnd`,
`VideoRestart`, `VideoOrphan` (part "assets" of the instance of `VideoClips`), `ModelState`.

`DispatchCalls` explores two instances from two kinds of initial state
(`MCDispatchCalls`): all workers are up and race, or all but one are `off` and stay
so. The action constraint `RacingOrClimbing` keeps the race within one unit of time
and calls that just end, and the lone worker from calls the provider refuses, which
the race has.

`MCApi`, `MCVideo` and `MCData` hold parts that share no variable. A behaviour is
about the one `part` names, the others rest in their initial state, so a run
explores the parts one after the other and its size is their sum; this is not a
composition. The compositions are `DispatchDelivery` with the coordinator,
`CandidateReview`, `Reanalysis` and `ModelRegistry` with the reservation, and
within `ResponseContacts`, `VideoAssets` and `LiveCoverage` those of their
parties.

Bounds and why they are enough:

- Three attempts is the code's own number, not a bound. Two workers suffice for
  a race on one claim: a third is just another loser of the same conditional
  update. The proofs of section 5 do without these bounds.
- `MaxTime` of the dispatch runs counts units of the retry delay and the claim
  time-out (both 1): 1 lets a claim expire or a retry fall due, 2 lets two retries
  fall due, 5 and 12 let the whole ladder run through with capped delays.
- `MaxVersion` ends the repetition of refused submissions: no further refusal once
  the attempt's row is that old; 3 allows one refusal of each attempt
  (`DispatchCalls`, `DispatchRequeue`), 2 allows none, in the other dispatch runs.
- `ExhaustAt` and `MaxDeliveries` are both 5 in the code and in the
  CloudFormation template and 2 here: equal, as there, which is what lets a
  crash at the last delivery end in the dead-letter queue. The video queues' 5 /
  20 / 5 against 5 / 20 / 5 attempts are 2 / 2 / 2 against 2 / 2 / 1.
- `Messages` is large enough that no request is ever kept from sending: that is
  part of `DeliveryTypeOK` and `VideoTypeOK`.
- `MaxRequests`, `MaxCrashes`, `MaxUploads`, `MaxTrouble`, `MaxOutages`,
  `MaxFaults`, `MaxMishaps`, `MaxFailures` bound how often what nobody controls
  happens. One failure already falls between any two steps of any party;
  `IncidentHistory` takes three, as giving a line up needs two and a crash after
  it one more.
- `MaxAnalyses`, `MaxSessions`, `MaxSweeps`, `MaxTrainings`, `MaxBatches` bound the
  background steps. Two sweeps are needed for a deletion that is taken up again.
- Two versions and two approvals at the start let a roll-back restore the version
  that a promotion replaces at the same time; three would repeat the same steps.
  The backlog's bound counts every capture of the API there is, also those that are
  over, so it is looser than what is in flight. `Rounds` is 3, for a gap, a segment on the way and one after it; the theorem
  about the backlog is for every number.
- Symmetry sets are permutations of processes or requests the instance treats
  alike, and are used with safety properties only.

`CHECK_DEADLOCK FALSE` is in every configuration because a finished case, a
settled clip with an empty queue, or an answered request really is the end.

Each property of a passing run is paired with a mutant: the operator defined
just before the real one (for instance `CanClaimExpired` before
`CanClaim`), a plausible bug under which TLC finds that property violated.

### Fairness

The safety runs assume none; those of `Api`, `VideoClips` and `Data` need none.
`FairDeliverySpec`: a worker goes on polling and
working (WF; `cli.py` loops for ever and the container restarts), a webhook
request that has begun goes on (WF), SQS redrives and time passes (WF), and
Twilio reports the end of an accepted call once (SF, as the request may have to
wait for a free handler). No press, repeated callback or repeated authorization
is assumed. `FairVideoSpec`: workers poll and go on, back-offs end, SQS redrives,
the API's request goes on (all WF). Nobody has to upload, and no failure has to
stop: it runs out of attempts or deliveries.

`RunSettles` is about a run whose first message was sent: when the API dies
between storing the job and publishing it (`CrashApi`), only a repeated upload
publishes again. It names its own exceptions. `ChainCut`: a crash between the end of a
job and the publication of its successor cuts the chain, since the message is
acknowledged first (`worker.py:279`). `Refused`: with the Postgres broker, a crash
while a job runs leaves a message that is delivered and refused for ever; SQS
moves it to the dead-letter queue. `VideoRestart` shows that crash.

## 5. Proofs

Every theorem is about all values of the constants that satisfy the named
assumptions of the modules (`...Assumption`), which TLC evaluates in the runs:
any workers, requests, operators, messages, clips, any delays and quotas, and
either store or broker where there are two. What an assumption says is what the
code or its configuration does: that "nobody" is not the name of a worker, that a
job has at least one attempt, that the directory a deployment starts with has
consent only for approved numbers, that the approvals it starts with are linked.
`CoverageAssumption` takes the producers to be finitely many, as the bound counts
them. One theorem has a hypothesis of its own, which is below.

Most invariants are not inductive: what a step makes true was prepared by an
earlier step of the same actor, and every other actor may have moved in between.
Each inductive invariant below adds what an actor knows at each place of its
program. TLC agrees with each on the instances of section 4. The longer
proofs first show what each action does in the invariant's words (a `Kind` or
`Deed`), and then take one conjunct at a time over these few kinds.

**Dispatch.**

- `DispatchSafetyProofs`: `TypeCorrect` (`Spec => []TypeOK`), `DispatchInvariant`,
  `OneCallPerAttempt`, `ClosedStaysClosed`, `RetriesAreSafe`.
  Whether a second call can happen depends on what a worker between claim and
  `place_call` believes. `DispatchInv` adds, besides types,
  - `RowInv`: an attempt beyond `attempt_count` is unreserved and unclaimed, a
    pending claim has no call, and a bound reference is one of the provider's
    calls, of which there is at most one;
  - `SnapshotInv`: every process read a case that is either the current one or
    older (`Fresh`), that was open for workers and operators (`Live`), and an
    attempt that exists (`Known`) and whose call was placed (`Placed`);
  - `HolderInv` and `OneHolder`: a worker between its claim and the write that
    ends it holds that claim alone, no call has been placed before it dials, and
    the reference it is about to bind is of a call that was.

  `ClosedCaseIsFinal` follows because every write is a compare-and-swap on the
  version, and a process about to write read the case open, or handles a press on
  an unacknowledged case; `RetryOnlyCertainFailure` because only a refused call
  leads to the hand-back and its holder is unique.
- `DispatchLadderProofs`: `LadderInvariant`, `OneLiveAttempt` and
  `ImplementsLadder` (`Spec => ClimbsTheLadder`, the refinement). `LadderInv`
  adds `RungInv` (below its last rung a case has only dialled rungs that are no
  longer live, and unanswered ones while it is open) and `ReadInv` / `Paired` (as
  long as the case has not moved, the attempt a webhook or an operator read is
  still the row). Every action is then one action of `Escalation` or a stutter.
  `RowsInvariant`, `CaseAlwaysMatchesAttempts`, `AttemptsMoveForward`: that the two
  rows agree needs the same of the workers (`WorkerReads`), which write the
  attempt they read several steps before, and that a bound attempt is no longer
  claimed (`CallRow`).
- `DispatchDeliveryProofs`: `DeliveryImplementsCoordinator` (`DeliverySpec =>
  Spec`), from which everything proved of the coordinator holds of the
  composition (`DeliveryKeepsPromises`); `DeliveryInvariant`,
  `DeliveryShapeCorrect`, `QuietAlwaysBetweenRungs`, and `NothingDueForgotten`.
  That a due case has a message is not inductive, since a worker may be about to
  acknowledge the only one there is. `DueInv` therefore asks for a message that
  somebody will still act on (`Carries`: not held by a worker that is past caring,
  `Spent`), and to keep it one has to know that a message has one holder
  (`HeldOnce`), that a call on the line leaves the case with no time to be due
  and an uncertain submission closes it (`LineInv`), and that no worker acts on a
  time that has not come (`TimeInv`). `NothingDueForgotten` assumes
  `~ WebhookCrashes`, the value the run has: with it the code does forget (section
  6). The other theorems do without.

**Video.**

- `VideoJobsProofs`: `VideoInvariant`, `VideoTypeCorrect`, `OneExecutorAlways`,
  `ChainInOrderAlways`, `UploadedOnceAlways`, `NoExtraRunAlways`. A message gives
  nobody the right to a job: while a worker executes, the row is running, or was
  failed under it (`PlaceInv`), and neither can be claimed; once a job is over
  nobody executes it (`Over`), which a worker that goes on to publish the next
  operation knows of its own. `DeliveriesInv` says that only enqueued jobs are
  published. `UploadedOnce` and `NoExtraRun` (a recorded clip is not sent again, a
  finished job not run again) are no longer checked by a run of their own:
  `JobChain` allows no step that breaks them, and the run checks `RunsTheChain`.
  `ImplementsChain` (`VideoSpec => RunsTheChain`) is the refinement. What a step
  does to jobs, executors and the remote copy is first said without messages:
  it opens, begins, sends, records, looks, lets go, breaks, or is `Calm`
  (`ChainStep`; a crash, a lost lease and a defect are among them). `CopyInv`
  then says for which attempt a copy is sent: there are never more than attempts,
  and fewer while a worker may still send one; it is inductive over these kinds
  alone, and each kind is one action of `JobChain` or a stutter
  (`ChainStepRefines`).
- `VideoClipsProofs`: of `Reanalysis` `ReanalysisInvariant`,
  `ReanalysisTypeCorrect`, `OneActiveAnalysisAlways`,
  `AnsweredReanalysisAlwaysRuns`: a request that broke off past its enqueueing has
  left the job, one that is about to record an answer has its message too, and so
  has a completed key (`RunsInv`). Of `VideoAssets` `AssetInvariant`,
  `AssetTypeCorrect`, `RowAlwaysTellsMedia`: besides the property, for each clip
  that nobody worked on while a sweep had listed it, an upload or a worker that
  counts on the object finds it (`Counted`), and the sweep's steps know what they
  have already deleted (`ClipInv`); and `RemoteInv` says what the worker and the sweep
  know of the copy that the mapping names. Of a copy no mapping names nothing can be
  proved: `VideoOrphan` shows one left behind. `QuotaAlwaysKept` needs `QuotaInv`:
  the clips held and those on their way together (`Charged`) are within the quota
  and the `excess`, because an upload is either measured alone, against all the rows
  there are, or adds its clip to the excess. The bytes held are counted as a
  set (`Bytes`: of each clip as many elements as it has bytes), so that one clip
  more adds at most its size (`OneMoreClip`) and fewer clips have no more
  (`FewerClips`) by the laws of cardinality.
  Of `LiveCoverage` `CoverageInvariant`, `CoverageTypeCorrect`,
  `BacklogStaysBounded`, `CoverageIsMeasured`. The bound is that of a `Load`:
  messages sent, segments a camera has begun, captures not yet over, and workers
  that owe a message. A camera begins only when the depth is below the limit;
  every other step moves a part of the load or takes it off. Coverage needs
  that only the holder of a clip's message changes its job (`Alone`, `Holds`):
  what the holder is about to record then goes with the job's state, and no
  producer touches a job that was accepted before (`Fresh`).

**API.**

- `IdempotencyProofs`: `ReservationInvariant`, `OneRunOfAnyAction`,
  `RepeatsOfAnyAction`. `ReservationSpec` is `Idempotency` with the action left
  open: a request may take any steps between `act` and its end, and any number of
  requests may die at once. A request between its reservation and its result owns
  the row (`Entitled`); only a running row is completed or deleted, and only by its
  owner (`RowsStay`), so a key runs once at a time and the answer that was recorded
  is that of every repetition. `ReviewUsesReservation`,
  `ReanalysisUsesReservation` and `RegistryUsesReservation` show, each with the
  invariant of its own module, that the review, the re-analysis and promotion and
  roll-back are such specifications; so both properties hold of all three
  (`OneRunPerKeyAlways`, `RepeatsAlwaysAgree`, `ReanalysisKeepsKeys`,
  `RegistryKeepsKeys`), though the run `Api` checks them of the review only.
- `ApiProofs`: of `CandidateReview` `ReviewInvariant`, `ReviewTypeCorrect`,
  `ReviewUsesReservation`, `OneRunPerKeyAlways`, `RepeatsAlwaysAgree`,
  `OutcomeAlwaysFollowsReview`, `AnsweredReviewAlwaysStands`. A request inside its
  action owns the reservation (`HoldInv`); a request at its write has checked
  expiry and source (`OutcomeInv`); a recorded or answered result is that of the
  stored review and is audited (`AnswerInv`, `RecordInv`), which is what a
  repetition answers from. Of `ResponseContacts` `ContactInvariant`, `ContactTypeCorrect`,
  `CaseCanAlwaysBeDialled`, `MaskAlwaysTellsNumber`, `CallAlwaysLetThrough`,
  `DailyQuotaAlways`. A secret without a row belongs to one request, which creates
  or deletes the contact (`SecretInv`); a contact that is neither `upset` nor
  `unsure` is changed by at most one request, and number, consent and row are then
  what that request's place says (`Midway`, `RestInv`); a clean call is of an
  approved number that nobody is replacing (`DialInv`); and the day's cases and the
  requests that have counted and will make their key's first case are within the
  quota and `hasty` (`QuotaInv`).

**Data.**

- `DataProofs`: of `IncidentHistory` `HistoryInvariant`, `HistoryTypeCorrect`,
  `NoLineLost`, `GoodEventsNotDiverted`, `CountsTellTheTruth`. `NothingSkipped` is
  not inductive, since the checkpoint is set to where a run stands and may go
  back. `HistoryInv` adds for each run where it stands between the checkpoint it
  read and the end (`Placed`), that all up to there is covered (`Behind`), why it
  quarantines the line it is at (`Reason`) and which lines it has counted
  (`Tally`), and that its record has these counts once it is finished and none
  before (`Reported`); and that an event not counted by anybody is the one at which
  a run broke off (`Told`). Of `ModelRegistry` `RegistryInvariant`,
  `RegistryTypeCorrect`, `HistoryOfApprovalsAlways`,
  `AnsweredApprovalAlwaysStands`, `PublishedModelAlwaysApproved`: the changes and
  readings of one process exclude each other, and those of all processes while nobody
  `crossed` (`LockInv`); until then the file a change renames into place is the
  old history and one approval more (`Continues`), and what is logged, recorded or
  answered is in it (`StepInv`). A model being loaded is of the generation that was
  verified, and a forecast was made with it, unless training has written since
  (`FreshInv`, which needs no word about `crossed`).

The attempt to prove `ApprovalsFormHistory` corrected it. It used to say of every
roll-back, also when processes had written at once, that it restored the version
before the approval it saw; with five requests in two processes TLC finds one that
saw it in a history another process has since replaced. It now says this only
while nobody `crossed`; that whatever can be read is linked, it says of all
histories.

**Whole runs.** `ApiTypeCorrect`, `VideoClipsTypeCorrect` and `DataTypeCorrect` are
about the modules `MCApi`, `MCVideo` and `MCData`, which put parts side by side: every
behaviour of such a module is one of each of its parts' own specifications
(`PartsOfApi`, `PartsOfVideo`, `PartsOfData`), a part that rests taking stuttering
steps. So what is proved of a part is proved of what the run checks.

Only model-checked:

- Liveness, which is beyond this prover: `EnqueuedCaseSettles`, `RunSettles`, and
  the two violated `EndedCallEscalates` and `RunSurvivesRestart`.
- The last conjuncts of `VideoTypeOK` and `DeliveryTypeOK`. They say that the run's
  message places suffice, which is no property of the code and not true for every
  value of `Messages`; the rest, `VideoShape` and `DeliveryShape`, is proved.

## 6. Disagreements found

| run | what happens | what is promised |
| --- | --- | --- |
| `DispatchLostEnd` | a status callback commits between the read and the write of the end of a call: compare-and-swap fails, the webhook answers 409, nothing reschedules, the ladder stops | `docs/REVIEW3_TWO_PERSON_PLAN.md:306` |
| `VideoRestart` | a worker dies with a job running: the message comes back (for ever with the demo's Postgres broker, which the run has; until it is dead-lettered with SQS) and is refused; recover_stale_jobs has no caller outside a test | `docs/DEMO.md:93` |
| `VideoOrphan` | the worker dies, or the database fails, between the provider's answer and the storing of the mapping: the sweep finds no mapping, skips the provider, marks the clip deleted and completes the delete job; nothing is left that would retry | `docs/REKA_AI.md:118` |
| `ModelState` | two processes write the registry's state through one temporary file: the rename of the first moves the half-written file of the second into place | `src/models/registry.py:82` |

Other statements the code does not keep, met while modelling. The first four are
defined as properties in the modules, for whoever changes the code; no run checks
them:

- `PressIsHonoured` (`DispatchCoordinator`): the conflict of `DispatchLostEnd` loses
  a press as well (`docs/REVIEW3_TWO_PERSON_PLAN.md:198`).
- `NoCallAfterAcknowledgement` (`DispatchCoordinator`): a late press on an earlier
  attempt acknowledges the case after the next attempt was claimed, and that one
  is dialled all the same (same, `:307`).
- `NoDueCaseForgotten` with `WebhookCrashes`: when the API dies between committing
  a callback and enqueueing the next attempt (`dispatch_application.py:785`), or a
  new case (`:600`), nobody looks for the due case (same, `:234`).
- `OptOutHolds` (`ResponseContacts`): a patch of another column writes back the
  consent it read before, and undoes an opt-out answered in between
  (`dispatch_application.py:312`).
- A contact's row is committed and the answer lost: the `except` branch removes the
  number of a row that is there (`dispatch_application.py:249`), or puts the old
  number back under the new mask and consent (`:352`), by which an unapproved number
  may come to consent. The provider checks the number again (`twilio.py:243`) and
  refuses it, at every retry. The properties of `ResponseContacts` except such
  contacts (`unsure`).
- Training writes between the verification and the reading of a model
  (`registry.py:169` and `:181`): a generation that was never approved is loaded and
  its forecasts published. `PublishedModelApproved` excepts them (`raced`), as it
  does those of an older generation in memory.
- A gap or a failed capture writes no coverage snapshot, so the ratio the
  forecast is weighted with stays that of the last analysed clip
  (`docs/TEAM_PLAN.md:36` has it fail closed).
- A clip shorter than a second completes its analysis and then fails its job,
  as the coverage's interval is empty (`worker.py:404`).
- The capture worker's own telemetry row, written after the message is sent, may
  replace the one a video worker recorded meanwhile (`capture.py:376`).

`OneExecutor` holds because nobody calls recover_stale_jobs: transition_job
compares neither worker nor lease, so a caller that returned a live but slow
worker's job to retry would need a fence as well.

## 7. Not modelled

- MOCK-mode simulated callbacks, TwiML, webhook signatures, HTTP schemas.
- Malformed video messages, the single-process SQLite mode of the job store and
  its broker, the extension of an exhausted index job's attempts (met
  only by rows an earlier release left behind).
- In `VideoJobs`, the details of an exception raised while an exhausted index job
  is recorded as failed: the model lets the process die there.
- Camera, ffmpeg, object storage, Reka's HTTP: I/O without state of their own;
  where they matter they are nondeterministic outcomes. Registration of sources
  and listings change nothing the properties tell apart.
- Token verification, rate limiting and tenancy: cryptography, one counter under
  one lock, one check in one transaction. Every model is of one tenant.
- Feature windows, chronological splits, calibration, training and evaluation:
  definitions without steps over timestamps and floating point. What training
  writes to disk, and in which order, is in `ModelRegistry`.
- The aggregation of observations into a measured snapshot (`coverage.py`), which
  only tests call.
- The web console: browser state over the same routes.
