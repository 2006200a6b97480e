----------------------------- MODULE VideoJobs -----------------------------
(***************************************************************************)
(* The durable video jobs: src/data/video/worker.py over the job table     *)
(* (postgres.py, and its SQLite twin store.py), the SQS broker and the     *)
(* demo's broker in Postgres (broker.py; one row per job, receipts, no     *)
(* redrive), and the operations of service.py (_execute).  One asset: its upload     *)
(* enqueues an upload job, a finished upload an index job, a finished      *)
(* index an analyze job.  Assets share no job, so one stands for all.      *)
(*                                                                         *)
(* A worker handles a delivery in many transactions and calls; between two *)
(* of them other workers act, or it dies.  The video provider and SQS are  *)
(* external: an upload may be accepted although the call failed, and a     *)
(* message may come back while somebody still holds it.                    *)
(***************************************************************************)
EXTENDS Integers

CONSTANTS
  Workers,
  NoWorker,        \* the owner of a job nobody runs
  Messages,        \* bound: messages ever sent, 1..n
  MaxAttempts,     \* operation -> its job's max_attempts
  Brokers,         \* the brokers a deployment may have: "sqs", "postgres"
  MaxReceives,     \* the SQS queues' redrive policy
  MaxUploads,      \* bound: upload requests for the asset
  MaxTrouble       \* bound: crashes, messages that come back while they are
                   \* held, and unexpected exceptions

Operations == {"upload", "index", "analyze"}
Final == {"completed", "failed"}
Claimable == {"queued", "retry"}

ASSUME VideoAssumption ==
  /\ NoWorker \notin Workers
  /\ Messages \in SUBSET Nat
  /\ MaxAttempts \in [Operations -> Nat \ {0}]
  /\ Brokers \subseteq {"sqs", "postgres"}
  /\ {MaxReceives, MaxUploads, MaxTrouble} \subseteq Nat

VARIABLES
  jobs,       \* operation -> the asset's video_processing_jobs row
  asset,      \* the asset's status
  remote,     \* what the provider has, and the mapping row that says so
  queue,      \* message -> its operation, state, deliveries, whether it waits,
              \* and in Postgres the worker whose receipt it bears
  worker,     \* worker -> the delivery it handles and how far it is
  api,        \* the upload request under way
  env         \* the deployment's broker; how much of the bounds is used up;
              \* has anybody crashed?

videoVars == <<jobs, asset, remote, queue, worker, api, env>>

NoJob == [state |-> "none", attempts |-> 0, due |-> TRUE, owner |-> NoWorker,
          dead |-> FALSE]
NoMessage == [state |-> "unsent", op |-> "upload", count |-> 0, late |-> FALSE,
              holder |-> NoWorker]
IdleWorker == [pc |-> "idle", msg |-> 0, op |-> "upload"]

VideoInit ==
  /\ jobs = [op \in Operations |-> NoJob]
  /\ asset = "ready"
  /\ remote = [copies |-> 0, mapped |-> FALSE, index |-> "pending"]
  /\ queue = [m \in Messages |-> NoMessage]
  /\ worker = [w \in Workers |-> IdleWorker]
  /\ api = "idle"
  /\ env \in [broker: Brokers, uploads: {0}, trouble: {0}, crashed: {FALSE}]

-----------------------------------------------------------------------------
(* The job table.                                                          *)

(* enqueue: the idempotency key is the operation, an existing job stays.   *)
EnqueueJob(op) ==
  jobs' = [jobs EXCEPT ![op] =
             IF @.state = "none" THEN [NoJob EXCEPT !.state = "queued"] ELSE @]

(* transition_job: whoever calls it, whatever the job's state.             *)
Transition(op, state) ==
  jobs' = [jobs EXCEPT ![op].state = state, ![op].due = (state # "retry"),
                       ![op].owner = NoWorker]

(* Mutant of CanClaim: a job somebody runs is taken.                       *)
CanClaimRunning(op) == /\ jobs[op].state \in Claimable \cup {"running"}
                       /\ jobs[op].due
                       /\ jobs[op].attempts < MaxAttempts[op]

CanClaim(op) == /\ jobs[op].state \in Claimable
                /\ jobs[op].due
                /\ jobs[op].attempts < MaxAttempts[op]

-----------------------------------------------------------------------------
(* The broker.                                                             *)

Postgres == env.broker = "postgres"
RowOf(op, m) == queue[m].op = op /\ queue[m].state # "unsent"
NextUnsent(m) == /\ queue[m].state = "unsent"
                 /\ \A n \in Messages : queue[n].state = "unsent" => m <= n

(* SQS takes one more message.  Postgres has one row for a job: it is      *)
(* queued again, whoever holds it, unless it is a dead letter.             *)
Send(op) ==
  \E m \in Messages :
    /\ IF Postgres /\ \E n \in Messages : RowOf(op, n) THEN RowOf(op, m) ELSE NextUnsent(m)
    /\ queue' = [queue EXCEPT ![m] =
                   IF @.state = "dead" THEN @
                   ELSE [NoMessage EXCEPT !.state = "waiting", !.op = op]]

(* Can w still settle its message?  In SQS until the message is in no      *)
(* queue, in Postgres as long as the row bears w's receipt.                *)
Holds(w) == LET msg == queue[worker[w].msg] IN
  IF Postgres THEN msg.holder = w ELSE msg.state \in {"held", "waiting"}

Put(w, state, late) ==
  queue' = IF Holds(w)
           THEN [queue EXCEPT ![worker[w].msg] =
                   [@ EXCEPT !.state = state, !.late = late, !.holder = NoWorker]]
           ELSE queue

Trouble == /\ env.trouble < MaxTrouble
           /\ env' = [env EXCEPT !.trouble = @ + 1]
Crash == /\ env.trouble < MaxTrouble
         /\ env' = [env EXCEPT !.trouble = @ + 1, !.crashed = TRUE]

Become(w, pc) == worker' = [worker EXCEPT ![w].pc = pc]
Rest(w) == worker' = [worker EXCEPT ![w] = IdleWorker]
At(w, pc) == worker[w].pc = pc
Job(w) == jobs[worker[w].op]

\* Only SQS acts on the number of deliveries.
Delivered(msg, w) == IF Postgres
                     THEN [msg EXCEPT !.state = "held", !.holder = w]
                     ELSE [msg EXCEPT !.state = "held", !.count = @ + 1]

(* Mutant of Receive: nobody counts the deliveries.                        *)
ReceiveForEver(w, m) ==
  /\ At(w, "idle")
  /\ queue[m].state = "waiting" /\ ~ queue[m].late
  /\ queue' = [queue EXCEPT ![m] = Delivered(@, w)]
  /\ worker' = [worker EXCEPT ![w] = [pc |-> "look", msg |-> m, op |-> queue[m].op]]
  /\ UNCHANGED <<jobs, asset, remote, api, env>>

Receive(w, m) ==
  /\ At(w, "idle")
  /\ queue[m].state = "waiting" /\ ~ queue[m].late
  /\ Postgres \/ queue[m].count < MaxReceives
  /\ queue' = [queue EXCEPT ![m] = Delivered(@, w)]
  /\ worker' = [worker EXCEPT ![w] = [pc |-> "look", msg |-> m, op |-> queue[m].op]]
  /\ UNCHANGED <<jobs, asset, remote, api, env>>

Redrive(m) ==
  /\ ~ Postgres
  /\ queue[m].state = "waiting" /\ ~ queue[m].late
  /\ queue[m].count = MaxReceives
  /\ queue' = [queue EXCEPT ![m].state = "dead"]
  /\ UNCHANGED <<jobs, asset, remote, worker, api, env>>

(* The heartbeat was late: the message is visible again.  In Postgres its  *)
(* receipt stays good until somebody else receives it.                     *)
Reappear(m) ==
  /\ queue[m].state = "held"
  /\ queue' = [queue EXCEPT ![m].state = "waiting"]
  /\ Trouble
  /\ UNCHANGED <<jobs, asset, remote, worker, api>>

(* The back-off of a job is over, and that of its messages.                *)
Due(op) ==
  /\ ~ jobs[op].due \/ \E m \in Messages : queue[m].op = op /\ queue[m].late
  /\ jobs' = [jobs EXCEPT ![op].due = TRUE]
  /\ queue' = [m \in Messages |->
                 IF queue[m].op = op THEN [queue[m] EXCEPT !.late = FALSE] ELSE queue[m]]
  /\ UNCHANGED <<asset, remote, worker, api, env>>

-----------------------------------------------------------------------------
(* The API: an accepted upload is stored, its job enqueued, then published.*)

AcceptUpload ==
  /\ api = "idle"
  /\ env.uploads < MaxUploads
  /\ env' = [env EXCEPT !.uploads = @ + 1]
  /\ asset' = "ready"
  /\ EnqueueJob("upload")
  /\ api' = "publish"
  /\ UNCHANGED <<remote, queue, worker>>

PublishUpload ==
  /\ api = "publish"
  /\ api' = "idle"
  /\ Send("upload")
  /\ UNCHANGED <<jobs, asset, remote, worker, env>>

-----------------------------------------------------------------------------
(* _handle.                                                                *)

Look(w) ==
  /\ At(w, "look")
  /\ Become(w, IF Job(w).state \in Final THEN "settle" ELSE "claim")
  /\ UNCHANGED <<jobs, asset, remote, queue, api, env>>

Claim(w) ==
  LET op == worker[w].op IN
  /\ At(w, "claim")
  /\ CanClaim(op)
  /\ jobs' = [jobs EXCEPT ![op].state = "running", ![op].attempts = @ + 1,
                          ![op].owner = w]
  /\ Become(w, "run")
  /\ UNCHANGED <<asset, remote, queue, api, env>>

ClaimRefused(w) ==
  /\ At(w, "claim")
  /\ ~ CanClaim(worker[w].op)
  /\ Put(w, "waiting", FALSE)
  /\ Rest(w)
  /\ UNCHANGED <<jobs, asset, remote, api, env>>

\* The provider or the storage fails; retryable says what is made of it.
Outcome(w) == \E pc \in {"retryable", "fail"} : Become(w, pc)

Upload(w) ==
  /\ At(w, "run") /\ worker[w].op = "upload"
  /\ \/ Become(w, IF remote.mapped THEN "finish" ELSE "call")
     \/ Outcome(w)
  /\ UNCHANGED <<jobs, asset, remote, queue, api, env>>

(* A failed call may have left a copy behind.                              *)
UploadCall(w) ==
  /\ At(w, "call")
  /\ \/ /\ remote' = [remote EXCEPT !.copies = @ + 1]
        /\ Become(w, "store")
     \/ /\ \E left \in {0, 1} : remote' = [remote EXCEPT !.copies = @ + left]
        /\ Outcome(w)
  /\ UNCHANGED <<jobs, asset, queue, api, env>>

StoreMapping(w) ==
  /\ At(w, "store")
  /\ remote' = [remote EXCEPT !.mapped = TRUE, !.index = "pending"]
  /\ Become(w, "touch")
  /\ UNCHANGED <<jobs, asset, queue, api, env>>

TouchAsset(w) ==
  /\ At(w, "touch")
  /\ asset' = "processing"
  /\ Become(w, "finish")
  /\ UNCHANGED <<jobs, remote, queue, api, env>>

(* Mutant of Index: indexing that has not failed counts as done.           *)
IndexLoosely(w) ==
  /\ At(w, "run") /\ worker[w].op = "index"
  /\ \/ \E status \in {"pending", "indexed", "failed"} :
          /\ remote' = [remote EXCEPT !.index = status]
          /\ Become(w, IF status = "failed" THEN "fail" ELSE "finish")
     \/ Outcome(w) /\ UNCHANGED remote
  /\ UNCHANGED <<jobs, asset, queue, api, env>>

Index(w) ==
  /\ At(w, "run") /\ worker[w].op = "index"
  /\ \/ \E status \in {"pending", "indexed", "failed"} :
          /\ remote' = [remote EXCEPT !.index = status]
          /\ Become(w, CASE status = "pending" -> "again"
                         [] status = "indexed" -> "finish"
                         [] status = "failed" -> "fail")
     \/ Outcome(w) /\ UNCHANGED remote
  /\ UNCHANGED <<jobs, asset, queue, api, env>>

(* The candidates' identifiers are derived from the clip: storing them     *)
(* again changes nothing.                                                  *)
Analyze(w) ==
  /\ At(w, "run") /\ worker[w].op = "analyze"
  /\ \/ remote.index = "indexed" /\ asset' = "processed" /\ Become(w, "finish")
     \/ Outcome(w) /\ UNCHANGED asset
  /\ UNCHANGED <<jobs, remote, queue, api, env>>

(* The lease could not be renewed while the operation ran: the operation   *)
(* is over, but counts as a retryable error.                               *)
RenewalFails(w) ==
  /\ worker[w].pc \in {"finish", "again"}
  /\ Become(w, "retryable")
  /\ UNCHANGED <<jobs, asset, remote, queue, api, env>>

(* Somebody has failed the job meanwhile (Defect), and a renewal notices:  *)
(* the delivery is given back, the job left alone.                         *)
LeaseLost(w) ==
  /\ worker[w].pc \in {"run", "finish", "again"}
  /\ Job(w).state # "running" \/ Job(w).owner # w
  /\ Put(w, "waiting", FALSE)
  /\ Rest(w)
  /\ UNCHANGED <<jobs, asset, remote, api, env>>

(* Mutant of Retry: it is left to claim_job to count the attempts.         *)
RetryUnchecked(w) ==
  /\ worker[w].pc \in {"again", "retryable"}
  /\ Transition(worker[w].op, "retry")
  /\ Become(w, IF At(w, "again") THEN "wait" ELSE "delay")
  /\ UNCHANGED <<asset, remote, queue, api, env>>

(* An index that is pending, or a retryable error: another attempt, if     *)
(* there is one left.                                                      *)
Retry(w) ==
  /\ worker[w].pc \in {"again", "retryable"}
  /\ IF Job(w).attempts < MaxAttempts[worker[w].op]
     THEN /\ Transition(worker[w].op, "retry")
          /\ Become(w, IF At(w, "again") THEN "wait" ELSE "delay")
     ELSE UNCHANGED jobs /\ Become(w, "fail")
  /\ UNCHANGED <<asset, remote, queue, api, env>>

(* Mutant of Delay: a message that must wait counts as handled.            *)
DelayForEver(w) ==
  /\ worker[w].pc \in {"wait", "delay"}
  /\ Put(w, "gone", FALSE)
  /\ Rest(w)
  /\ UNCHANGED <<jobs, asset, remote, api, env>>

Delay(w) ==
  /\ worker[w].pc \in {"wait", "delay"}
  /\ Put(w, "waiting", TRUE)
  /\ Rest(w)
  /\ UNCHANGED <<jobs, asset, remote, api, env>>

(* A final failure: job, asset, dead-letter mark, dead-letter queue.       *)
Fail(w) ==
  /\ At(w, "fail")
  /\ Transition(worker[w].op, "failed")
  /\ Become(w, "spoil")
  /\ UNCHANGED <<asset, remote, queue, api, env>>
SpoilAsset(w) ==
  /\ At(w, "spoil")
  /\ asset' = "failed"
  /\ Become(w, "mark")
  /\ UNCHANGED <<jobs, remote, queue, api, env>>
MarkDeadLettered(w) ==
  /\ At(w, "mark")
  /\ jobs' = [jobs EXCEPT ![worker[w].op].dead = @ \/ Job(w).state = "failed"]
  /\ Become(w, "bury")
  /\ UNCHANGED <<asset, remote, queue, api, env>>
DeadLetter(w) ==
  /\ At(w, "bury")
  /\ IF Postgres THEN Put(w, "dead", FALSE)
     ELSE queue' = [queue EXCEPT ![worker[w].msg].state = "dead"]
  /\ Rest(w)
  /\ UNCHANGED <<jobs, asset, remote, api, env>>

Finish(w) ==
  /\ At(w, "finish")
  /\ Transition(worker[w].op, "completed")
  /\ Become(w, "acknowledge")
  /\ UNCHANGED <<asset, remote, queue, api, env>>

NextOperation == [upload |-> "index", index |-> "analyze"]

(* The message goes first, then comes the next job.  A delivery of a job   *)
(* that is final already is acknowledged and nothing else.                 *)
Acknowledge(w) ==
  /\ worker[w].pc \in {"acknowledge", "settle"}
  /\ Put(w, "gone", FALSE)
  /\ IF At(w, "acknowledge") /\ worker[w].op \in DOMAIN NextOperation
     THEN Become(w, "enqueue") ELSE Rest(w)
  /\ UNCHANGED <<jobs, asset, remote, api, env>>
EnqueueNext(w) ==
  /\ At(w, "enqueue")
  /\ EnqueueJob(NextOperation[worker[w].op])
  /\ IF jobs'[NextOperation[worker[w].op]].state \in Claimable
     THEN Become(w, "publish") ELSE Rest(w)
  /\ UNCHANGED <<asset, remote, queue, api, env>>
PublishNext(w) ==
  /\ At(w, "publish")
  /\ Send(NextOperation[worker[w].op])
  /\ Rest(w)
  /\ UNCHANGED <<jobs, asset, remote, api, env>>

(* Any other exception, from the database, the broker or the operation:    *)
(* the catch-all fails the job, whoever runs it, and buries the delivery.  *)
(* While a failure is being recorded (delay after an error, fail to bury)  *)
(* an exception ends the process instead: CrashWorker.                     *)
Defect(w) ==
  /\ worker[w].pc \in {"look", "settle", "claim", "wait", "acknowledge", "enqueue",
                       "publish", "run", "call", "store", "touch", "again", "finish"}
  /\ Trouble
  /\ Transition(worker[w].op, "failed")
  /\ Become(w, "mark")
  /\ UNCHANGED <<asset, remote, queue, api>>

CrashWorker(w) ==
  /\ ~ At(w, "idle")
  /\ Crash
  /\ Put(w, "waiting", FALSE)
  /\ Rest(w)
  /\ UNCHANGED <<jobs, asset, remote, api>>
CrashApi ==
  /\ api = "publish"
  /\ Crash
  /\ api' = "idle"
  /\ UNCHANGED <<jobs, asset, remote, queue, worker>>

-----------------------------------------------------------------------------
Execute(w) ==
  \/ Upload(w) \/ UploadCall(w) \/ StoreMapping(w) \/ TouchAsset(w)
  \/ Index(w) \/ Analyze(w)
Handle(w) ==
  \/ Look(w) \/ Claim(w) \/ ClaimRefused(w)
  \/ Execute(w) \/ RenewalFails(w) \/ LeaseLost(w)
  \/ Retry(w) \/ Delay(w)
  \/ Fail(w) \/ SpoilAsset(w) \/ MarkDeadLettered(w) \/ DeadLetter(w)
  \/ Finish(w) \/ Acknowledge(w) \/ EnqueueNext(w) \/ PublishNext(w)

VideoNext ==
  \/ AcceptUpload \/ PublishUpload \/ CrashApi
  \/ \E w \in Workers :
       \/ \E m \in Messages : Receive(w, m)
       \/ Handle(w) \/ Defect(w) \/ CrashWorker(w)
  \/ \E m \in Messages : Redrive(m) \/ Reappear(m)
  \/ \E op \in Operations : Due(op)

(* Fairness: workers poll and go on, back-offs end, SQS redrives, and the  *)
(* API goes on with a request.  Nobody has to upload, fail or crash.       *)
VideoFairness ==
  /\ WF_videoVars(PublishUpload)
  /\ \A w \in Workers :
       WF_videoVars(Handle(w) \/ \E m \in Messages : Receive(w, m))
  /\ \A m \in Messages : WF_videoVars(Redrive(m))
  /\ \A op \in Operations : WF_videoVars(Due(op))

VideoSpec == VideoInit /\ [][VideoNext]_videoVars
FairVideoSpec == VideoSpec /\ VideoFairness

-----------------------------------------------------------------------------
(* Properties                                                              *)

Executing(w) == worker[w].pc \in {"run", "call", "store", "touch", "again",
                                  "retryable", "fail", "finish"}

(* The shape of the state.                                                 *)
VideoShape ==
  /\ jobs \in [Operations ->
       [state: {"none", "queued", "running", "retry"} \cup Final, attempts: Nat,
        due: BOOLEAN, owner: Workers \cup {NoWorker}, dead: BOOLEAN]]
  /\ asset \in {"ready", "processing", "processed", "failed"}
  /\ remote \in [copies: Nat, mapped: BOOLEAN, index: {"pending", "indexed", "failed"}]
  /\ queue \in [Messages -> [state: {"unsent", "waiting", "held", "dead", "gone"},
                             op: Operations, count: 0..MaxReceives, late: BOOLEAN,
                             holder: Workers \cup {NoWorker}]]
  /\ worker \in [Workers ->
       [pc: {"idle", "look", "claim", "run", "call", "store", "touch", "again",
             "retryable", "wait", "delay", "fail", "spoil", "mark", "bury", "finish",
             "settle", "acknowledge", "enqueue", "publish"},
        msg: Messages \cup {0}, op: Operations]]
  /\ api \in {"idle", "publish"}
  /\ env \in [broker: Brokers, uploads: 0..MaxUploads, trouble: 0..MaxTrouble, crashed: BOOLEAN]

(* The state has its shape, and the bound on messages never keeps a worker *)
(* or the API from sending one.                                            *)
VideoTypeOK ==
  /\ VideoShape
  /\ (api = "publish" \/ \E w \in Workers : At(w, "publish"))
       => \E m \in Messages : queue[m].state = "unsent"

(* Two workers never execute one job at the same time, whatever messages   *)
(* come twice and whoever fails the job under its worker (claim_job).      *)
OneExecutor ==
  \A w, v \in Workers :
    Executing(w) /\ Executing(v) /\ worker[w].op = worker[v].op => w = v

(* Once the provider's identifier is recorded the clip is not sent again,  *)
(* whatever retries, lost leases and repeated uploads follow ("retries are *)
(* idempotent"; _execute's look at the mapping).                           *)
UploadedOnce == [][remote.mapped => remote'.copies = remote.copies]_videoVars

(* The chain runs in order: nothing is indexed that has no mapping, and    *)
(* nothing is analyzed, let alone shown as processed, before its index is  *)
(* complete ("exhausted indexing ... is never treated as a no-candidate    *)
(* result").                                                               *)
ChainInOrder ==
  /\ jobs["index"].state # "none" => remote.mapped
  /\ jobs["analyze"].state # "none" => remote.index = "indexed"

(* A finished job is not run again, by no message, repeated upload or      *)
(* retry; and no job has more attempts than it is allowed.                 *)
NoExtraRun ==
  [][\A op \in Operations :
       /\ jobs'[op].attempts <= MaxAttempts[op]
       /\ jobs[op].state = "completed" => /\ jobs'[op].state \in Final
                                          /\ jobs'[op].attempts = jobs[op].attempts]_videoVars

Chain == INSTANCE JobChain WITH
  Limit    <- MaxAttempts,
  stage    <- [op \in Operations |-> IF jobs[op].state \in Claimable THEN "waiting"
                                                                     ELSE jobs[op].state],
  begun    <- [op \in Operations |-> jobs[op].attempts],
  busy     <- {op \in Operations : \E w \in Workers : Executing(w) /\ worker[w].op = op},
  copies   <- remote.copies,
  recorded <- remote.mapped,
  indexed  <- remote.index = "indexed"

(* The workers implement the chain: whatever messages come twice or late,  *)
(* and whoever fails, dies or loses a lease between two steps, what a clip *)
(* goes through is a stage opened, begun by one executor, let go, or       *)
(* broken; in particular nobody waits for an attempt that is not left, and *)
(* a stage that has failed for good never comes back ("retries are         *)
(* idempotent"; claim_job, transition_job, _handle).                       *)
RunsTheChain == Chain!ChainSpec

DeadLettered == \E m \in Messages : queue[m].state = "dead"
Settled == \/ jobs["analyze"].state = "completed"
           \/ \E op \in Operations : jobs[op].state = "failed"
\* Somebody died between a finished job and the publication of the next one.
ChainCut ==
  /\ env.crashed
  /\ \E op \in DOMAIN NextOperation :
       /\ jobs[op].state = "completed"
       /\ jobs[NextOperation[op]].state \in {"none", "queued"}
       /\ \A w \in Workers : worker[w].pc \notin {"acknowledge", "enqueue", "publish"}
       /\ \A m \in Messages : queue[m].op = NextOperation[op] => queue[m].state = "unsent"

\* Somebody died while it ran a job: no delivery of the job is accepted any
\* more (claim_job), and Postgres delivers its row for ever.
Refused ==
  /\ Postgres /\ env.crashed
  /\ \E op \in Operations, m \in Messages :
       /\ jobs[op].state = "running"
       /\ \A w \in Workers : Executing(w) => worker[w].op # op
       /\ queue[m].op = op /\ queue[m].state \in {"waiting", "held"}

(* A published run comes to an end: it is analyzed, it fails, or a message *)
(* waits in the dead-letter queue.  Two crashes are all that can keep it   *)
(* from that: one between the end of a job and the publication of its      *)
(* successor, after which nothing is left of the run, and, with Postgres,  *)
(* one while a job runs.                                                   *)
RunSettles ==
  (\E m \in Messages : queue[m].state # "unsent")
    ~> [](Settled \/ DeadLettered \/ ChainCut \/ Refused)

(* A job that is running does not stay so: "Postgres preserves the run and *)
(* an expired broker lease becomes available to a restarted worker."       *)
RunSurvivesRestart ==
  \A op \in Operations : jobs[op].state = "running" ~> jobs[op].state # "running"

=============================================================================
