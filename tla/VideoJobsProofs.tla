-------------------------- MODULE VideoJobsProofs --------------------------
(***************************************************************************)
(* The safety of the video jobs, for any number of workers and messages,   *)
(* either broker, and any crashes, duplicates and unexpected exceptions.   *)
(*                                                                         *)
(* A message gives nobody the right to a job: what keeps two workers apart *)
(* is the state of the job's row.  While somebody executes a job its row   *)
(* is running, or was failed under him, and neither can be claimed; once   *)
(* it is over nobody executes it, and nobody ever will.                    *)
(*                                                                         *)
(* The last part shows that the workers implement JobChain.  The abstract  *)
(* chain counts copies against attempts, so CopyInv adds which attempt a   *)
(* copy is sent for; a step then is one of the few that ChainStep names,   *)
(* and each of those is one action of the chain.                           *)
(***************************************************************************)
EXTENDS VideoJobs, TLAPS

Over(op) == /\ jobs[op].state \in Final
            /\ \A w \in Workers : Executing(w) => worker[w].op # op

(* What a worker's place tells of its job, of the mapping and of the index.*)
PlaceInv(w) ==
  LET op == worker[w].op
      pc == worker[w].pc IN
  /\ Executing(w) => jobs[op].state \in {"running", "failed"}
  /\ pc \in {"call", "store", "touch"} => op = "upload"
  /\ pc \in {"call", "store"} => ~ remote.mapped
  /\ pc \in {"touch", "finish", "acknowledge", "enqueue"} /\ op = "upload" => remote.mapped
  /\ pc \in {"finish", "acknowledge", "enqueue"} /\ op = "index" => remote.index = "indexed"
  /\ pc \in {"acknowledge", "enqueue"} => Over(op)

(* Nothing is published of a job that is not enqueued, and a worker has    *)
(* its message and the job that goes with it.                              *)
Published(m) == queue[m].state # "unsent" => jobs[queue[m].op].state # "none"
DeliveryInv(w) ==
  LET msg == worker[w].msg
      op == worker[w].op
      pc == worker[w].pc IN
  /\ pc # "idle" => msg \in Messages /\ queue[msg].state # "unsent" /\ queue[msg].op = op
  /\ pc \in {"enqueue", "publish"} => op \in DOMAIN NextOperation
  /\ pc = "publish" => jobs[NextOperation[op]].state # "none"

DeliveriesInv ==
  /\ \A m \in Messages : Published(m)
  /\ api = "publish" => jobs["upload"].state # "none"
  /\ \A w \in Workers : DeliveryInv(w)
ExecutionInv ==
  /\ \A op \in Operations : jobs[op].attempts <= MaxAttempts[op]
  /\ OneExecutor
  /\ \A w \in Workers : PlaceInv(w)
  /\ ChainInOrder
  /\ jobs["analyze"].state # "none" => Over("index")
VideoInv == VideoShape /\ DeliveriesInv /\ ExecutionInv

-----------------------------------------------------------------------------
(* Records and functions.                                                  *)

JobRows == [state: {"none", "queued", "running", "retry"} \cup Final, attempts: Nat,
            due: BOOLEAN, owner: Workers \cup {NoWorker}, dead: BOOLEAN]
MessageRows == [state: {"unsent", "waiting", "held", "dead", "gone"}, op: Operations,
                count: 0..MaxReceives, late: BOOLEAN, holder: Workers \cup {NoWorker}]
Places == {"idle", "look", "claim", "run", "call", "store", "touch", "again",
           "retryable", "wait", "delay", "fail", "spoil", "mark", "bury", "finish",
           "settle", "acknowledge", "enqueue", "publish"}
WorkerStates == [pc: Places, msg: Messages \cup {0}, op: Operations]
JobsTyped == jobs \in [Operations -> JobRows]
QueueTyped == queue \in [Messages -> MessageRows]
WorkersTyped == worker \in [Workers -> WorkerStates]
RemoteTyped == remote \in [copies: Nat, mapped: BOOLEAN, index: {"pending", "indexed", "failed"}]
EnvTyped == env \in [broker: Brokers, uploads: 0..MaxUploads, trouble: 0..MaxTrouble,
                     crashed: BOOLEAN]

LEMMA Types ==
  VideoShape <=> /\ JobsTyped /\ QueueTyped /\ WorkersTyped /\ RemoteTyped /\ EnvTyped
                 /\ asset \in {"ready", "processing", "processed", "failed"}
                 /\ api \in {"idle", "publish"}
  BY DEF VideoShape, JobsTyped, QueueTyped, WorkersTyped, RemoteTyped, EnvTyped,
         JobRows, MessageRows, Places, WorkerStates

(* Worker w goes to place pc with its delivery, or to rest; the others     *)
(* stay where they are.                                                    *)
Goes(w, pc) ==
  /\ WorkersTyped'
  /\ worker'[w].pc = pc
  /\ pc # "idle" => worker'[w].msg = worker[w].msg /\ worker'[w].op = worker[w].op
  /\ \A v \in Workers \ {w} : worker'[v] = worker[v]

LEMMA BecomeDoes ==
  ASSUME WorkersTyped, NEW w \in Workers, NEW pc \in Places, Become(w, pc)
  PROVE  Goes(w, pc)
<1>1. worker[w] \in WorkerStates
  BY DEF WorkersTyped
<1>2. [worker[w] EXCEPT !.pc = pc] \in WorkerStates
  BY <1>1 DEF WorkerStates
<1>3. worker' = [worker EXCEPT ![w] = [worker[w] EXCEPT !.pc = pc]]
  BY DEF Become
<1>4. worker'[w] = [worker[w] EXCEPT !.pc = pc]
  BY <1>3 DEF WorkersTyped
<1> QED
  BY <1>1, <1>2, <1>3, <1>4 DEF WorkersTyped, WorkerStates, Goes

LEMMA OutcomeDoes ==
  ASSUME WorkersTyped, NEW w \in Workers, Outcome(w)
  PROVE  Goes(w, "retryable") \/ Goes(w, "fail")
  BY BecomeDoes DEF Outcome, Places

LEMMA RestDoes ==
  ASSUME WorkersTyped, NEW w \in Workers, Rest(w)
  PROVE  Goes(w, "idle")
<1>1. IdleWorker \in WorkerStates /\ IdleWorker.pc = "idle"
  BY DEF IdleWorker, WorkerStates, Places, Operations
<1> QED
  BY <1>1 DEF Rest, WorkersTyped, Goes

(* The jobs but op keep their rows; op's row is in state s after n         *)
(* attempts.                                                               *)
Turns(op, s, n) ==
  /\ JobsTyped'
  /\ jobs'[op].state = s /\ jobs'[op].attempts = n
  /\ \A o \in Operations \ {op} : jobs'[o] = jobs[o]

LEMMA RowDoes ==
  ASSUME JobsTyped, NEW op \in Operations, NEW row \in JobRows,
         jobs' = [jobs EXCEPT ![op] = row]
  PROVE  Turns(op, row.state, row.attempts)
  BY DEF JobsTyped, Turns

LEMMA TransitionDoes ==
  ASSUME JobsTyped, NEW op \in Operations, NEW s \in {"retry", "completed", "failed"},
         Transition(op, s)
  PROVE  Turns(op, s, jobs[op].attempts)
<1> DEFINE row == [jobs[op] EXCEPT !.state = s, !.due = (s # "retry"), !.owner = NoWorker]
<1>1. jobs[op] \in JobRows
  BY DEF JobsTyped
<1>2. row \in JobRows /\ row.state = s /\ row.attempts = jobs[op].attempts
  BY <1>1 DEF JobRows, Final
<1>3. jobs' = [jobs EXCEPT ![op] = row]
  BY <1>1 DEF Transition, JobsTyped, JobRows
<1> QED
  BY <1>2, <1>3, RowDoes

LEMMA ClaimDoes ==
  ASSUME JobsTyped, NEW w \in Workers, worker[w].op \in Operations, Claim(w)
  PROVE  Turns(worker[w].op, "running", jobs[worker[w].op].attempts + 1)
<1> DEFINE op == worker[w].op
           row == [jobs[op] EXCEPT !.state = "running", !.attempts = @ + 1, !.owner = w]
<1>1. jobs[op] \in JobRows
  BY DEF JobsTyped
<1>2. row \in JobRows /\ row.state = "running" /\ row.attempts = jobs[op].attempts + 1
  <2>1. jobs[op].attempts + 1 \in Nat
    BY <1>1 DEF JobRows
  <2>2. \A n \in Nat :
          LET r == [jobs[op] EXCEPT !.state = "running", !.attempts = n, !.owner = w] IN
          r \in JobRows /\ r.state = "running" /\ r.attempts = n
    BY <1>1 DEF JobRows
  <2> QED
    BY <2>1, <2>2
<1>3. jobs' = [jobs EXCEPT ![op] = row]
  BY <1>1 DEF Claim, JobRows, JobsTyped
<1> HIDE DEF row
<1> QED
  BY <1>2, <1>3, RowDoes

LEMMA EnqueueJobDoes ==
  ASSUME JobsTyped, NEW op \in Operations, EnqueueJob(op)
  PROVE  IF jobs[op].state = "none" THEN Turns(op, "queued", 0)
         ELSE Turns(op, jobs[op].state, jobs[op].attempts)
<1> DEFINE new == [NoJob EXCEPT !.state = "queued"]
<1>1. jobs[op] \in JobRows
  BY DEF JobsTyped
<1>2. new \in JobRows /\ new.state = "queued" /\ new.attempts = 0
  BY DEF NoJob, JobRows
<1>3. jobs' = [jobs EXCEPT ![op] = IF jobs[op].state = "none" THEN new ELSE jobs[op]]
  BY DEF EnqueueJob
<1>4. CASE jobs[op].state = "none"
  BY <1>2, <1>3, <1>4, RowDoes
<1>5. CASE jobs[op].state # "none"
  BY <1>1, <1>3, <1>5, RowDoes
<1> QED
  BY <1>4, <1>5

(* Messages that are sent stay sent, and what they are about; every new    *)
(* one is about op.                                                        *)
QueueGrows(op) ==
  /\ QueueTyped'
  /\ \A m \in Messages :
       IF queue[m].state # "unsent"
       THEN queue'[m].state # "unsent" /\ queue'[m].op = queue[m].op
       ELSE queue'[m].state # "unsent" => queue'[m].op = op
QueueKeeps ==
  /\ QueueTyped'
  /\ \A m \in Messages : /\ queue'[m].state = "unsent" <=> queue[m].state = "unsent"
                         /\ queue'[m].op = queue[m].op

LEMMA PutDoes ==
  ASSUME QueueTyped, NEW w \in Workers, DeliveryInv(w), worker[w].pc # "idle",
         NEW s \in {"waiting", "gone", "dead"}, NEW late \in BOOLEAN, Put(w, s, late)
  PROVE  QueueKeeps
<1> DEFINE m == worker[w].msg
           row == [queue[m] EXCEPT !.state = s, !.late = late, !.holder = NoWorker]
<1>1. m \in Messages /\ queue[m].state # "unsent"
  BY DEF DeliveryInv
<1>2. row \in MessageRows /\ row.state = s /\ row.op = queue[m].op
  BY <1>1 DEF QueueTyped, MessageRows
<1>3. queue' = queue \/ queue' = [queue EXCEPT ![m] = row]
  BY DEF Put
<1>4. CASE queue' = queue
  BY <1>4 DEF QueueTyped, QueueKeeps
<1>5. CASE queue' = [queue EXCEPT ![m] = row]
  <2> HIDE DEF row, m
  <2> QED
    BY <1>1, <1>2, <1>5 DEF QueueTyped, QueueKeeps
<1> QED
  BY <1>3, <1>4, <1>5

LEMMA SendDoes ==
  ASSUME QueueTyped, NEW op \in Operations, Send(op)
  PROVE  QueueGrows(op)
<1> DEFINE new == [NoMessage EXCEPT !.state = "waiting", !.op = op]
<1>1. new \in MessageRows /\ new.op = op /\ new.state = "waiting"
  <2>1. 0 \in 0..MaxReceives
    BY VideoAssumption
  <2>2. NoMessage \in [state: {"unsent"}, op: {"upload"}, count: {0}, late: {FALSE},
                       holder: {NoWorker}]
    BY DEF NoMessage
  <2> QED
    BY <2>1, <2>2 DEF MessageRows
<1>2. PICK m \in Messages :
        /\ RowOf(op, m) \/ NextUnsent(m)
        /\ queue' = [queue EXCEPT ![m] = IF queue[m].state = "dead" THEN queue[m] ELSE new]
  BY DEF Send
<1> HIDE DEF new
<1>3. queue[m].state # "unsent" => queue[m].op = op
  BY <1>2 DEF RowOf, NextUnsent
<1>4. QueueTyped'
  BY <1>1, <1>2 DEF QueueTyped
<1>5. queue'[m] = IF queue[m].state = "dead" THEN queue[m] ELSE new
  BY <1>2 DEF QueueTyped
<1>6. \A n \in Messages \ {m} : queue'[n] = queue[n]
  BY <1>2 DEF QueueTyped
<1> QED
  BY <1>1, <1>3, <1>4, <1>5, <1>6 DEF QueueGrows
-----------------------------------------------------------------------------
(* What a step does to the deliveries and to the executions.               *)

JobsAhead == \A op \in Operations : jobs[op].state # "none" => jobs'[op].state # "none"
(* Who goes somewhere has a delivery, and the job to publish.              *)
GoesRightly(w, pc) ==
  /\ Goes(w, pc)
  /\ pc = "idle" \/ worker[w].pc # "idle"
  /\ pc \in {"enqueue", "publish"} => worker[w].op \in DOMAIN NextOperation
  /\ pc = "publish" => jobs'[NextOperation[worker[w].op]].state # "none"

LEMMA NextOperations ==
  /\ DOMAIN NextOperation = {"upload", "index"}
  /\ NextOperation["upload"] = "index" /\ NextOperation["index"] = "analyze"
  BY DEF NextOperation

LEMMA DeliveriesKept ==
  ASSUME VideoInv, VideoShape', JobsAhead,
         QueueKeeps \/ \E op \in Operations : QueueGrows(op) /\ jobs'[op].state # "none",
         api' = "publish" => api = "publish" \/ jobs'["upload"].state # "none",
         \/ worker' = worker
         \/ \E w \in Workers, pc \in Places : GoesRightly(w, pc)
  PROVE  DeliveriesInv'
<1> USE Types
<1>1. \A m \in Messages : queue[m].state # "unsent" =>
        /\ queue'[m].state # "unsent" /\ queue'[m].op = queue[m].op
        /\ queue[m].op \in Operations
  BY DEF QueueKeeps, QueueGrows, VideoInv, QueueTyped, MessageRows
<1>2. \A m \in Messages : queue[m].state = "unsent" /\ queue'[m].state # "unsent" =>
        jobs'[queue'[m].op].state # "none"
  BY DEF QueueKeeps, QueueGrows
<1>3. \A m \in Messages : Published(m)'
  BY <1>1, <1>2 DEF VideoInv, DeliveriesInv, Published, JobsAhead
<1>4. "upload" \in Operations
  BY DEF Operations
<1>5. (api = "publish" => jobs["upload"].state # "none")'
  BY <1>4 DEF VideoInv, DeliveriesInv, JobsAhead
<1>6. ASSUME NEW v \in Workers, worker'[v] = worker[v]
      PROVE  DeliveryInv(v)'
  <2>1. DeliveryInv(v) /\ worker[v] \in WorkerStates
    BY DEF VideoInv, DeliveriesInv, WorkersTyped
  <2>2. worker[v].pc = "publish" => jobs'[NextOperation[worker[v].op]].state # "none"
    BY <2>1, NextOperations DEF DeliveryInv, JobsAhead, Operations
  <2> QED
    BY <1>1, <1>6, <2>1, <2>2 DEF DeliveryInv
<1>7. ASSUME NEW w \in Workers, NEW pc \in Places, GoesRightly(w, pc)
      PROVE  DeliveryInv(w)'
  <2>1. DeliveryInv(w)
    BY DEF VideoInv, DeliveriesInv
  <2>2. pc # "idle" => /\ worker'[w].msg \in Messages /\ queue'[worker'[w].msg].state # "unsent"
                       /\ queue'[worker'[w].msg].op = worker'[w].op
    BY <1>1, <1>7, <2>1 DEF DeliveryInv, GoesRightly, Goes
  <2> QED
    BY <1>7, <2>2 DEF DeliveryInv, GoesRightly, Goes
<1>8. \A w \in Workers : DeliveryInv(w)'
  <2>1. CASE worker' = worker
    BY <1>6, <2>1
  <2>2. ASSUME NEW w \in Workers, NEW pc \in Places, GoesRightly(w, pc)
        PROVE  \A v \in Workers : DeliveryInv(v)'
    BY <1>6, <1>7, <2>2 DEF GoesRightly, Goes
  <2> QED
    BY <2>1, <2>2
<1> QED
  BY <1>3, <1>5, <1>8 DEF DeliveriesInv

(* No attempt begins and no job's state changes.                           *)
JobsKeep ==
  /\ JobsTyped'
  /\ \A op \in Operations : /\ jobs'[op].state = jobs[op].state
                           /\ jobs'[op].attempts = jobs[op].attempts
LEMMA MarkDoes ==
  ASSUME JobsTyped, NEW w \in Workers, worker[w].op \in Operations, MarkDeadLettered(w)
  PROVE  JobsKeep
<1> DEFINE op == worker[w].op
           row == [jobs[op] EXCEPT !.dead = @ \/ jobs[op].state = "failed"]
<1>1. jobs[op] \in JobRows
  BY DEF JobsTyped
<1>2. /\ row \in JobRows
      /\ row.state = jobs[op].state /\ row.attempts = jobs[op].attempts
  BY <1>1 DEF JobRows
<1>3. jobs' = [jobs EXCEPT ![op] = row]
  BY DEF MarkDeadLettered, Job
<1> HIDE DEF row
<1> QED
  BY <1>2, <1>3 DEF JobsTyped, JobsKeep

ExecPlaces == {"run", "call", "store", "touch", "again", "retryable", "fail", "finish"}
(* Places where a worker claims nothing about its job.                     *)
FreePlaces == Places \ (ExecPlaces \cup {"acknowledge", "enqueue"})

(* Nobody moves, and nothing changes but the odds and ends of the jobs.    *)
LEMMA ExecutionRests ==
  ASSUME VideoInv, JobsKeep, remote' = remote, worker' = worker
  PROVE  ExecutionInv'
<1>1. \A w \in Workers : worker[w].op \in Operations
  BY Types DEF VideoInv, WorkersTyped, WorkerStates
<1>2. "index" \in Operations /\ "analyze" \in Operations
  BY DEF Operations
<1> QED
  BY <1>1, <1>2 DEF VideoInv, ExecutionInv, JobsKeep, OneExecutor, PlaceInv, Executing,
       ChainInOrder, Over

(* A worker goes to a place where it claims nothing.                       *)
LEMMA ExecutionLeft ==
  ASSUME VideoInv, JobsKeep, remote' = remote, NEW w \in Workers, NEW pc \in FreePlaces,
         worker'[w].pc = pc, \A v \in Workers \ {w} : worker'[v] = worker[v]
  PROVE  ExecutionInv'
<1>1. \A v \in Workers : worker[v].op \in Operations
  BY Types DEF VideoInv, WorkersTyped, WorkerStates
<1>2. "index" \in Operations /\ "analyze" \in Operations
  BY DEF Operations
<1>3. ~ Executing(w)' /\ pc \notin {"call", "store", "touch", "finish", "acknowledge", "enqueue"}
  BY DEF FreePlaces, ExecPlaces, Executing
<1>4. \A v \in Workers : Executing(v)' => Executing(v) /\ worker'[v] = worker[v]
  BY <1>3 DEF Executing
<1>5. \A op \in Operations : Over(op) => Over(op)'
  BY <1>4 DEF Over, JobsKeep
<1>6. \A v \in Workers : PlaceInv(v)'
  BY <1>1, <1>3, <1>4, <1>5 DEF VideoInv, ExecutionInv, PlaceInv, JobsKeep
<1>7. OneExecutor'
  BY <1>4 DEF VideoInv, ExecutionInv, OneExecutor
<1> QED
  BY <1>2, <1>5, <1>6, <1>7 DEF VideoInv, ExecutionInv, JobsKeep, ChainInOrder

(* A worker goes on executing its job.                                     *)
LEMMA ExecutionGoesOn ==
  ASSUME VideoInv, JobsKeep, NEW w \in Workers, Executing(w), NEW pc \in ExecPlaces, Goes(w, pc),
         remote'.mapped = remote.mapped \/ (worker[w].op = "upload" /\ remote'.mapped),
         remote'.index = remote.index \/ worker[w].op = "index" \/ ~ remote.mapped,
         pc \in {"call", "store", "touch"} => worker[w].op = "upload",
         pc \in {"call", "store"} => ~ remote'.mapped,
         pc \in {"touch", "finish"} /\ worker[w].op = "upload" => remote'.mapped,
         pc = "finish" /\ worker[w].op = "index" => remote'.index = "indexed"
  PROVE  ExecutionInv'
<1>1. \A v \in Workers : worker[v].op \in Operations
  BY Types DEF VideoInv, WorkersTyped, WorkerStates
<1>2. "index" \in Operations /\ "analyze" \in Operations
  BY DEF Operations
<1>3. worker'[w].op = worker[w].op /\ worker'[w].pc = pc /\ Executing(w)'
  BY DEF ExecPlaces, Executing, Goes
<1>4. \A v \in Workers : Executing(v)' => Executing(v) /\ worker'[v].op = worker[v].op
  BY <1>3 DEF Goes, Executing
<1>5. \A op \in Operations : Over(op) => Over(op)'
  BY <1>4 DEF Over, JobsKeep
<1>6. ~ Over(worker[w].op)
  BY DEF Over
<1>7. \A v \in Workers : Executing(v) /\ worker[v].op = worker[w].op => v = w
  BY DEF VideoInv, ExecutionInv, OneExecutor
<1>8. OneExecutor'
  BY <1>4 DEF VideoInv, ExecutionInv, OneExecutor
<1>9. remote'.index # remote.index => jobs["analyze"].state = "none"
  <2>1. CASE worker[w].op = "index"
    BY <1>6, <2>1 DEF VideoInv, ExecutionInv
  <2>2. CASE ~ remote.mapped
    BY <2>2 DEF VideoInv, ExecutionInv, ChainInOrder, Over, Final
  <2> QED
    BY <2>1, <2>2
<1>10. ChainInOrder' /\ (jobs["analyze"].state # "none" => Over("index"))'
  BY <1>2, <1>5, <1>9 DEF VideoInv, ExecutionInv, ChainInOrder, JobsKeep
<1>11. PlaceInv(w)'
  BY <1>1, <1>3 DEF VideoInv, ExecutionInv, PlaceInv, JobsKeep, ExecPlaces
<1>12. ASSUME NEW v \in Workers \ {w}
       PROVE  PlaceInv(v)'
  <2>1. PlaceInv(v) /\ worker'[v] = worker[v] /\ worker[v].op \in Operations
    BY <1>1 DEF VideoInv, ExecutionInv, Goes
  <2>2. worker[v].pc \in {"call", "store"} => ~ remote'.mapped
    BY <1>7, <2>1 DEF PlaceInv, Executing
  <2>3. /\ worker[v].pc \in {"finish", "acknowledge", "enqueue"}
        /\ worker[v].op = "index"
        => remote'.index = "indexed"
    <3>1. CASE worker[w].op = "index"
      BY <1>6, <1>7, <2>1, <3>1 DEF PlaceInv, Executing
    <3>2. CASE ~ remote.mapped
      BY <2>1, <3>2 DEF VideoInv, ExecutionInv, ChainInOrder, PlaceInv, Over, Final, Executing
    <3> QED
      BY <2>1, <3>1, <3>2 DEF PlaceInv
  <2> QED
    BY <1>5, <2>1, <2>2, <2>3 DEF PlaceInv, JobsKeep, Executing
<1> QED
  BY <1>8, <1>10, <1>11, <1>12 DEF VideoInv, ExecutionInv, JobsKeep

(* A job's row changes as somebody stops executing it, or fails it.        *)
LEMMA ExecutionEnds ==
  ASSUME VideoInv, remote' = remote, NEW w \in Workers, NEW s \in {"retry", "completed", "failed"},
         NEW pc \in Places \ (ExecPlaces \cup {"enqueue"}),
         worker[w].pc # "idle",
         Executing(w) \/ s = "failed",
         Turns(worker[w].op, s, jobs[worker[w].op].attempts), Goes(w, pc),
         pc = "acknowledge" => /\ s = "completed"
                               /\ Executing(w)
                               /\ worker[w].op = "upload" => remote.mapped
                               /\ worker[w].op = "index" => remote.index = "indexed"
  PROVE  ExecutionInv'
<1> DEFINE op == worker[w].op
<1>1. \A v \in Workers : worker[v].op \in Operations
  BY Types DEF VideoInv, WorkersTyped, WorkerStates
<1>2. "index" \in Operations /\ "analyze" \in Operations
  BY DEF Operations
<1>3. ~ Executing(w)' /\ worker'[w].pc = pc
  BY DEF ExecPlaces, Executing, Goes
<1>4. \A v \in Workers : Executing(v)' => Executing(v) /\ worker'[v] = worker[v] /\ v # w
  BY <1>3 DEF Goes, Executing
<1>5. jobs[op].state # "none"
  BY Types DEF VideoInv, DeliveriesInv, DeliveryInv, Published
<1>6. \A o \in Operations : (jobs'[o].state = "none" <=> jobs[o].state = "none")
  BY <1>5 DEF Turns
<1>7. \A o \in Operations : Over(o) => Over(o)'
  BY <1>4 DEF Over, Turns, Final
<1>8. OneExecutor'
  BY <1>4 DEF VideoInv, ExecutionInv, OneExecutor
<1>9. \A v \in Workers : Executing(v) /\ worker[v].op = op => v = w \/ s = "failed"
  BY DEF VideoInv, ExecutionInv, OneExecutor
<1>10. ASSUME NEW v \in Workers \ {w}
       PROVE  PlaceInv(v)'
  <2>1. PlaceInv(v) /\ worker'[v] = worker[v] /\ worker[v].op \in Operations
    BY <1>1 DEF VideoInv, ExecutionInv, Goes
  <2>2. Executing(v)' => jobs'[worker'[v].op].state \in {"running", "failed"}
    BY <1>4, <1>9, <2>1 DEF PlaceInv, Turns
  <2> QED
    BY <1>7, <2>1, <2>2 DEF PlaceInv
<1>11. pc = "acknowledge" => Over(op)'
  <2>1. pc = "acknowledge" => jobs'[op].state \in Final
    BY <1>1 DEF Turns, Final
  <2>2. pc = "acknowledge" => \A v \in Workers : Executing(v)' => worker'[v].op # op
    BY <1>4 DEF VideoInv, ExecutionInv, OneExecutor
  <2>3. pc = "acknowledge" => worker'[w].op = op
    BY DEF Goes
  <2> QED
    BY <2>1, <2>2, <2>3 DEF Over
<1>12. PlaceInv(w)'
  <2>1. pc \notin {"call", "store", "touch", "finish", "enqueue"}
    BY DEF ExecPlaces
  <2>2. pc = "acknowledge" => worker'[w].op = op
    BY DEF Goes
  <2> QED
    BY <1>3, <1>11, <2>1, <2>2 DEF PlaceInv
<1>13. \A o \in Operations : jobs'[o].attempts = jobs[o].attempts
  BY DEF Turns
<1> QED
  BY <1>2, <1>6, <1>7, <1>8, <1>10, <1>12, <1>13 DEF VideoInv, ExecutionInv, ChainInOrder

(* A claim: the job was claimable, so nobody executes it.                  *)
LEMMA ExecutionBegins ==
  ASSUME VideoInv, remote' = remote, NEW w \in Workers, worker[w].pc # "idle", Goes(w, "run"),
         CanClaim(worker[w].op),
         Turns(worker[w].op, "running", jobs[worker[w].op].attempts + 1)
  PROVE  ExecutionInv'
<1> DEFINE op == worker[w].op
<1>1. \A v \in Workers : worker[v].op \in Operations
  BY Types DEF VideoInv, WorkersTyped, WorkerStates
<1>2. "index" \in Operations /\ "analyze" \in Operations
  BY DEF Operations
<1>3. jobs[op].state \notin Final \cup {"none", "running"}
  BY DEF CanClaim, Claimable, Final
<1>4. \A v \in Workers : Executing(v) => worker[v].op # op
  BY <1>3 DEF VideoInv, ExecutionInv, PlaceInv, Final
<1>5. ~ Over(op)
  BY <1>3 DEF Over
<1>6. worker'[w].pc = "run" /\ worker'[w].op = op
  BY DEF Goes
<1>7. \A v \in Workers : v # w => worker'[v] = worker[v]
  BY DEF Goes
<1>8. \A o \in Operations : Over(o) => Over(o)'
  BY <1>5, <1>6, <1>7 DEF Over, Turns, Executing
<1>9. OneExecutor'
  BY <1>4, <1>6, <1>7 DEF VideoInv, ExecutionInv, OneExecutor, Executing
<1>10. PlaceInv(w)'
  BY <1>1, <1>6 DEF PlaceInv, Turns
<1>11. ASSUME NEW v \in Workers \ {w}
       PROVE  PlaceInv(v)'
  <2>1. PlaceInv(v) /\ worker'[v] = worker[v] /\ worker[v].op \in Operations
    BY <1>1, <1>7 DEF VideoInv, ExecutionInv
  <2>2. Executing(v)' => jobs'[worker'[v].op].state \in {"running", "failed"}
    BY <1>4, <2>1 DEF PlaceInv, Turns, Executing
  <2> QED
    BY <1>8, <2>1, <2>2 DEF PlaceInv
<1>12. \A o \in Operations : jobs'[o].attempts <= MaxAttempts[o]
  <2>1. jobs[op].attempts < MaxAttempts[op]
    BY DEF CanClaim
  <2>2. jobs[op].attempts \in Nat /\ MaxAttempts[op] \in Nat
    BY <1>1, Types, VideoAssumption DEF VideoInv, JobsTyped, JobRows
  <2>3. jobs[op].attempts + 1 <= MaxAttempts[op]
    BY <2>1, <2>2
  <2> QED
    BY <2>3 DEF Turns, VideoInv, ExecutionInv
<1>13. \A o \in Operations : (jobs'[o].state = "none" <=> jobs[o].state = "none")
  BY <1>3 DEF Turns
<1> QED
  BY <1>2, <1>8, <1>9, <1>10, <1>11, <1>12, <1>13 DEF VideoInv, ExecutionInv, ChainInOrder

(* A job is enqueued, unless it has a row already.                         *)
LEMMA ExecutionPrepared ==
  ASSUME VideoInv, remote' = remote, NEW op \in Operations, EnqueueJob(op),
         op = "index" => remote.mapped,
         op = "analyze" => remote.index = "indexed" /\ Over("index"),
         \/ worker' = worker
         \/ \E w \in Workers, pc \in FreePlaces : Goes(w, pc)
  PROVE  ExecutionInv' /\ JobsTyped' /\ JobsAhead /\ jobs'[op].state # "none"
<1>1. \A v \in Workers : worker[v].op \in Operations
  BY Types DEF VideoInv, WorkersTyped, WorkerStates
<1>2. "index" \in Operations /\ "analyze" \in Operations
  BY DEF Operations
<1>3. JobsTyped
  BY Types DEF VideoInv
<1>4. IF jobs[op].state = "none" THEN Turns(op, "queued", 0)
      ELSE Turns(op, jobs[op].state, jobs[op].attempts)
  BY <1>3, EnqueueJobDoes
<1>5. \A o \in Operations : jobs[o].state # "none" => /\ jobs'[o].state = jobs[o].state
                                                    /\ jobs'[o].attempts = jobs[o].attempts
  BY <1>4 DEF Turns
<1>6. \A o \in Operations : o # op => jobs'[o] = jobs[o]
  BY <1>4 DEF Turns
<1>7. \A v \in Workers : Executing(v)' => Executing(v) /\ worker'[v] = worker[v]
  BY DEF Goes, FreePlaces, ExecPlaces, Executing
<1>8. \A o \in Operations : Over(o) => Over(o)'
  BY <1>5, <1>7 DEF Over, Final
<1>9. OneExecutor'
  BY <1>7 DEF VideoInv, ExecutionInv, OneExecutor
<1>10. ASSUME NEW v \in Workers
       PROVE  PlaceInv(v)'
  <2>1. PlaceInv(v) /\ worker[v].op \in Operations
    BY <1>1 DEF VideoInv, ExecutionInv
  <2>2. Executing(v)' => jobs'[worker'[v].op].state \in {"running", "failed"}
    BY <1>5, <1>7, <2>1 DEF PlaceInv
  <2>3. CASE worker'[v] = worker[v]
    BY <1>8, <2>1, <2>2, <2>3 DEF PlaceInv
  <2>4. CASE worker'[v] # worker[v]
    <3>1. worker'[v].pc \in FreePlaces
      BY <2>4 DEF Goes
    <3> QED
      BY <2>2, <3>1 DEF PlaceInv, FreePlaces, ExecPlaces
  <2> QED
    BY <2>3, <2>4
<1>11. \A o \in Operations : jobs'[o].attempts <= MaxAttempts[o]
  <2>1. jobs'[op].attempts <= MaxAttempts[op]
    BY <1>4, VideoAssumption DEF Turns, VideoInv, ExecutionInv
  <2> QED
    BY <1>6, <2>1 DEF VideoInv, ExecutionInv
<1>12. ChainInOrder'
  BY <1>2, <1>5, <1>6 DEF VideoInv, ExecutionInv, ChainInOrder
<1>13. (jobs["analyze"].state # "none" => Over("index"))'
  BY <1>2, <1>5, <1>6, <1>8 DEF VideoInv, ExecutionInv
<1>14. JobsTyped' /\ jobs'[op].state # "none"
  BY <1>4 DEF Turns
<1> QED
  BY <1>5, <1>9, <1>10, <1>11, <1>12, <1>13, <1>14 DEF ExecutionInv, JobsAhead
-----------------------------------------------------------------------------
(* The steps.                                                              *)

(* What is left of the state: the asset, the API, and the bounds.          *)
RestTyped == /\ asset \in {"ready", "processing", "processed", "failed"}
             /\ api \in {"idle", "publish"}
             /\ EnvTyped

LEMMA TypesNext ==
  JobsTyped' /\ QueueTyped' /\ WorkersTyped' /\ RemoteTyped' /\ RestTyped' => VideoShape'
  BY DEF VideoShape, JobsTyped, QueueTyped, WorkersTyped, RemoteTyped, RestTyped, EnvTyped,
         JobRows, MessageRows, Places, WorkerStates

LEMMA Unmoved ==
  ASSUME VideoInv
  PROVE  /\ JobsTyped /\ QueueTyped /\ WorkersTyped /\ RemoteTyped /\ RestTyped
         /\ jobs' = jobs => JobsKeep
         /\ queue' = queue => QueueKeeps
         /\ remote' = remote => RemoteTyped'
         /\ asset' = asset /\ api' = api /\ env' = env => RestTyped'
  BY Types DEF VideoInv, JobsKeep, JobsTyped, QueueKeeps, QueueTyped, RemoteTyped, RestTyped, EnvTyped

LEMMA TroubleDoes ==
  ASSUME EnvTyped, Trouble \/ Crash
  PROVE  EnvTyped'
<1>1. env.trouble \in Nat /\ env.trouble + 1 \in 0..MaxTrouble
  BY VideoAssumption DEF EnvTyped, Trouble, Crash
<1> QED
  BY <1>1 DEF EnvTyped, Trouble, Crash

(* A worker goes somewhere; every part of the invariant follows from what  *)
(* the step does to it.                                                    *)
LEMMA AnyWorkerStep ==
  ASSUME VideoInv, RestTyped', RemoteTyped', JobsTyped', JobsAhead, api' = api,
         QueueKeeps \/ \E op \in Operations : QueueGrows(op) /\ jobs'[op].state # "none",
         NEW w \in Workers, NEW pc \in Places, GoesRightly(w, pc), ExecutionInv'
  PROVE  VideoInv'
<1>1. VideoShape'
  BY TypesNext DEF RestTyped, QueueKeeps, QueueGrows, GoesRightly, Goes
<1> QED
  BY <1>1, DeliveriesKept DEF VideoInv
LEMMA WorkerStep ==
  ASSUME VideoInv, RestTyped', RemoteTyped', JobsTyped', JobsAhead, QueueKeeps, api' = api,
         NEW w \in Workers, NEW pc \in Places \ {"enqueue", "publish"}, worker[w].pc # "idle",
         Goes(w, pc), ExecutionInv'
  PROVE  VideoInv'
  BY AnyWorkerStep DEF GoesRightly

LEMMA KeptAhead == JobsKeep => JobsTyped' /\ JobsAhead
  BY DEF JobsKeep, JobsAhead
LEMMA TurnedAhead ==
  ASSUME NEW op \in Operations, NEW s, NEW n, s # "none", Turns(op, s, n)
  PROVE  JobsTyped' /\ JobsAhead
  BY DEF Turns, JobsAhead

LEMMA LeaveStep ==
  ASSUME VideoInv, RestTyped', JobsKeep, QueueKeeps, remote' = remote, api' = api,
         NEW w \in Workers, worker[w].pc # "idle", NEW pc \in FreePlaces \ {"publish"}, Goes(w, pc)
  PROVE  VideoInv'
<1>1. ExecutionInv'
  BY ExecutionLeft DEF Goes
<1> QED
  BY <1>1, KeptAhead, Unmoved, WorkerStep DEF FreePlaces
LEMMA GoOnStep ==
  ASSUME VideoInv, RestTyped', RemoteTyped', api' = api, UNCHANGED <<jobs, queue>>,
         NEW w \in Workers, Executing(w), NEW pc \in ExecPlaces, Goes(w, pc),
         ExecutionInv'
  PROVE  VideoInv'
<1>1. pc \in Places \ {"enqueue", "publish"} /\ worker[w].pc # "idle"
  BY DEF ExecPlaces, Places, Executing
<1> QED
  BY <1>1, KeptAhead, Unmoved, WorkerStep
LEMMA EndStep ==
  ASSUME VideoInv, RestTyped', UNCHANGED <<remote, queue, api>>, NEW w \in Workers,
         NEW s \in {"retry", "completed", "failed"},
         NEW pc \in Places \ (ExecPlaces \cup {"enqueue", "publish"}),
         worker[w].pc # "idle", Executing(w) \/ s = "failed",
         Transition(worker[w].op, s), Goes(w, pc),
         pc = "acknowledge" => /\ s = "completed"
                               /\ Executing(w)
                               /\ worker[w].op = "upload" => remote.mapped
                               /\ worker[w].op = "index" => remote.index = "indexed"
  PROVE  VideoInv'
<1>1. worker[w].op \in Operations
  BY Unmoved DEF WorkersTyped, WorkerStates
<1>2. Turns(worker[w].op, s, jobs[worker[w].op].attempts)
  BY <1>1, Unmoved, TransitionDoes
<1>3. ExecutionInv'
  BY <1>2, ExecutionEnds
<1> QED
  BY <1>1, <1>2, <1>3, TurnedAhead, Unmoved, WorkerStep

(* Nobody handles a delivery in these.                                     *)
LEMMA IdleStep ==
  ASSUME VideoInv, RestTyped', JobsTyped', JobsAhead, UNCHANGED <<remote, worker>>,
         QueueKeeps \/ \E op \in Operations : QueueGrows(op) /\ jobs'[op].state # "none",
         api' = "publish" => api = "publish" \/ jobs'["upload"].state # "none",
         ExecutionInv'
  PROVE  VideoInv'
<1>1. VideoShape'
  BY TypesNext, Unmoved DEF QueueKeeps, QueueGrows, WorkersTyped, RemoteTyped
<1> QED
  BY <1>1, DeliveriesKept DEF VideoInv

LEMMA ApiStep ==
  ASSUME VideoInv, AcceptUpload \/ PublishUpload \/ CrashApi
  PROVE  VideoInv'
<1> USE Unmoved
<1>1. CASE AcceptUpload
  <2>1. "upload" \in Operations
    BY DEF Operations
  <2>2. ExecutionInv' /\ JobsTyped' /\ JobsAhead /\ jobs'["upload"].state # "none"
    BY <1>1, <2>1, ExecutionPrepared DEF AcceptUpload
  <2>3. env.uploads + 1 \in 0..MaxUploads
    BY <1>1, VideoAssumption DEF AcceptUpload, RestTyped, EnvTyped
  <2>4. RestTyped'
    BY <1>1, <2>3 DEF AcceptUpload, RestTyped, EnvTyped
  <2> QED
    BY <1>1, <2>2, <2>4, IdleStep DEF AcceptUpload
<1>2. CASE PublishUpload
  <2>1. "upload" \in Operations
    BY DEF Operations
  <2>2. QueueGrows("upload") /\ jobs'["upload"].state # "none"
    BY <1>2, <2>1, SendDoes DEF PublishUpload, VideoInv, DeliveriesInv
  <2>3. RestTyped'
    BY <1>2 DEF PublishUpload, RestTyped, EnvTyped
  <2> QED
    BY <1>2, <2>1, <2>2, <2>3, KeptAhead, ExecutionRests, IdleStep DEF PublishUpload
<1>3. CASE CrashApi
  <2>1. RestTyped'
    BY <1>3, TroubleDoes DEF CrashApi, RestTyped
  <2> QED
    BY <1>3, <2>1, KeptAhead, ExecutionRests, IdleStep DEF CrashApi
<1> QED
  BY <1>1, <1>2, <1>3

LEMMA BrokerStep ==
  ASSUME VideoInv, NEW m \in Messages, Redrive(m) \/ Reappear(m)
  PROVE  VideoInv'
<1> USE Unmoved
<1>1. QueueKeeps
  <2>1. PICK s \in {"dead", "waiting"} : queue' = [queue EXCEPT ![m] = [queue[m] EXCEPT !.state = s]]
    BY DEF Redrive, Reappear
  <2>2. queue[m].state # "unsent"
    BY DEF Redrive, Reappear
  <2> DEFINE row == [queue[m] EXCEPT !.state = s]
  <2>3. row \in MessageRows /\ row.state = s /\ row.op = queue[m].op
    BY DEF QueueTyped, MessageRows
  <2>4. queue' = [queue EXCEPT ![m] = row]
    BY <2>1
  <2> HIDE DEF row
  <2> QED
    BY <2>2, <2>3, <2>4 DEF QueueTyped, QueueKeeps
<1>2. RestTyped'
  BY TroubleDoes DEF RestTyped, EnvTyped, Redrive, Reappear
<1> QED
  BY <1>1, <1>2, KeptAhead, ExecutionRests, IdleStep DEF Redrive, Reappear

LEMMA DueStep ==
  ASSUME VideoInv, NEW op \in Operations, Due(op)
  PROVE  VideoInv'
<1> USE Unmoved
<1>1. JobsKeep
  <2> DEFINE row == [jobs[op] EXCEPT !.due = TRUE]
  <2>1. /\ row \in JobRows
        /\ row.state = jobs[op].state /\ row.attempts = jobs[op].attempts
    BY DEF JobsTyped, JobRows
  <2>2. jobs' = [jobs EXCEPT ![op] = row]
    BY DEF Due
  <2> HIDE DEF row
  <2> QED
    BY <2>1, <2>2 DEF JobsTyped, JobsKeep
<1>2. QueueKeeps
  <2>1. \A m \in Messages : [queue[m] EXCEPT !.late = FALSE] \in MessageRows
    BY DEF QueueTyped, MessageRows
  <2>2. \A m \in Messages : /\ [queue[m] EXCEPT !.late = FALSE].state = queue[m].state
                           /\ [queue[m] EXCEPT !.late = FALSE].op = queue[m].op
    BY DEF QueueTyped, MessageRows
  <2> QED
    BY <2>1, <2>2 DEF Due, QueueTyped, QueueKeeps
<1> QED
  BY <1>1, <1>2, KeptAhead, ExecutionRests, IdleStep DEF Due, RestTyped, EnvTyped

LEMMA ReceiveStep ==
  ASSUME VideoInv, NEW w \in Workers, NEW m \in Messages, Receive(w, m)
  PROVE  VideoInv'
<1> USE Unmoved
<1> DEFINE row == Delivered(queue[m], w)
           x == [pc |-> "look", msg |-> m, op |-> queue[m].op]
<1>1. queue[m] \in MessageRows /\ queue[m].state = "waiting"
  BY DEF QueueTyped, Receive
<1>2. row \in MessageRows /\ row.state = "held" /\ row.op = queue[m].op
  <2>1. CASE Postgres
    BY <1>1, <2>1 DEF Delivered, MessageRows
  <2>2. CASE ~ Postgres
    <3>1. queue[m].count + 1 \in 0..MaxReceives
      BY <1>1, <2>2, VideoAssumption DEF Receive, MessageRows
    <3> QED
      BY <1>1, <2>2, <3>1 DEF Delivered, MessageRows
  <2> QED
    BY <2>1, <2>2
<1>3. x \in WorkerStates /\ x.pc = "look" /\ x.msg = m /\ x.op = queue[m].op
  BY <1>1 DEF WorkerStates, MessageRows, Places
<1>4. queue' = [queue EXCEPT ![m] = row] /\ worker' = [worker EXCEPT ![w] = x]
  BY DEF Receive
<1> HIDE DEF row, x
<1>5. /\ WorkersTyped' /\ worker'[w] = x
      /\ \A v \in Workers \ {w} : worker'[v] = worker[v]
  BY <1>3, <1>4 DEF WorkersTyped
<1>6. QueueKeeps
  BY <1>1, <1>2, <1>4 DEF QueueTyped, QueueKeeps
<1>7. ExecutionInv'
  BY <1>3, <1>5, ExecutionLeft DEF Receive, FreePlaces, Places, ExecPlaces
<1>8. RestTyped'
  BY DEF Receive
<1>9. VideoShape'
  BY <1>5, <1>6, <1>8, TypesNext DEF QueueKeeps, Receive, JobsTyped, RemoteTyped
<1>10. DeliveriesInv'
  <2>1. \A n \in Messages : Published(n)'
    BY <1>6 DEF Receive, VideoInv, DeliveriesInv, Published, QueueKeeps
  <2>2. DeliveryInv(w)'
    BY <1>1, <1>3, <1>5, <1>6 DEF DeliveryInv, QueueKeeps
  <2>3. ASSUME NEW v \in Workers \ {w}
        PROVE  DeliveryInv(v)'
    BY <1>5, <1>6 DEF DeliveryInv, QueueKeeps, VideoInv, DeliveriesInv, Receive
  <2> QED
    BY <2>1, <2>2, <2>3 DEF VideoInv, DeliveriesInv, Receive
<1> QED
  BY <1>7, <1>9, <1>10 DEF VideoInv

(* A delivery before and after its job is run.                             *)
LEMMA DeliveryStep ==
  ASSUME VideoInv, NEW w \in Workers,
         \/ Look(w) \/ Claim(w) \/ ClaimRefused(w) \/ LeaseLost(w) \/ Delay(w)
         \/ SpoilAsset(w) \/ MarkDeadLettered(w) \/ DeadLetter(w)
  PROVE  VideoInv'
<1> USE Unmoved
<1> DEFINE op == worker[w].op
<1>1. op \in Operations /\ DeliveryInv(w)
  BY DEF WorkersTyped, WorkerStates, VideoInv, DeliveriesInv
<1>2. CASE Look(w)
  <2>1. PICK pc \in {"settle", "claim"} : Become(w, pc)
    BY <1>2 DEF Look
  <2>2. pc \in FreePlaces \ {"publish"} /\ pc \in Places
    BY DEF FreePlaces, Places, ExecPlaces
  <2> QED
    BY <1>2, <2>1, <2>2, BecomeDoes, LeaveStep DEF Look, At
<1>3. CASE Claim(w)
  <2>1. Goes(w, "run")
    BY <1>3, BecomeDoes DEF Claim, Places
  <2>2. Turns(op, "running", jobs[op].attempts + 1)
    BY <1>1, <1>3, ClaimDoes
  <2>3. ExecutionInv'
    BY <1>3, <2>1, <2>2, ExecutionBegins DEF Claim, At
  <2> QED
    BY <1>1, <1>3, <2>1, <2>2, <2>3, TurnedAhead, WorkerStep DEF Claim, At, Places
<1>4. CASE ClaimRefused(w) \/ LeaseLost(w) \/ Delay(w)
  <2>1. worker[w].pc # "idle"
    BY <1>4 DEF ClaimRefused, LeaseLost, Delay, At
  <2>2. QueueKeeps
    BY <1>1, <1>4, <2>1, PutDoes DEF ClaimRefused, LeaseLost, Delay
  <2>3. Goes(w, "idle") /\ "idle" \in FreePlaces \ {"publish"}
    BY <1>4, RestDoes DEF ClaimRefused, LeaseLost, Delay, FreePlaces, Places, ExecPlaces
  <2> QED
    BY <1>4, <2>1, <2>2, <2>3, LeaveStep DEF ClaimRefused, LeaseLost, Delay
<1>5. CASE SpoilAsset(w)
  <2>1. Goes(w, "mark") /\ "mark" \in FreePlaces \ {"publish"}
    BY <1>5, BecomeDoes DEF SpoilAsset, FreePlaces, Places, ExecPlaces
  <2>2. RestTyped'
    BY <1>5 DEF SpoilAsset, RestTyped, EnvTyped
  <2> QED
    BY <1>5, <2>1, <2>2, LeaveStep DEF SpoilAsset, At
<1>6. CASE MarkDeadLettered(w)
  <2>1. Goes(w, "bury") /\ "bury" \in FreePlaces \ {"publish"}
    BY <1>6, BecomeDoes DEF MarkDeadLettered, FreePlaces, Places, ExecPlaces
  <2>2. JobsKeep
    BY <1>1, <1>6, MarkDoes
  <2> QED
    BY <1>6, <2>1, <2>2, LeaveStep DEF MarkDeadLettered, At
<1>7. CASE DeadLetter(w)
  <2>1. worker[w].pc # "idle"
    BY <1>7 DEF DeadLetter, At
  <2>2. QueueKeeps
    <3>1. CASE Postgres
      BY <1>1, <1>7, <2>1, <3>1, PutDoes DEF DeadLetter
    <3>2. CASE ~ Postgres
      <4> DEFINE m == worker[w].msg
                 row == [queue[m] EXCEPT !.state = "dead"]
      <4>1. m \in Messages /\ queue[m].state # "unsent"
        BY <1>1, <2>1 DEF DeliveryInv
      <4>2. row \in MessageRows /\ row.state = "dead" /\ row.op = queue[m].op
        BY <4>1 DEF QueueTyped, MessageRows
      <4>3. queue' = [queue EXCEPT ![m] = row]
        BY <1>7, <3>2 DEF DeadLetter
      <4> HIDE DEF row, m
      <4> QED
        BY <4>1, <4>2, <4>3 DEF QueueTyped, QueueKeeps
    <3> QED
      BY <3>1, <3>2
  <2>3. Goes(w, "idle") /\ "idle" \in FreePlaces \ {"publish"}
    BY <1>7, RestDoes DEF DeadLetter, FreePlaces, Places, ExecPlaces
  <2> QED
    BY <1>7, <2>1, <2>2, <2>3, LeaveStep DEF DeadLetter
<1> QED
  BY <1>2, <1>3, <1>4, <1>5, <1>6, <1>7

(* A worker runs its job: where it may go, and what it finds or leaves.    *)
LEMMA ExecuteStep ==
  ASSUME VideoInv, NEW w \in Workers, Execute(w) \/ RenewalFails(w)
  PROVE  VideoInv'
<1> USE Unmoved
<1> DEFINE op == worker[w].op
           pc == worker[w].pc
<1>1. op \in Operations /\ PlaceInv(w) /\ Executing(w)
  BY DEF WorkersTyped, WorkerStates, VideoInv, ExecutionInv, Execute, Upload, UploadCall,
         StoreMapping, TouchAsset, Index, Analyze, RenewalFails, At, Executing
<1>2. "retryable" \in ExecPlaces /\ "fail" \in ExecPlaces /\ ExecPlaces \subseteq Places
  BY DEF ExecPlaces, Places
<1>3. RestTyped' /\ UNCHANGED <<jobs, queue, api>>
  BY DEF RestTyped, EnvTyped, Execute, Upload, UploadCall, StoreMapping, TouchAsset, Index, Analyze,
         RenewalFails
<1>4. RemoteTyped'
  <2>1. CASE UploadCall(w)
    <3>1. PICK left \in {0, 1} : remote' = [remote EXCEPT !.copies = @ + left]
      BY <2>1 DEF UploadCall
    <3>2. remote.copies + left \in Nat
      BY DEF RemoteTyped
    <3> QED
      BY <3>1, <3>2 DEF RemoteTyped
  <2>2. CASE ~ UploadCall(w)
    BY <2>2 DEF RemoteTyped, Execute, Upload, StoreMapping, TouchAsset, Index, Analyze, RenewalFails
  <2> QED
    BY <2>1, <2>2
<1>5. ASSUME NEW to \in ExecPlaces, Goes(w, to),
             remote'.mapped = remote.mapped \/ (op = "upload" /\ remote'.mapped),
             remote'.index = remote.index \/ op = "index" \/ ~ remote.mapped,
             to \in {"call", "store", "touch"} => op = "upload",
             to \in {"call", "store"} => ~ remote'.mapped,
             to \in {"touch", "finish"} /\ op = "upload" => remote'.mapped,
             to = "finish" /\ op = "index" => remote'.index = "indexed"
      PROVE  VideoInv'
  <2>1. ExecutionInv'
    BY <1>1, <1>3, <1>5, ExecutionGoesOn
  <2> QED
    BY <1>1, <1>3, <1>4, <1>5, <2>1, GoOnStep
<1>6. ASSUME NEW to \in {"retryable", "fail"}, Goes(w, to), remote'.mapped = remote.mapped,
             remote'.index = remote.index
      PROVE  VideoInv'
  BY <1>2, <1>5, <1>6
<1>7. CASE Upload(w)
  <2>1. CASE Outcome(w)
    BY <1>6, <1>7, <2>1, OutcomeDoes DEF Upload
  <2>2. CASE Become(w, IF remote.mapped THEN "finish" ELSE "call")
    <3>1. PICK to \in {"finish", "call"} : /\ to = "finish" <=> remote.mapped
                                          /\ Become(w, to)
      BY <2>2
    <3>2. to \in ExecPlaces
      BY DEF ExecPlaces
    <3>3. Goes(w, to)
      BY <1>2, <3>1, <3>2, BecomeDoes
    <3> QED
      BY <1>5, <1>7, <3>1, <3>2, <3>3 DEF Upload
  <2> QED
    BY <1>7, <2>1, <2>2 DEF Upload
<1>8. CASE UploadCall(w)
  <2>1. op = "upload" /\ ~ remote.mapped
    BY <1>1, <1>8 DEF UploadCall, At, PlaceInv
  <2>2. remote'.mapped = remote.mapped /\ remote'.index = remote.index
    BY <1>8 DEF UploadCall, RemoteTyped
  <2>3. CASE Become(w, "store")
    <3>1. "store" \in ExecPlaces
      BY DEF ExecPlaces
    <3>2. Goes(w, "store")
      BY <1>2, <2>3, <3>1, BecomeDoes
    <3> QED
      BY <1>5, <2>1, <2>2, <3>1, <3>2
  <2>4. CASE Outcome(w)
    BY <1>6, <2>2, <2>4, OutcomeDoes
  <2> QED
    BY <1>8, <2>3, <2>4 DEF UploadCall
<1>9. CASE StoreMapping(w)
  <2>1. op = "upload" /\ ~ remote.mapped
    BY <1>1, <1>9 DEF StoreMapping, At, PlaceInv
  <2>2. remote'.mapped = TRUE
    BY <1>9 DEF StoreMapping, RemoteTyped
  <2>3. "touch" \in ExecPlaces
    BY DEF ExecPlaces
  <2>4. Goes(w, "touch")
    BY <1>2, <1>9, <2>3, BecomeDoes DEF StoreMapping
  <2> QED
    BY <1>5, <2>1, <2>2, <2>3, <2>4
<1>10. CASE TouchAsset(w)
  <2>1. op = "upload" /\ remote.mapped
    BY <1>1, <1>10 DEF TouchAsset, At, PlaceInv
  <2>2. "finish" \in ExecPlaces
    BY DEF ExecPlaces
  <2>3. Goes(w, "finish")
    BY <1>2, <1>10, <2>2, BecomeDoes DEF TouchAsset
  <2> QED
    BY <1>5, <1>10, <2>1, <2>2, <2>3 DEF TouchAsset
<1>11. CASE Index(w)
  <2>1. op = "index"
    BY <1>11 DEF Index
  <2>2. CASE Outcome(w) /\ UNCHANGED remote
    BY <1>6, <2>2, OutcomeDoes
  <2>3. CASE \E status \in {"pending", "indexed", "failed"} :
               /\ remote' = [remote EXCEPT !.index = status]
               /\ Become(w, CASE status = "pending" -> "again"
                              [] status = "indexed" -> "finish"
                              [] status = "failed" -> "fail")
    <3>1. PICK to \in {"again", "finish", "fail"} :
            /\ Become(w, to)
            /\ remote'.mapped = remote.mapped
            /\ to = "finish" => remote'.index = "indexed"
      BY <2>3 DEF RemoteTyped
    <3>2. to \in ExecPlaces
      BY DEF ExecPlaces
    <3>3. Goes(w, to)
      BY <1>2, <3>1, <3>2, BecomeDoes
    <3> QED
      BY <1>5, <2>1, <3>1, <3>2, <3>3
  <2> QED
    BY <1>11, <2>2, <2>3 DEF Index
<1>12. CASE Analyze(w)
  <2>1. op = "analyze" /\ remote' = remote
    BY <1>12 DEF Analyze
  <2>2. CASE Outcome(w)
    BY <1>6, <2>1, <2>2, OutcomeDoes
  <2>3. CASE Become(w, "finish")
    <3>1. "finish" \in ExecPlaces
      BY DEF ExecPlaces
    <3>2. Goes(w, "finish")
      BY <1>2, <2>3, <3>1, BecomeDoes
    <3> QED
      BY <1>5, <2>1, <3>1, <3>2
  <2> QED
    BY <1>12, <2>2, <2>3 DEF Analyze
<1>13. CASE RenewalFails(w)
  <2>1. Goes(w, "retryable")
    BY <1>2, <1>13, BecomeDoes DEF RenewalFails
  <2> QED
    BY <1>6, <1>13, <2>1 DEF RenewalFails
<1> QED
  BY <1>7, <1>8, <1>9, <1>10, <1>11, <1>12, <1>13 DEF Execute

(* A job ends, or another attempt is put off; a worker fails or dies.      *)
LEMMA EndingStep ==
  ASSUME VideoInv, NEW w \in Workers,
         Retry(w) \/ Fail(w) \/ Finish(w) \/ Defect(w) \/ CrashWorker(w)
  PROVE  VideoInv'
<1> USE Unmoved
<1> DEFINE op == worker[w].op
<1>1. op \in Operations /\ PlaceInv(w) /\ DeliveryInv(w)
  BY DEF WorkersTyped, WorkerStates, VideoInv, ExecutionInv, DeliveriesInv
<1>2. CASE Retry(w)
  <2>1. Executing(w) /\ worker[w].pc # "idle"
    BY <1>2 DEF Retry, Executing
  <2>2. CASE Job(w).attempts < MaxAttempts[op]
    <3>1. PICK pc \in {"wait", "delay"} : Become(w, pc)
      BY <1>2, <2>2 DEF Retry
    <3>2. pc \in Places \ (ExecPlaces \cup {"enqueue", "publish"}) /\ pc # "acknowledge"
      BY DEF Places, ExecPlaces
    <3>3. Goes(w, pc)
      BY <3>1, <3>2, BecomeDoes
    <3>4. Transition(op, "retry") /\ RestTyped' /\ UNCHANGED <<remote, queue, api>>
      BY <1>2, <2>2 DEF Retry
    <3> QED
      BY <2>1, <3>2, <3>3, <3>4, EndStep
  <2>3. CASE ~ (Job(w).attempts < MaxAttempts[op])
    <3>1. Become(w, "fail") /\ "fail" \in Places /\ "fail" \in ExecPlaces
      BY <1>2, <2>3 DEF Retry, Places, ExecPlaces
    <3>2. Goes(w, "fail")
      BY <3>1, BecomeDoes
    <3>3. UNCHANGED <<jobs, remote, queue, api, asset, env>>
      BY <1>2, <2>3 DEF Retry
    <3>4. ExecutionInv'
      BY <2>1, <3>1, <3>2, <3>3, ExecutionGoesOn
    <3> QED
      BY <2>1, <3>1, <3>2, <3>3, <3>4, GoOnStep
  <2> QED
    BY <2>2, <2>3
<1>3. CASE Fail(w)
  <2>1. Executing(w) /\ worker[w].pc # "idle"
    BY <1>3 DEF Fail, At, Executing
  <2>2. "spoil" \in Places \ (ExecPlaces \cup {"enqueue", "publish"})
    BY DEF Places, ExecPlaces
  <2>3. Goes(w, "spoil")
    BY <1>3, <2>2, BecomeDoes DEF Fail
  <2> QED
    BY <1>3, <2>1, <2>2, <2>3, EndStep DEF Fail
<1>4. CASE Finish(w)
  <2>1. Executing(w) /\ worker[w].pc = "finish"
    BY <1>4 DEF Finish, At, Executing
  <2>2. "acknowledge" \in Places \ (ExecPlaces \cup {"enqueue", "publish"})
    BY DEF Places, ExecPlaces
  <2>3. Goes(w, "acknowledge")
    BY <1>4, <2>2, BecomeDoes DEF Finish
  <2>4. (op = "upload" => remote.mapped) /\ (op = "index" => remote.index = "indexed")
    BY <1>1, <2>1 DEF PlaceInv
  <2> QED
    BY <1>4, <2>1, <2>2, <2>3, <2>4, EndStep DEF Finish
<1>5. CASE Defect(w)
  <2>1. worker[w].pc # "idle"
    BY <1>5 DEF Defect
  <2>2. "mark" \in Places \ (ExecPlaces \cup {"enqueue", "publish"})
    BY DEF Places, ExecPlaces
  <2>3. Goes(w, "mark")
    BY <1>5, <2>2, BecomeDoes DEF Defect
  <2>4. RestTyped'
    BY <1>5, TroubleDoes DEF Defect, RestTyped
  <2> QED
    BY <1>5, <2>1, <2>2, <2>3, <2>4, EndStep DEF Defect
<1>6. CASE CrashWorker(w)
  <2>1. worker[w].pc # "idle"
    BY <1>6 DEF CrashWorker, At
  <2>2. QueueKeeps
    BY <1>1, <1>6, <2>1, PutDoes DEF CrashWorker
  <2>3. Goes(w, "idle") /\ "idle" \in FreePlaces \ {"publish"}
    BY <1>6, RestDoes DEF CrashWorker, FreePlaces, Places, ExecPlaces
  <2>4. RestTyped'
    BY <1>6, TroubleDoes DEF CrashWorker, RestTyped
  <2> QED
    BY <1>6, <2>1, <2>2, <2>3, <2>4, LeaveStep DEF CrashWorker
<1> QED
  BY <1>2, <1>3, <1>4, <1>5, <1>6

(* The hand-over to the next job.                                          *)
LEMMA HandOverStep ==
  ASSUME VideoInv, NEW w \in Workers, Acknowledge(w) \/ EnqueueNext(w) \/ PublishNext(w)
  PROVE  VideoInv'
<1> USE Unmoved, NextOperations
<1> DEFINE op == worker[w].op
           next == NextOperation[op]
<1>1. op \in Operations /\ PlaceInv(w) /\ DeliveryInv(w)
  BY DEF WorkersTyped, WorkerStates, VideoInv, ExecutionInv, DeliveriesInv
<1>2. worker[w].pc # "idle" /\ UNCHANGED <<asset, remote, api, env>>
  BY DEF Acknowledge, EnqueueNext, PublishNext, At
<1>3. CASE Acknowledge(w)
  <2>1. QueueKeeps /\ jobs' = jobs
    BY <1>1, <1>2, <1>3, PutDoes DEF Acknowledge
  <2>2. CASE Rest(w)
    <3>1. Goes(w, "idle") /\ "idle" \in FreePlaces \ {"publish"}
      BY <2>2, RestDoes DEF FreePlaces, Places, ExecPlaces
    <3> QED
      BY <1>2, <2>1, <3>1, LeaveStep
  <2>3. CASE At(w, "acknowledge") /\ op \in DOMAIN NextOperation /\ Become(w, "enqueue")
    <3>1. "enqueue" \in Places
      BY DEF Places
    <3>2. Goes(w, "enqueue")
      BY <2>3, <3>1, BecomeDoes
    <3>3. GoesRightly(w, "enqueue")
      BY <1>2, <2>3, <3>2 DEF GoesRightly
    <3>4. \A v \in Workers : Executing(v)' => Executing(v) /\ worker'[v] = worker[v]
      BY <3>2 DEF Goes, Executing
    <3>5. \A o \in Operations : Over(o) => Over(o)'
      BY <2>1, <3>4 DEF Over
    <3>6. \A v \in Workers : PlaceInv(v)'
      <4>1. ASSUME NEW v \in Workers \ {w}
            PROVE  PlaceInv(v)'
        <5>1. PlaceInv(v) /\ worker'[v] = worker[v] /\ worker[v].op \in Operations
          BY <3>2 DEF VideoInv, ExecutionInv, Goes, WorkersTyped, WorkerStates
        <5> QED
          BY <1>2, <2>1, <3>5, <5>1 DEF PlaceInv, Executing
      <4>2. PlaceInv(w)'
        BY <1>1, <1>2, <2>1, <2>3, <3>2, <3>5 DEF PlaceInv, Goes, Executing, At
      <4> QED
        BY <4>1, <4>2
    <3>7. OneExecutor'
      BY <3>4 DEF VideoInv, ExecutionInv, OneExecutor
    <3>8. ExecutionInv'
      BY <1>2, <2>1, <3>5, <3>6, <3>7 DEF VideoInv, ExecutionInv, ChainInOrder, Operations
    <3> QED
      BY <1>2, <2>1, <3>1, <3>3, <3>8, KeptAhead, AnyWorkerStep
  <2> QED
    BY <1>3, <2>2, <2>3 DEF Acknowledge
<1>4. CASE EnqueueNext(w)
  <2>1. op \in DOMAIN NextOperation /\ next \in Operations
    BY <1>1, <1>4 DEF EnqueueNext, At, DeliveryInv, Operations
  <2>2. EnqueueJob(next) /\ queue' = queue
    BY <1>4 DEF EnqueueNext
  <2>3. PICK pc \in {"publish", "idle"} : Goes(w, pc)
    <3>1. CASE Become(w, "publish")
      BY <3>1, BecomeDoes DEF Places
    <3>2. CASE Rest(w)
      BY <3>2, RestDoes
    <3> QED
      BY <1>4, <3>1, <3>2 DEF EnqueueNext
  <2>4. pc \in FreePlaces /\ pc \in Places
    BY DEF FreePlaces, Places, ExecPlaces
  <2>5. /\ next = "index" => remote.mapped
        /\ next = "analyze" => remote.index = "indexed" /\ Over("index")
    BY <1>1, <1>4, <2>1 DEF EnqueueNext, At, PlaceInv
  <2>6. ExecutionInv' /\ JobsTyped' /\ JobsAhead /\ jobs'[next].state # "none"
    BY <1>2, <2>1, <2>2, <2>3, <2>4, <2>5, ExecutionPrepared
  <2>7. GoesRightly(w, pc)
    BY <1>2, <2>1, <2>3, <2>6 DEF GoesRightly
  <2> QED
    BY <1>2, <2>2, <2>4, <2>6, <2>7, AnyWorkerStep
<1>5. CASE PublishNext(w)
  <2>1. next \in Operations /\ jobs[next].state # "none"
    BY <1>1, <1>5 DEF PublishNext, At, DeliveryInv, Operations
  <2>2. jobs' = jobs /\ QueueGrows(next)
    BY <1>5, <2>1, SendDoes DEF PublishNext
  <2>3. Goes(w, "idle") /\ "idle" \in FreePlaces /\ "idle" \in Places
    BY <1>5, RestDoes DEF PublishNext, FreePlaces, Places, ExecPlaces
  <2>4. GoesRightly(w, "idle")
    BY <2>3 DEF GoesRightly
  <2>5. ExecutionInv'
    BY <1>2, <2>2, <2>3, ExecutionLeft DEF Goes
  <2> QED
    BY <1>2, <2>1, <2>2, <2>3, <2>4, <2>5, KeptAhead, AnyWorkerStep
<1> QED
  BY <1>3, <1>4, <1>5
-----------------------------------------------------------------------------
LEMMA VideoInvInit == VideoInit => VideoInv
<1> SUFFICES ASSUME VideoInit
             PROVE  VideoInv
  OBVIOUS
<1> USE VideoAssumption
<1>1. /\ \A op \in Operations : jobs[op] = NoJob
      /\ \A m \in Messages : queue[m] = NoMessage
      /\ \A w \in Workers : worker[w] = IdleWorker
  BY DEF VideoInit
<1>2. /\ \A op \in Operations : jobs[op].state = "none" /\ jobs[op].attempts = 0
      /\ \A m \in Messages : queue[m].state = "unsent"
      /\ \A w \in Workers : worker[w].pc = "idle"
  BY <1>1 DEF NoJob, NoMessage, IdleWorker
<1>3. VideoShape
  <2>1. JobsTyped
    BY DEF VideoInit, JobsTyped, JobRows, NoJob
  <2>2. QueueTyped
    <3>1. NoMessage \in MessageRows
      BY DEF NoMessage, MessageRows, Operations
    <3> QED
      BY <3>1 DEF VideoInit, QueueTyped
  <2>3. WorkersTyped
    BY DEF VideoInit, WorkersTyped, WorkerStates, IdleWorker, Places, Operations
  <2>4. RemoteTyped
    BY DEF VideoInit, RemoteTyped
  <2>5. EnvTyped
    <3>1. 0 \in 0..MaxUploads /\ 0 \in 0..MaxTrouble
      OBVIOUS
    <3> QED
      BY <3>1 DEF VideoInit, EnvTyped
  <2> QED
    BY <2>1, <2>2, <2>3, <2>4, <2>5, Types DEF VideoInit
<1>4. DeliveriesInv
  BY <1>2 DEF DeliveriesInv, Published, DeliveryInv, VideoInit
<1>5. ExecutionInv
  BY <1>2 DEF ExecutionInv, OneExecutor, PlaceInv, ChainInOrder, Executing, Over, Operations
<1> QED
  BY <1>3, <1>4, <1>5 DEF VideoInv

LEMMA VideoInvNext == VideoInv /\ [VideoNext]_videoVars => VideoInv'
<1> SUFFICES ASSUME VideoInv, [VideoNext]_videoVars
             PROVE  VideoInv'
  OBVIOUS
<1>1. CASE UNCHANGED videoVars
  BY <1>1 DEF videoVars, VideoInv, VideoShape, DeliveriesInv, ExecutionInv, Published, DeliveryInv,
     PlaceInv, OneExecutor, ChainInOrder, Over, Executing, At
<1>2. CASE VideoNext
  BY <1>2, ApiStep, BrokerStep, DueStep, ReceiveStep, DeliveryStep, ExecuteStep, EndingStep,
     HandOverStep DEF VideoNext, Handle
<1> QED
  BY <1>1, <1>2

(* The inductive invariant holds in every reachable state.                 *)
THEOREM VideoInvariant == VideoSpec => []VideoInv
  BY VideoInvInit, VideoInvNext, PTL DEF VideoSpec

(* The rows, the messages and the workers keep their shape: in particular  *)
(* SQS never delivers a message more often than its redrive policy allows, *)
(* and transition_job leaves no state the table does not know.             *)
THEOREM VideoTypeCorrect == VideoSpec => []VideoShape
<1>1. VideoInv => VideoShape
  BY DEF VideoInv
<1> QED
  BY <1>1, VideoInvariant, PTL

(* Two workers never execute one job at the same time, though any message  *)
(* may come back while it is held and anybody may fail a job under its     *)
(* worker (claim_job, transition_job).                                     *)
THEOREM OneExecutorAlways == VideoSpec => []OneExecutor
<1>1. VideoInv => OneExecutor
  BY DEF VideoInv, ExecutionInv
<1> QED
  BY <1>1, VideoInvariant, PTL

(* Nothing is indexed that has no mapping, nothing is analyzed before its  *)
(* index is complete (_execute, _enqueue_next).                            *)
THEOREM ChainInOrderAlways == VideoSpec => []ChainInOrder
<1>1. VideoInv => ChainInOrder
  BY DEF VideoInv, ExecutionInv
<1> QED
  BY <1>1, VideoInvariant, PTL

(* Once the provider's identifier is recorded no step sends the clip       *)
(* again: only an upload sends, it has looked for the mapping, and nobody  *)
(* else uploads between its look and its call.                             *)
THEOREM UploadedOnceAlways == VideoSpec => UploadedOnce
<1>1. VideoInv /\ [VideoNext]_videoVars => [remote.mapped => remote'.copies = remote.copies]_videoVars
  <2> SUFFICES ASSUME VideoInv, VideoNext, remote.mapped
               PROVE  remote'.copies = remote.copies
    BY DEF videoVars
  <2>1. RemoteTyped
    BY Unmoved
  <2>2. ASSUME NEW w \in Workers, UploadCall(w)
        PROVE  FALSE
    BY <2>2 DEF UploadCall, At, VideoInv, ExecutionInv, PlaceInv
  <2>3. ASSUME NEW w \in Workers, Handle(w)
        PROVE  remote'.copies = remote.copies
    BY <2>1, <2>2, <2>3 DEF RemoteTyped, Handle, Look, Claim, ClaimRefused, Execute, Upload,
         StoreMapping, TouchAsset, Index, Analyze, RenewalFails, LeaseLost, Retry, Delay, Fail,
         SpoilAsset, MarkDeadLettered, DeadLetter, Finish, Acknowledge, EnqueueNext, PublishNext
  <2> QED
    BY <2>3 DEF VideoNext, AcceptUpload, PublishUpload, CrashApi, Receive, Defect, CrashWorker,
         Redrive, Reappear, Due
<1> QED
  BY <1>1, VideoInvariant, PTL DEF VideoSpec, UploadedOnce

(* A finished job is not run again, whatever message, repeated upload or   *)
(* retry comes, and no job is attempted more often than it may be: whoever *)
(* could claim it finds it final, whoever could retry it executes it.      *)
THEOREM NoExtraRunAlways == VideoSpec => NoExtraRun
<1> DEFINE Finished(op) == jobs[op].state = "completed" =>
                             /\ jobs'[op].state \in Final
                             /\ jobs'[op].attempts = jobs[op].attempts
           Step == \A op \in Operations :
                     /\ jobs'[op].attempts <= MaxAttempts[op]
                     /\ jobs[op].state = "completed" =>
                          /\ jobs'[op].state \in Final
                          /\ jobs'[op].attempts = jobs[op].attempts
<1>1. VideoInv /\ VideoInv' /\ [VideoNext]_videoVars => [Step]_videoVars
  <2> SUFFICES ASSUME VideoInv, VideoInv', VideoNext, NEW op \in Operations
               PROVE  jobs'[op].attempts <= MaxAttempts[op] /\ Finished(op)
    BY DEF videoVars
  <2> USE Unmoved
  <2>1. jobs'[op].attempts <= MaxAttempts[op]
    BY DEF VideoInv, ExecutionInv
  <2>2. jobs' = jobs => Finished(op)
    BY DEF Final
  <2>3. ASSUME NEW o \in Operations, EnqueueJob(o)
        PROVE  Finished(op)
    BY <2>3, EnqueueJobDoes DEF Turns, Final
  <2>4. ASSUME NEW w \in Workers, Handle(w) \/ Defect(w)
        PROVE  Finished(op)
    <3>1. worker[w].op \in Operations /\ PlaceInv(w) /\ jobs[op] \in JobRows
      BY DEF WorkersTyped, WorkerStates, JobsTyped, VideoInv, ExecutionInv
    <3>2. CASE Claim(w)
      BY <3>1, <3>2, ClaimDoes DEF Claim, CanClaim, Claimable, Turns, Final
    <3>3. ASSUME NEW s \in {"retry", "completed", "failed"}, Transition(worker[w].op, s),
                 Executing(w) \/ s = "failed"
          PROVE  Finished(op)
      <4>1. Turns(worker[w].op, s, jobs[worker[w].op].attempts)
        BY <3>1, <3>3, TransitionDoes
      <4> QED
        BY <3>1, <3>3, <4>1 DEF Turns, Final, PlaceInv
    <3>4. CASE Retry(w) \/ Fail(w) \/ Finish(w) \/ Defect(w)
      <4>1. Executing(w) \/ Defect(w)
        BY <3>4 DEF Retry, Fail, Finish, At, Executing
      <4> QED
        BY <2>2, <3>3, <3>4, <4>1 DEF Retry, Fail, Finish, Defect
    <3>5. CASE MarkDeadLettered(w)
      BY <3>1, <3>5 DEF MarkDeadLettered, JobsTyped, JobRows, Final
    <3>6. CASE EnqueueNext(w)
      <4>1. NextOperation[worker[w].op] \in Operations
        BY <3>6, NextOperations DEF EnqueueNext, At, VideoInv, DeliveriesInv, DeliveryInv, Operations
      <4> QED
        BY <2>3, <3>6, <4>1 DEF EnqueueNext
    <3> QED
      BY <2>2, <2>4, <3>2, <3>4, <3>5, <3>6 DEF Handle, Look, ClaimRefused, Execute, Upload,
         UploadCall, StoreMapping, TouchAsset, Index, Analyze, RenewalFails, LeaseLost, Delay,
         SpoilAsset, DeadLetter, Acknowledge, PublishNext
  <2>5. CASE AcceptUpload
    BY <2>1, <2>3, <2>5 DEF AcceptUpload, Operations
  <2>6. ASSUME NEW o \in Operations, Due(o)
        PROVE  Finished(op)
    BY <2>6 DEF Due, JobsTyped, JobRows, Final
  <2> QED
    BY <2>1, <2>2, <2>4, <2>5, <2>6 DEF VideoNext, PublishUpload, CrashApi, Receive, CrashWorker,
         Redrive, Reappear
<1>2. VideoSpec => [][Step]_videoVars
  BY <1>1, VideoInvariant, PTL DEF VideoSpec
<1> QED
  BY <1>2 DEF NoExtraRun
-----------------------------------------------------------------------------
(* What the chain sees of a step (JobChain).                               *)

(* Nobody among W begins or stops executing, nor comes to a place where    *)
(* something is known of the copies.                                       *)
Steady(W) ==
  \A v \in W : /\ Executing(v)' <=> Executing(v)
               /\ Executing(v) => worker'[v].op = worker[v].op
               /\ worker'[v].pc \in {"run", "call"} => worker[v].pc \in {"run", "call"}
               /\ worker'[v].pc = "store" => worker[v].pc = "store"

Calm == JobsKeep /\ remote' = remote /\ Steady(Workers)
Opens(op) ==
  /\ jobs[op].state = "none" /\ Turns(op, "queued", 0)
  /\ op = "index" => Over("upload") /\ remote.mapped
  /\ op = "analyze" => Over("index") /\ remote.index = "indexed"
  /\ remote' = remote /\ Steady(Workers)
Begins(w) ==
  /\ CanClaim(worker[w].op)
  /\ Turns(worker[w].op, "running", jobs[worker[w].op].attempts + 1)
  /\ Goes(w, "run") /\ remote' = remote
Sends(w) ==
  /\ At(w, "call") /\ jobs' = jobs
  /\ \E n \in {0, 1}, pc \in {"store", "retryable", "fail"} :
       /\ remote' = [remote EXCEPT !.copies = @ + n]
       /\ Goes(w, pc) /\ (pc = "store" => n = 1)
Records(w) ==
  /\ At(w, "store") /\ jobs' = jobs
  /\ remote' = [remote EXCEPT !.mapped = TRUE, !.index = "pending"]
  /\ Goes(w, "touch")
Looks(w) ==
  /\ Executing(w) /\ worker[w].op = "index" /\ jobs' = jobs
  /\ \E status \in {"pending", "indexed", "failed"}, pc \in {"again", "finish", "fail"} :
       remote' = [remote EXCEPT !.index = status] /\ Goes(w, pc)
LetsGo(w) ==
  LET op == worker[w].op IN
  /\ Executing(w) /\ remote' = remote
  /\ \E pc \in Places \ ExecPlaces : Goes(w, pc)
  /\ \/ JobsKeep
     \/ \E s \in {"retry", "completed", "failed"} :
          /\ Turns(op, s, jobs[op].attempts)
          /\ s = "retry" => jobs[op].attempts < MaxAttempts[op]
          /\ s = "completed" => /\ op = "upload" => remote.mapped
                                /\ op = "index" => remote.index = "indexed"
Breaks(op) ==
  /\ jobs[op].state # "none" /\ Turns(op, "failed", jobs[op].attempts)
  /\ remote' = remote /\ Steady(Workers)

ChainStep ==
  \/ Calm
  \/ \E op \in Operations : Opens(op) \/ Breaks(op)
  \/ \E w \in Workers : Begins(w) \/ Sends(w) \/ Records(w) \/ Looks(w) \/ LetsGo(w)

LEMMA Stays ==
  ASSUME worker' = worker
  PROVE  Steady(Workers)
  BY DEF Steady, Executing

LEMMA GoesSteadily ==
  ASSUME NEW w \in Workers, NEW pc \in Places, Goes(w, pc),
         Executing(w) <=> pc \in ExecPlaces,
         pc \in {"run", "call"} => worker[w].pc \in {"run", "call"},
         pc = "store" => worker[w].pc = "store"
  PROVE  Steady(Workers)
  BY DEF Steady, Goes, Executing, ExecPlaces

LEMMA ExecutesThere ==
  \A w \in Workers : Executing(w) <=> worker[w].pc \in ExecPlaces
  BY DEF Executing, ExecPlaces

LEMMA HandleIsAChainStep ==
  ASSUME VideoInv, NEW w \in Workers, Handle(w)
  PROVE  ChainStep
<1> USE Unmoved
<1> DEFINE op == worker[w].op
<1>1. op \in Operations /\ PlaceInv(w) /\ DeliveryInv(w)
  BY DEF WorkersTyped, WorkerStates, VideoInv, ExecutionInv, DeliveriesInv
<1>2. ASSUME UNCHANGED <<jobs, remote>>, NEW pc \in Places, Goes(w, pc),
             Executing(w) <=> pc \in ExecPlaces,
             pc \in {"run", "call"} => worker[w].pc \in {"run", "call"}, pc # "store"
      PROVE  ChainStep
  BY <1>2, GoesSteadily DEF ChainStep, Calm
<1>3. /\ \A pc \in {"idle", "claim", "settle", "mark", "bury", "enqueue"} :
           pc \in Places /\ pc \notin ExecPlaces /\ pc \notin {"run", "call", "store"}
      /\ \A pc \in {"call", "finish", "retryable", "fail"} :
           pc \in Places /\ pc \in ExecPlaces /\ pc # "store"
  BY DEF Places, ExecPlaces
<1>4. CASE Look(w)
  <2>1. PICK pc \in {"claim", "settle"} : Become(w, pc)
    BY <1>4 DEF Look
  <2>2. Goes(w, pc)
    BY <1>3, <2>1, BecomeDoes
  <2> QED
    BY <1>2, <1>3, <1>4, <2>2 DEF Look, At, Executing
<1>5. CASE Claim(w)
  <2>1. Goes(w, "run")
    BY <1>5, BecomeDoes DEF Claim, Places
  <2> QED
    BY <1>1, <1>5, <2>1, ClaimDoes DEF ChainStep, Begins, Claim
<1>6. CASE ClaimRefused(w) \/ Delay(w) \/ DeadLetter(w) \/ PublishNext(w)
  <2>1. Goes(w, "idle") /\ UNCHANGED <<jobs, remote>>
    BY <1>6, RestDoes DEF ClaimRefused, Delay, DeadLetter, PublishNext
  <2>2. ~ Executing(w)
    BY <1>6 DEF ClaimRefused, Delay, DeadLetter, PublishNext, At, Executing
  <2> QED
    BY <1>2, <1>3, <2>1, <2>2
<1>7. CASE Upload(w)
  <2>1. PICK pc \in {"call", "finish", "retryable", "fail"} : Become(w, pc)
    BY <1>7 DEF Upload, Outcome
  <2>2. Goes(w, pc)
    BY <1>3, <2>1, BecomeDoes
  <2> QED
    BY <1>2, <1>3, <1>7, <2>2 DEF Upload, At, Executing
<1>8. CASE UploadCall(w)
  <2>1. PICK n \in {0, 1}, pc \in {"store", "retryable", "fail"} :
          remote' = [remote EXCEPT !.copies = @ + n] /\ Become(w, pc) /\ (pc = "store" => n = 1)
    BY <1>8 DEF UploadCall, Outcome
  <2>2. Goes(w, pc)
    BY <2>1, BecomeDoes DEF Places
  <2> QED
    BY <1>8, <2>1, <2>2 DEF ChainStep, Sends, UploadCall
<1>9. CASE StoreMapping(w)
  <2>1. Goes(w, "touch")
    BY <1>9, BecomeDoes DEF StoreMapping, Places
  <2> QED
    BY <1>9, <2>1 DEF ChainStep, Records, StoreMapping
<1>10. CASE TouchAsset(w)
  <2>1. Goes(w, "finish")
    BY <1>3, <1>10, BecomeDoes DEF TouchAsset
  <2> QED
    BY <1>2, <1>3, <1>10, <2>1 DEF TouchAsset, At, Executing
<1>11. CASE Index(w)
  <2>1. CASE Outcome(w) /\ UNCHANGED remote
    <3>1. PICK pc \in {"retryable", "fail"} : Become(w, pc)
      BY <2>1 DEF Outcome
    <3>2. Goes(w, pc)
      BY <1>3, <3>1, BecomeDoes
    <3> QED
      BY <1>2, <1>3, <1>11, <2>1, <3>2 DEF Index, At, Executing
  <2>2. ASSUME NEW status \in {"pending", "indexed", "failed"},
               NEW pc \in {"again", "finish", "fail"},
               remote' = [remote EXCEPT !.index = status], Become(w, pc)
        PROVE  ChainStep
    <3>1. Goes(w, pc)
      BY <2>2, BecomeDoes DEF Places
    <3> QED
      BY <1>11, <2>2, <3>1 DEF ChainStep, Looks, Index, At, Executing
  <2>3. \/ Outcome(w) /\ UNCHANGED remote
        \/ \E status \in {"pending", "indexed", "failed"}, pc \in {"again", "finish", "fail"} :
             remote' = [remote EXCEPT !.index = status] /\ Become(w, pc)
    BY <1>11 DEF Index
  <2> QED
    BY <2>1, <2>2, <2>3
<1>12. CASE Analyze(w)
  <2>1. PICK pc \in {"finish", "retryable", "fail"} : Become(w, pc)
    BY <1>12 DEF Analyze, Outcome
  <2>2. Goes(w, pc)
    BY <1>3, <2>1, BecomeDoes
  <2> QED
    BY <1>2, <1>3, <1>12, <2>2 DEF Analyze, At, Executing
<1>13. CASE RenewalFails(w)
  <2>1. Goes(w, "retryable")
    BY <1>3, <1>13, BecomeDoes DEF RenewalFails
  <2> QED
    BY <1>2, <1>3, <1>13, <2>1 DEF RenewalFails, Executing
<1>14. CASE LeaseLost(w)
  <2>1. Goes(w, "idle") /\ Executing(w)
    BY <1>14, RestDoes DEF LeaseLost, Executing
  <2> QED
    BY <1>3, <1>14, <2>1 DEF LeaseLost, ChainStep, LetsGo
<1>15. ASSUME NEW s \in {"retry", "completed", "failed"}, Transition(op, s), remote' = remote,
              Executing(w), NEW pc \in Places \ ExecPlaces, Become(w, pc),
              s = "retry" => jobs[op].attempts < MaxAttempts[op],
              s = "completed" => At(w, "finish")
       PROVE  ChainStep
  <2>1. Turns(op, s, jobs[op].attempts)
    BY <1>1, <1>15, TransitionDoes
  <2>2. Goes(w, pc)
    BY <1>15, BecomeDoes
  <2>3. s = "completed" => /\ op = "upload" => remote.mapped
                           /\ op = "index" => remote.index = "indexed"
    BY <1>1, <1>15 DEF PlaceInv, At
  <2> QED
    BY <1>15, <2>1, <2>2, <2>3 DEF ChainStep, LetsGo
<1>16. \A pc \in {"wait", "delay", "spoil", "acknowledge"} : pc \in Places \ ExecPlaces
  BY DEF Places, ExecPlaces
<1>17. CASE Retry(w)
  <2>1. Executing(w)
    BY <1>17 DEF Retry, Executing
  <2>2. CASE Job(w).attempts < MaxAttempts[op]
    <3>1. \E pc \in {"wait", "delay"} : Become(w, pc)
      BY <1>17, <2>2 DEF Retry
    <3> QED
      BY <1>15, <1>16, <1>17, <2>1, <2>2, <3>1 DEF Retry, Job
  <2>3. CASE ~ (Job(w).attempts < MaxAttempts[op])
    <3>1. Goes(w, "fail")
      BY <1>3, <1>17, <2>3, BecomeDoes DEF Retry
    <3> QED
      BY <1>2, <1>3, <1>17, <2>1, <2>3, <3>1 DEF Retry
  <2> QED
    BY <2>2, <2>3
<1>18. CASE Fail(w) \/ Finish(w)
  BY <1>15, <1>16, <1>18 DEF Fail, Finish, At, Executing
<1>19. CASE SpoilAsset(w)
  <2>1. Goes(w, "mark")
    BY <1>3, <1>19, BecomeDoes DEF SpoilAsset
  <2> QED
    BY <1>2, <1>3, <1>19, <2>1 DEF SpoilAsset, At, Executing
<1>20. CASE MarkDeadLettered(w)
  <2>1. Goes(w, "bury")
    BY <1>3, <1>20, BecomeDoes DEF MarkDeadLettered
  <2>2. Steady(Workers)
    BY <1>3, <1>20, <2>1, GoesSteadily DEF MarkDeadLettered, At, Executing
  <2>3. JobsKeep
    BY <1>1, <1>20, MarkDoes
  <2> QED
    BY <1>20, <2>2, <2>3 DEF ChainStep, Calm, MarkDeadLettered
<1>21. CASE Acknowledge(w)
  <2>1. PICK pc \in {"enqueue", "idle"} : Goes(w, pc)
    BY <1>3, <1>21, BecomeDoes, RestDoes DEF Acknowledge
  <2> QED
    BY <1>2, <1>3, <1>21, <2>1 DEF Acknowledge, Executing
<1>22. CASE EnqueueNext(w)
  <2> DEFINE next == NextOperation[op]
  <2>1. /\ op \in {"upload", "index"} /\ next \in Operations
        /\ next = "index" => op = "upload"
        /\ next = "analyze" => op = "index"
        /\ next # "upload"
    BY <1>1, <1>22, NextOperations DEF EnqueueNext, At, DeliveryInv, Operations
  <2>2. PICK pc \in {"publish", "idle"} : Goes(w, pc)
    BY <1>22, BecomeDoes, RestDoes DEF EnqueueNext, Places
  <2>3. Steady(Workers) /\ remote' = remote /\ EnqueueJob(next)
    BY <1>22, <2>2, GoesSteadily DEF EnqueueNext, At, Executing, Places, ExecPlaces
  <2>4. /\ next = "index" => Over("upload") /\ remote.mapped
        /\ next = "analyze" => Over("index") /\ remote.index = "indexed"
    BY <1>1, <1>22, <2>1 DEF EnqueueNext, At, PlaceInv
  <2>5. Opens(next) \/ JobsKeep
    BY <2>1, <2>3, <2>4, EnqueueJobDoes DEF Opens, JobsKeep, Turns
  <2> QED
    BY <2>1, <2>3, <2>5 DEF ChainStep, Calm
<1> QED
  BY <1>4, <1>5, <1>6, <1>7, <1>8, <1>9, <1>10, <1>11, <1>12, <1>13, <1>14, <1>17, <1>18,
     <1>19, <1>20, <1>21, <1>22 DEF Handle, Execute

LEMMA IsAChainStep ==
  ASSUME VideoInv, VideoNext
  PROVE  ChainStep
<1> USE Unmoved
<1>1. ASSUME UNCHANGED <<jobs, remote, worker>>
      PROVE  ChainStep
  BY <1>1, Stays DEF ChainStep, Calm
<1>2. CASE AcceptUpload
  <2>1. "upload" \in Operations /\ EnqueueJob("upload") /\ remote' = remote /\ Steady(Workers)
    BY <1>2, Stays DEF AcceptUpload, Operations
  <2>2. Opens("upload") \/ JobsKeep
    BY <2>1, EnqueueJobDoes DEF Opens, JobsKeep, Turns
  <2> QED
    BY <2>1, <2>2 DEF ChainStep, Calm
<1>3. ASSUME NEW w \in Workers, NEW m \in Messages, Receive(w, m)
      PROVE  ChainStep
  <2>1. /\ worker[w].pc = "idle" /\ worker'[w].pc = "look"
        /\ \A v \in Workers \ {w} : worker'[v] = worker[v]
    BY <1>3 DEF Receive, At, WorkersTyped
  <2>2. Steady(Workers)
    BY <2>1 DEF Steady, Executing
  <2> QED
    BY <1>3, <2>2 DEF ChainStep, Calm, Receive
<1>4. ASSUME NEW w \in Workers, Defect(w)
      PROVE  ChainStep
  <2>1. worker[w].op \in Operations /\ DeliveryInv(w) /\ jobs[worker[w].op].state # "none"
    BY <1>4 DEF Defect, WorkersTyped, WorkerStates, VideoInv, DeliveriesInv, DeliveryInv, Published
  <2>2. /\ Turns(worker[w].op, "failed", jobs[worker[w].op].attempts)
        /\ Goes(w, "mark") /\ remote' = remote
    BY <1>4, <2>1, TransitionDoes, BecomeDoes DEF Defect, Places
  <2>3. "mark" \in Places \ ExecPlaces
    BY DEF Places, ExecPlaces
  <2>4. CASE Executing(w)
    BY <2>2, <2>3, <2>4 DEF ChainStep, LetsGo
  <2>5. CASE ~ Executing(w)
    BY <2>1, <2>2, <2>3, <2>5, GoesSteadily DEF ChainStep, Breaks
  <2> QED
    BY <2>4, <2>5
<1>5. ASSUME NEW w \in Workers, CrashWorker(w)
      PROVE  ChainStep
  <2>1. Goes(w, "idle") /\ UNCHANGED <<jobs, remote>> /\ "idle" \in Places \ ExecPlaces
    BY <1>5, RestDoes DEF CrashWorker, Places, ExecPlaces
  <2>2. CASE Executing(w)
    BY <2>1, <2>2 DEF ChainStep, LetsGo
  <2>3. CASE ~ Executing(w)
    BY <2>1, <2>3, GoesSteadily DEF ChainStep, Calm
  <2> QED
    BY <2>2, <2>3
<1>6. ASSUME NEW op \in Operations, Due(op)
      PROVE  ChainStep
  <2>1. JobsKeep
    BY <1>6 DEF Due, JobsKeep, JobsTyped, JobRows
  <2> QED
    BY <1>6, <2>1, Stays DEF ChainStep, Calm, Due
<1> QED
  BY <1>1, <1>2, <1>3, <1>4, <1>5, <1>6, HandleIsAChainStep
     DEF VideoNext, PublishUpload, CrashApi, Redrive, Reappear

(* A copy was sent for an attempt: whoever is about to send one has begun  *)
(* an attempt for it, and nothing is indexed that nobody sent.             *)
CopyInv ==
  /\ \A op \in Operations : jobs[op].state = "none" => jobs[op].attempts = 0
  /\ remote.copies <= jobs["upload"].attempts
  /\ \A w \in Workers :
       /\ worker[w].pc \in {"run", "call"} /\ worker[w].op = "upload"
            => remote.copies < jobs["upload"].attempts
       /\ worker[w].pc = "store" => remote.copies > 0
  /\ remote.index = "indexed" => remote.mapped

LEMMA CopyInvNext == VideoInv /\ VideoInv' /\ CopyInv /\ ChainStep => CopyInv'
<1> SUFFICES ASSUME VideoInv, VideoInv', CopyInv, ChainStep
             PROVE  CopyInv'
  OBVIOUS
<1>0. /\ "upload" \in Operations /\ "index" \in Operations
      /\ \A op \in Operations : jobs[op] \in JobRows /\ jobs'[op] \in JobRows
      /\ \A w \in Workers : worker[w].op \in Operations /\ PlaceInv(w)
      /\ remote \in [copies: Nat, mapped: BOOLEAN, index: {"pending", "indexed", "failed"}]
  <2>1. JobsTyped'
    BY DEF VideoInv, VideoShape, JobsTyped, JobRows
  <2> QED
    BY <2>1, Unmoved DEF Operations, JobsTyped, WorkersTyped, WorkerStates, RemoteTyped, VideoInv,
       ExecutionInv
<1>1. \A op \in Operations : jobs[op].attempts \in Nat
  BY <1>0 DEF JobRows
<1>2. ASSUME remote' = remote, Steady(Workers),
             \A op \in Operations : jobs'[op].attempts = jobs[op].attempts,
             \A op \in Operations : jobs'[op].state = "none" => jobs[op].state = "none"
      PROVE  CopyInv'
  <2>1. \A w \in Workers :
          worker'[w].pc \in {"run", "call"} /\ worker'[w].op = "upload"
            => worker[w].pc \in {"run", "call"} /\ worker[w].op = "upload"
    BY <1>2 DEF Steady, Executing
  <2> QED
    BY <1>0, <1>2, <2>1 DEF CopyInv, Steady
<1>3. CASE Calm
  BY <1>2, <1>3 DEF Calm, JobsKeep
<1>4. ASSUME NEW op \in Operations, Opens(op)
      PROVE  CopyInv'
  BY <1>2, <1>4 DEF Opens, Turns, CopyInv
<1>5. ASSUME NEW op \in Operations, Breaks(op)
      PROVE  CopyInv'
  BY <1>2, <1>5 DEF Breaks, Turns
<1>6. ASSUME NEW w \in Workers, Begins(w)
      PROVE  CopyInv'
  <2>0. /\ jobs'[worker[w].op].state = "running"
        /\ jobs'[worker[w].op].attempts = jobs[worker[w].op].attempts + 1
        /\ \A o \in Operations \ {worker[w].op} : jobs'[o] = jobs[o]
    BY <1>6 DEF Begins, Turns
  <2>1. \A o \in Operations :
          /\ \/ jobs'[o].attempts = jobs[o].attempts
             \/ o = worker[w].op /\ jobs'[o].attempts = jobs[o].attempts + 1
          /\ jobs'[o].state = "none" => /\ jobs[o].state = "none"
                                        /\ jobs'[o].attempts = jobs[o].attempts
    BY <2>0
  <2>2. jobs'["upload"].attempts >= jobs["upload"].attempts
    BY <1>0, <1>1, <2>1
  <2>3. worker[w].op = "upload" => jobs'["upload"].attempts = jobs["upload"].attempts + 1
    BY <1>6 DEF Begins, Turns
  <2>4. worker'[w].op = worker[w].op /\ worker'[w].pc = "run" /\ remote' = remote
    BY <1>6 DEF Begins, Goes
  <2>5. remote.copies \in Nat /\ jobs'["upload"].attempts \in Nat
    BY <1>0 DEF JobRows
  <2>6. ASSUME NEW v \in Workers \ {w}
        PROVE  /\ worker'[v].pc \in {"run", "call"} /\ worker'[v].op = "upload"
                    => remote.copies < jobs'["upload"].attempts
               /\ worker'[v].pc = "store" => remote.copies > 0
    <3>1. worker'[v] = worker[v]
      BY <1>6 DEF Begins, Goes
    <3> QED
      BY <1>0, <1>1, <2>2, <2>5, <3>1 DEF CopyInv
  <2>7. /\ worker[w].op = "upload" => remote.copies < jobs'["upload"].attempts
        /\ remote.copies <= jobs'["upload"].attempts
    BY <1>0, <1>1, <2>2, <2>3, <2>5 DEF CopyInv
  <2> QED
    BY <2>1, <2>4, <2>6, <2>7 DEF CopyInv
<1>7. ASSUME NEW w \in Workers, Sends(w)
      PROVE  CopyInv'
  <2>1. PICK n \in {0, 1}, pc \in {"store", "retryable", "fail"} :
          /\ remote' = [remote EXCEPT !.copies = @ + n]
          /\ Goes(w, pc) /\ (pc = "store" => n = 1)
    BY <1>7 DEF Sends
  <2>2. worker[w].op = "upload" /\ worker[w].pc = "call" /\ Executing(w)
    BY <1>0, <1>7 DEF Sends, At, PlaceInv, Executing
  <2>3. remote.copies < jobs["upload"].attempts
    BY <2>2 DEF CopyInv
  <2>4. /\ remote'.copies = remote.copies + n /\ remote'.mapped = remote.mapped
        /\ remote'.index = remote.index
    BY <1>0, <2>1
  <2>5. remote'.copies <= jobs["upload"].attempts /\ remote'.copies >= remote.copies
        /\ (pc = "store" => remote'.copies > 0)
    BY <1>0, <1>1, <2>1, <2>3, <2>4
  <2>6. \A v \in Workers \ {w} : ~ (worker[v].pc \in {"run", "call"} /\ worker[v].op = "upload")
    BY <2>2 DEF VideoInv, ExecutionInv, OneExecutor, Executing
  <2>7. \A v \in Workers \ {w} : worker'[v] = worker[v]
    BY <2>1 DEF Goes
  <2>8. worker'[w].pc = pc /\ jobs' = jobs
    BY <1>7, <2>1 DEF Sends, Goes
  <2>9. \A v \in Workers \ {w} : worker[v].pc = "store" => remote'.copies > 0
    BY <1>0, <2>4, <2>5 DEF CopyInv
  <2> QED
    BY <2>4, <2>5, <2>6, <2>7, <2>8, <2>9 DEF CopyInv
<1>8. ASSUME NEW w \in Workers, Records(w)
      PROVE  CopyInv'
  <2>1. /\ remote'.copies = remote.copies /\ remote'.mapped = TRUE
        /\ worker'[w].pc = "touch" /\ jobs' = jobs
        /\ \A v \in Workers \ {w} : worker'[v] = worker[v]
    BY <1>0, <1>8 DEF Records, Goes
  <2> QED
    BY <2>1 DEF CopyInv
<1>9. ASSUME NEW w \in Workers, Looks(w)
      PROVE  CopyInv'
  <2>1. /\ remote'.copies = remote.copies /\ remote'.mapped = remote.mapped
        /\ worker'[w].pc \in {"again", "finish", "fail"} /\ jobs' = jobs
        /\ \A v \in Workers \ {w} : worker'[v] = worker[v]
    BY <1>0, <1>9 DEF Looks, Goes
  <2>2. remote.mapped
    <3>1. jobs["index"].state # "none"
      BY <1>0, <1>9 DEF Looks, PlaceInv
    <3> QED
      BY <3>1 DEF VideoInv, ExecutionInv, ChainInOrder
  <2> QED
    BY <2>1, <2>2 DEF CopyInv
<1>10. ASSUME NEW w \in Workers, LetsGo(w)
       PROVE  CopyInv'
  <2>1. /\ worker'[w].pc \notin {"run", "call", "store"}
        /\ \A v \in Workers \ {w} : worker'[v] = worker[v]
        /\ remote' = remote
    BY <1>10 DEF LetsGo, Goes, ExecPlaces
  <2>2. /\ \A op \in Operations : jobs'[op].attempts = jobs[op].attempts
        /\ \A op \in Operations : jobs'[op].state = "none" => jobs[op].state = "none"
    BY <1>10 DEF LetsGo, JobsKeep, Turns
  <2> QED
    BY <1>0, <2>1, <2>2 DEF CopyInv
<1> QED
  BY <1>3, <1>4, <1>5, <1>6, <1>7, <1>8, <1>9, <1>10 DEF ChainStep

(* The chain's view of the jobs.                                           *)
StageOf == [op \in Operations |-> IF jobs[op].state \in Claimable THEN "waiting"
                                                                  ELSE jobs[op].state]
BegunOf == [op \in Operations |-> jobs[op].attempts]
BusyOf == {op \in Operations : \E w \in Workers : Executing(w) /\ worker[w].op = op}
View == <<StageOf, BegunOf, BusyOf, remote.copies, remote.mapped, remote.index = "indexed">>

LEMMA TurnsTheView ==
  ASSUME NEW op \in Operations, NEW s, NEW n, Turns(op, s, n)
  PROVE  /\ StageOf' = [StageOf EXCEPT ![op] = IF s \in Claimable THEN "waiting" ELSE s]
         /\ BegunOf' = [BegunOf EXCEPT ![op] = n]
  BY DEF Turns, StageOf, BegunOf, Claimable

LEMMA KeepsTheView ==
  ASSUME JobsKeep
  PROVE  StageOf' = StageOf /\ BegunOf' = BegunOf
  BY DEF JobsKeep, StageOf, BegunOf, Claimable

LEMMA SteadyBusy == Steady(Workers) => BusyOf' = BusyOf
  BY DEF Steady, BusyOf

LEMMA StillBusy ==
  ASSUME NEW w \in Workers, NEW pc \in ExecPlaces, Executing(w), Goes(w, pc)
  PROVE  BusyOf' = BusyOf
<1>1. Executing(w)' /\ worker'[w].op = worker[w].op
  BY DEF Goes, Executing, ExecPlaces
<1>2. \A v \in Workers : /\ Executing(v)' <=> Executing(v)
                         /\ worker'[v].op = worker[v].op
  BY <1>1 DEF Goes, Executing
<1> QED
  BY <1>2 DEF BusyOf

LEMMA NoLongerBusy ==
  ASSUME OneExecutor, NEW w \in Workers, NEW pc \in Places \ ExecPlaces, Executing(w), Goes(w, pc)
  PROVE  BusyOf' = BusyOf \ {worker[w].op}
<1>1. ~ Executing(w)'
  BY DEF Goes, Executing, ExecPlaces
<1>2. \A v \in Workers : Executing(v)' <=> Executing(v) /\ v # w
  BY <1>1 DEF Goes, Executing
<1>3. \A v \in Workers : Executing(v)' => worker'[v].op = worker[v].op
  BY <1>2 DEF Goes
<1>4. \A v \in Workers : Executing(v) /\ v # w => worker[v].op # worker[w].op
  BY DEF OneExecutor
<1> QED
  BY <1>2, <1>3, <1>4 DEF BusyOf

LEMMA BusyNow ==
  ASSUME NEW w \in Workers, worker[w].op \in Operations, ~ Executing(w), Goes(w, "run")
  PROVE  BusyOf' = BusyOf \cup {worker[w].op}
<1>1. Executing(w)' /\ worker'[w].op = worker[w].op
  BY DEF Goes, Executing
<1>2. \A v \in Workers \ {w} : /\ Executing(v)' <=> Executing(v)
                               /\ worker'[v].op = worker[v].op
  BY DEF Goes, Executing
<1> QED
  BY <1>1, <1>2 DEF BusyOf

(* The chain's actions, said of the view.                                  *)
LEMMA ChainIsTheView ==
  /\ Chain!Stages = Operations
  /\ \A op \in Operations : Chain!Ended(op) <=> StageOf[op] \in Final /\ op \notin BusyOf
  BY DEF StageOf, BegunOf, BusyOf, Chain!Stages, Operations, Chain!Ended, Final

LEMMA OverIsEnded ==
  ASSUME NEW op \in Operations, Over(op)
  PROVE  StageOf[op] \in Final /\ op \notin BusyOf
  BY DEF Over, StageOf, BusyOf, Final, Claimable

LEMMA ChainStepRefines ==
  ASSUME VideoInv, CopyInv, ChainStep
  PROVE  View' = View \/ Chain!ChainNext
<1> USE ChainIsTheView
<1>0. /\ \A op \in Operations : /\ jobs[op].attempts \in Nat
                                /\ StageOf[op] = IF jobs[op].state \in Claimable THEN "waiting"
                                                 ELSE jobs[op].state
                                /\ BegunOf[op] = jobs[op].attempts
      /\ \A w \in Workers : worker[w].op \in Operations /\ PlaceInv(w)
      /\ \A w \in Workers : Executing(w) => worker[w].op \in BusyOf
      /\ remote \in [copies: Nat, mapped: BOOLEAN, index: {"pending", "indexed", "failed"}]
      /\ "upload" \in Operations /\ "index" \in Operations
      /\ OneExecutor
  BY Unmoved DEF Operations, JobsTyped, JobRows, WorkersTyped, WorkerStates, RemoteTyped, VideoInv,
     ExecutionInv, StageOf, BegunOf, BusyOf
<1>1. CASE Calm
  BY <1>1, KeepsTheView, SteadyBusy DEF Calm, View
<1>2. ASSUME NEW op \in Operations, Opens(op)
      PROVE  Chain!Open(op)
  <2>1. /\ StageOf' = [StageOf EXCEPT ![op] = "waiting"]
        /\ BegunOf' = [BegunOf EXCEPT ![op] = 0]
    BY <1>2, TurnsTheView DEF Opens, Claimable
  <2>2. BegunOf' = BegunOf
    BY <1>0, <1>2, <2>1 DEF Opens, CopyInv, BegunOf
  <2>3. BusyOf' = BusyOf /\ remote' = remote
    BY <1>2, SteadyBusy DEF Opens
  <2>4. StageOf[op] = "none"
    BY <1>0, <1>2 DEF Opens, Claimable
  <2>5. /\ op \in DOMAIN Chain!Before => Chain!Ended(Chain!Before[op])
        /\ op = "index" => remote.mapped
        /\ op = "analyze" => remote.index = "indexed"
    BY <1>0, <1>2, OverIsEnded DEF Opens, Chain!Before
  <2> QED
    BY <2>1, <2>2, <2>3, <2>4, <2>5 DEF Chain!Open, StageOf, BegunOf, BusyOf
<1>3. ASSUME NEW op \in Operations, Breaks(op)
      PROVE  Chain!Break(op)
  <2>1. /\ StageOf' = [StageOf EXCEPT ![op] = "failed"]
        /\ BegunOf' = [BegunOf EXCEPT ![op] = jobs[op].attempts]
    BY <1>3, TurnsTheView DEF Breaks, Claimable
  <2>2. BegunOf' = BegunOf
    BY <2>1 DEF BegunOf
  <2>3. BusyOf' = BusyOf /\ remote' = remote
    BY <1>3, SteadyBusy DEF Breaks
  <2>4. StageOf[op] # "none"
    BY <1>0, <1>3 DEF Breaks
  <2> QED
    BY <2>1, <2>2, <2>3, <2>4 DEF Chain!Break, StageOf, BegunOf, BusyOf
<1>4. ASSUME NEW w \in Workers, Begins(w), NEW op \in Operations, op = worker[w].op
      PROVE  Chain!Begin(op)
  <2>1. /\ StageOf' = [StageOf EXCEPT ![op] = "running"]
        /\ BegunOf' = [BegunOf EXCEPT ![op] = jobs[op].attempts + 1]
    BY <1>0, <1>4, TurnsTheView DEF Begins, Claimable
  <2>2. jobs[op].state \in Claimable /\ jobs[op].attempts < MaxAttempts[op]
    BY <1>4 DEF Begins, CanClaim
  <2>3. \A v \in Workers : Executing(v) => worker[v].op # op
    BY <1>0, <2>2 DEF PlaceInv, Claimable
  <2>4. BusyOf' = BusyOf \cup {op} /\ op \notin BusyOf /\ remote' = remote
    BY <1>0, <1>4, <2>3, BusyNow DEF Begins, BusyOf
  <2>5. StageOf[op] = "waiting" /\ BegunOf[op] = jobs[op].attempts
    BY <1>0, <2>2
  <2>6. BegunOf' = [BegunOf EXCEPT ![op] = @ + 1]
    BY <2>1, <2>5
  <2>7. BegunOf[op] < MaxAttempts[op]
    BY <2>2, <2>5
  <2> QED
    BY <2>1, <2>4, <2>5, <2>6, <2>7 DEF Chain!Begin, StageOf, BegunOf, BusyOf
<1>5. ASSUME NEW w \in Workers, Sends(w)
      PROVE  View' = View \/ Chain!SendCopy
  <2>1. PICK n \in {0, 1}, pc \in {"store", "retryable", "fail"} :
          remote' = [remote EXCEPT !.copies = @ + n] /\ Goes(w, pc)
    BY <1>5 DEF Sends
  <2>2. /\ worker[w].op = "upload" /\ worker[w].pc = "call" /\ Executing(w) /\ ~ remote.mapped
        /\ remote.copies < BegunOf["upload"]
    BY <1>0, <1>5 DEF Sends, At, PlaceInv, Executing, CopyInv
  <2>3. BusyOf' = BusyOf
    BY <2>1, <2>2, StillBusy DEF ExecPlaces
  <2>4. StageOf' = StageOf /\ BegunOf' = BegunOf
    BY <1>5 DEF Sends, StageOf, BegunOf
  <2>5. /\ remote'.copies = remote.copies + n /\ remote'.mapped = remote.mapped
        /\ remote'.index = remote.index
    BY <1>0, <2>1
  <2>6. CASE n = 0
    <3>1. remote'.copies = remote.copies
      BY <1>0, <2>5, <2>6
    <3> QED
      BY <2>3, <2>4, <2>5, <3>1 DEF View
  <2>7. CASE n = 1
    BY <1>0, <2>2, <2>3, <2>4, <2>5, <2>7 DEF Chain!SendCopy, StageOf, BegunOf, BusyOf
  <2> QED
    BY <2>6, <2>7
<1>6. ASSUME NEW w \in Workers, Records(w)
      PROVE  View' = View \/ Chain!RecordCopy
  <2>1. /\ worker[w].op = "upload" /\ Executing(w) /\ ~ remote.mapped /\ remote.copies > 0
        /\ remote.index # "indexed"
    BY <1>0, <1>6 DEF Records, At, PlaceInv, Executing, CopyInv
  <2>2. BusyOf' = BusyOf
    BY <1>6, <2>1, StillBusy DEF Records, ExecPlaces
  <2>3. StageOf' = StageOf /\ BegunOf' = BegunOf
    BY <1>6 DEF Records, StageOf, BegunOf
  <2>4. /\ remote'.copies = remote.copies /\ remote'.mapped = TRUE
        /\ (remote.index = "indexed")' = (remote.index = "indexed")
    BY <1>0, <1>6, <2>1 DEF Records
  <2> QED
    BY <1>0, <2>1, <2>2, <2>3, <2>4 DEF Chain!RecordCopy, StageOf, BegunOf, BusyOf
<1>7. ASSUME NEW w \in Workers, Looks(w)
      PROVE  Chain!LookAtIndex
  <2>1. PICK status \in {"pending", "indexed", "failed"}, pc \in {"again", "finish", "fail"} :
          remote' = [remote EXCEPT !.index = status] /\ Goes(w, pc)
    BY <1>7 DEF Looks
  <2>2. Executing(w) /\ worker[w].op = "index"
    BY <1>7 DEF Looks
  <2>3. BusyOf' = BusyOf
    BY <2>1, <2>2, StillBusy DEF ExecPlaces
  <2>4. StageOf' = StageOf /\ BegunOf' = BegunOf
    BY <1>7 DEF Looks, StageOf, BegunOf
  <2>5. remote'.copies = remote.copies /\ remote'.mapped = remote.mapped
    BY <1>0, <2>1
  <2>6. (remote.index = "indexed")' \in BOOLEAN
    OBVIOUS
  <2>7. "index" \in BusyOf
    BY <1>0, <2>2
  <2> QED
    BY <2>3, <2>4, <2>5, <2>6, <2>7 DEF Chain!LookAtIndex, StageOf, BegunOf, BusyOf
<1>8. ASSUME NEW w \in Workers, LetsGo(w), NEW op \in Operations, op = worker[w].op
      PROVE  Chain!LetGo(op)
  <2>1. op \in BusyOf
    BY <1>0, <1>8 DEF LetsGo
  <2>2. BusyOf' = BusyOf \ {op} /\ remote' = remote
    BY <1>0, <1>8, NoLongerBusy DEF LetsGo
  <2>3. CASE JobsKeep
    <3>1. StageOf' = StageOf /\ BegunOf' = BegunOf
      BY <2>3, KeepsTheView
    <3> QED
      BY <2>1, <2>2, <3>1 DEF Chain!LetGo, StageOf, BegunOf, BusyOf
  <2>4. ASSUME NEW s \in {"retry", "completed", "failed"}, Turns(op, s, jobs[op].attempts),
               s = "retry" => jobs[op].attempts < MaxAttempts[op],
               s = "completed" => /\ op = "upload" => remote.mapped
                                  /\ op = "index" => remote.index = "indexed"
        PROVE  Chain!LetGo(op)
    <3>1. /\ StageOf' = [StageOf EXCEPT ![op] = IF s = "retry" THEN "waiting" ELSE s]
          /\ BegunOf' = BegunOf
      <4>1. BegunOf' = [BegunOf EXCEPT ![op] = jobs[op].attempts]
        BY <2>1, <2>4, TurnsTheView
      <4>2. s \in Claimable <=> s = "retry"
        BY DEF Claimable
      <4> QED
        BY <2>1, <2>4, <4>1, <4>2, TurnsTheView DEF BegunOf
    <3>2. s = "retry" => BegunOf[op] < MaxAttempts[op]
      BY <1>0, <2>1, <2>4
    <3> QED
      BY <2>1, <2>2, <2>4, <3>1, <3>2 DEF Chain!LetGo, StageOf, BegunOf, BusyOf
  <2> QED
    BY <1>8, <2>3, <2>4 DEF LetsGo
<1> QED
  <2>1. CASE \E op \in Operations : Opens(op) \/ Breaks(op)
    BY <1>2, <1>3, <2>1 DEF Chain!ChainNext
  <2>2. ASSUME NEW w \in Workers, Begins(w) \/ LetsGo(w)
        PROVE  Chain!ChainNext
    <3>1. PICK op \in Operations : op = worker[w].op
      BY <1>0
    <3>2. Chain!Begin(op) \/ Chain!LetGo(op)
      BY <1>4, <1>8, <2>2, <3>1
    <3> QED
      BY <3>2 DEF Chain!ChainNext
  <2>3. ASSUME NEW w \in Workers, Sends(w) \/ Records(w) \/ Looks(w)
        PROVE  View' = View \/ Chain!ChainNext
    BY <1>5, <1>6, <1>7, <2>3 DEF Chain!ChainNext
  <2> QED
    BY <1>1, <2>1, <2>2, <2>3 DEF ChainStep

LEMMA CopyInvInit == VideoInit => CopyInv
<1> SUFFICES ASSUME VideoInit
             PROVE  CopyInv
  OBVIOUS
<1>1. /\ \A op \in Operations : jobs[op].state = "none" /\ jobs[op].attempts = 0
      /\ \A w \in Workers : worker[w].pc = "idle"
      /\ remote = [copies |-> 0, mapped |-> FALSE, index |-> "pending"]
  BY DEF VideoInit, NoJob, IdleWorker
<1> QED
  BY <1>1 DEF CopyInv, Operations

LEMMA CopyInvariant == VideoSpec => [](VideoInv /\ CopyInv)
<1>1. VideoInv /\ VideoInv' /\ CopyInv /\ [VideoNext]_videoVars => CopyInv'
  BY CopyInvNext, IsAChainStep DEF videoVars, CopyInv
<1> QED
  BY <1>1, CopyInvInit, VideoInvInit, VideoInvNext, PTL DEF VideoSpec

(* The workers implement the chain, for any number of workers and messages *)
(* and either broker: every step of the API, the broker or a worker opens  *)
(* a stage after the one before is over, begins one that nobody executes   *)
(* while an attempt is left, sends the clip for an attempt of its own,     *)
(* records it, looks at the index, lets a stage go or fails it, or does    *)
(* nothing the chain sees (claim_job, transition_job, _handle, _execute).  *)
THEOREM ImplementsChain == VideoSpec => RunsTheChain
<1>1. VideoInit => Chain!ChainInit
  <2> SUFFICES ASSUME VideoInit
               PROVE  Chain!ChainInit
    OBVIOUS
  <2>1. /\ \A op \in Operations : jobs[op].state = "none" /\ jobs[op].attempts = 0
        /\ \A w \in Workers : ~ Executing(w)
        /\ remote.copies = 0 /\ remote.mapped = FALSE /\ remote.index # "indexed"
    BY DEF VideoInit, NoJob, IdleWorker, Executing
  <2> QED
    BY <2>1 DEF Chain!ChainInit, Chain!Stages, Operations, Claimable
<1>2. VideoInv /\ CopyInv /\ [VideoNext]_videoVars => [Chain!ChainNext]_(Chain!chainVars)
  <2> SUFFICES ASSUME VideoInv, CopyInv, [VideoNext]_videoVars
               PROVE  [Chain!ChainNext]_(Chain!chainVars)
    OBVIOUS
  <2>1. View' = View \/ Chain!ChainNext
    <3>1. CASE UNCHANGED videoVars
      BY <3>1 DEF videoVars, View, StageOf, BegunOf, BusyOf, Executing
    <3>2. CASE VideoNext
      BY <3>2, IsAChainStep, ChainStepRefines
    <3> QED
      BY <3>1, <3>2
  <2> QED
    BY <2>1 DEF Chain!chainVars, View, StageOf, BegunOf, BusyOf
<1> QED
  BY <1>1, <1>2, CopyInvariant, PTL DEF VideoSpec, RunsTheChain, Chain!ChainSpec
=============================================================================
