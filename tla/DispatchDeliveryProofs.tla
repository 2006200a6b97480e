----------------------- MODULE DispatchDeliveryProofs -----------------------
(***************************************************************************)
(* The queue and the webhooks drive the coordinator and nothing else, so   *)
(* every theorem about the coordinator holds of the delivery too; a case   *)
(* that is due is never forgotten, and between two rungs it is left alone. *)
(*                                                                         *)
(* That a due case is remembered is not inductive by itself: a worker may  *)
(* be about to acknowledge the only message there is.  The invariant says  *)
(* that some message is not of that kind, for which it must know what      *)
(* makes a case due (LineInv: not a call on the line, nor one that may     *)
(* have been placed) and that a message has one holder.                    *)
(***************************************************************************)
EXTENDS DispatchDelivery, DispatchLadderProofs

(* When the case is due: not while a call that is known is under way, and  *)
(* a call that may have been placed has closed the case.                   *)
LineInv(i) ==
  /\ attempts[i].ref # 0 /\ attempts[i].status \in AttemptActive /\ ~ Closed(case)
       => case.nextAt = NoTime
  /\ submission[i].state = "uncertain" => Closed(case)

\* A worker acts on no time that has not come.
TimeInv == \A w \in Workers : worker[w].now <= clock

HeldOnce == \A v, w \in Workers : job[v] = job[w] /\ job[v] # 0 => v = w

Due == ~ Closed(case) /\ case.status # "queued" /\ case.nextAt # NoTime

\* The worker acknowledges its message whatever becomes of the case, or may.
Spent(w) ==
  /\ w \notin exhausting
  /\ \/ worker[w].pc = "done" /\ worker[w].out = "ok"
     \/ worker[w].pc = "bind" /\ attempts[worker[w].seq].ref # 0

\* A message that somebody will still act on.
Carries(m) == queue[m].state # "free" /\ \A w \in Workers : job[w] = m => ~ Spent(w)
DueInv == Due => scheduling # {} \/ \E m \in Messages : Carries(m)

DeliveryInv ==
  /\ RowsInv
  /\ \A i \in Sequences3 : LineInv(i)
  /\ TimeInv
  /\ DeliveryShape
  /\ HeldOnce
  /\ ~ WebhookCrashes => DueInv

-----------------------------------------------------------------------------
(* The coordinator's part of a step.                                       *)

LEMMA DeliverySteps == [DeliveryNext]_deliveryVars => [CoordinatorNext]_vars
<1> SUFFICES ASSUME [DeliveryNext]_deliveryVars PROVE [CoordinatorNext]_vars
  OBVIOUS
<1>1. ASSUME UNCHANGED vars PROVE [CoordinatorNext]_vars
  BY <1>1
<1>2. ASSUME NEW w \in Workers, DispatchNext(w) \/ Exhaust(w) PROVE [CoordinatorNext]_vars
  BY <1>2 DEF CoordinatorNext
<1>3. ASSUME NEW h \in Handlers, Webhook(h) PROVE [CoordinatorNext]_vars
  BY <1>3 DEF CoordinatorNext
<1>4. CASE UNCHANGED deliveryVars
  BY <1>1, <1>4 DEF deliveryVars
<1>5. CASE Authorize \/ \E m \in Messages : Redrive(m)
  BY <1>1, <1>5 DEF Authorize, Redrive
<1>6. ASSUME NEW w \in Workers, WorkerStep(w) PROVE [CoordinatorNext]_vars
  <2>1. CASE \E m \in Messages : Deliver(w, m)
    BY <1>1, <2>1 DEF Deliver
  <2>2. CASE Dispatch(w)
    BY <1>2, <2>2 DEF Dispatch, DispatchNext
  <2>3. CASE Acknowledge(w) \/ ReleaseUntilDue(w) \/ ReleaseAfterError(w) \/ LeaveExhausted(w)
    BY <1>2, <2>3 DEF Acknowledge, ReleaseUntilDue, ReleaseAfterError, LeaveExhausted, LetGo,
       DispatchNext
  <2>4. CASE ExhaustDelivery(w) \/ ExhaustStep(w)
    BY <1>2, <2>4 DEF ExhaustDelivery, ExhaustStep, Exhaust
  <2> QED
    BY <1>6, <2>1, <2>2, <2>3, <2>4 DEF WorkerStep
<1>7. ASSUME NEW w \in Workers, CrashWorker(w) PROVE [CoordinatorNext]_vars
  BY <1>1, <1>2, <1>7 DEF CrashWorker, DispatchNext
<1>8. ASSUME NEW h \in Handlers, ReceiveCallback(h) PROVE [CoordinatorNext]_vars
  BY <1>3, <1>8 DEF ReceiveCallback, Webhook
<1>9. ASSUME NEW h \in Handlers, WebhookStep(h) \/ CrashWebhook(h)
      PROVE  [CoordinatorNext]_vars
  <2>1. CASE ApplyWebhook(h) \/ ConflictWebhook(h)
    BY <1>3, <2>1 DEF ApplyWebhook, ConflictWebhook, Webhook
  <2>2. CASE Schedule(h) \/ CrashWebhook(h)
    BY <1>1, <2>2 DEF Schedule, CrashWebhook
  <2> QED
    BY <1>9, <2>1, <2>2 DEF WebhookStep
<1>10. CASE Elapse
  BY <1>10 DEF Elapse, CoordinatorNext
<1> QED
  BY <1>4, <1>5, <1>6, <1>7, <1>8, <1>9, <1>10 DEF DeliveryNext

(* The delivery implements the coordinator: the workers, the queue and the *)
(* webhooks take the coordinator's steps or leave its state alone, so one  *)
(* call per attempt, a final closed case, rows in agreement and the ladder *)
(* hold of the delivery as well.                                           *)
THEOREM DeliveryImplementsCoordinator == DeliverySpec => Spec
<1>1. DeliveryInit => CoordinatorInit
  BY DEF DeliveryInit
<1> QED
  BY <1>1, DeliverySteps, PTL DEF DeliverySpec, Spec

-----------------------------------------------------------------------------
(* When the case is due.                                                   *)

LEMMA LineStep ==
  ASSUME RowsInv, RowsInv', Kind, Deed, \A j \in Sequences3 : LineInv(j), NEW i \in Sequences3
  PROVE  LineInv(i)'
<1>0. /\ TypeOK /\ case \in CaseRecords /\ case.count \in 0..3
      /\ \A j \in Sequences3 : attempts[j].status \in AttemptActive => j = case.count
      /\ LineInv(i)
      /\ \A j \in Sequences3 : LineInv(j)
  BY OpenRows
<1>1. CASE Closed(case)'
  BY <1>1 DEF LineInv
<1>2. CASE UNCHANGED <<case, attempts, submission>>
  BY <1>0, <1>2 DEF LineInv, Closed
<1>3. ASSUME NEW w \in Workers, Reserve(w) PROVE LineInv(i)'
  <2>1. case'.nextAt = NoTime /\ submission' = [submission EXCEPT ![case.count + 1] = NoClaim]
    BY <1>0, <1>3 DEF Reserve, ReserveNextAttempt, CaseRecords
  <2>2. submission'[i].state = "uncertain" => submission[i].state = "uncertain"
    BY <1>0, <2>1 DEF TypeOK, RepositoryTypeOK, NoClaim
  <2>3. ~ Closed(case)
    BY <1>3 DEF Reserve, ReserveNextAttempt, CanReserve
  <2> QED
    BY <1>0, <2>1, <2>2, <2>3 DEF LineInv
<1>4. ASSUME NEW w \in Workers, Claim(w) PROVE LineInv(i)'
  <2> DEFINE s == worker[w].seq
  <2>1. /\ s \in Sequences3 /\ s = case.count /\ attempts[s].ref = 0
        /\ submission'[s].state = "claimed"
        /\ attempts'[i].ref = attempts[i].ref /\ attempts'[i].status = attempts[i].status
        /\ \A j \in Sequences3 \ {s} : submission'[j] = submission[j]
    BY <1>4, ClaimedRow
  <2>2. ~ Closed(case)
    BY <1>4 DEF Claim, ClaimSubmission, CanClaim
  <2> QED
    BY <1>0, <2>1, <2>2 DEF LineInv
<1>5. ASSUME NEW j \in Sequences3, NEW k \in Nat \ {0}, BindCall(j, k) PROVE LineInv(i)'
  <2>1. case'.nextAt = NoTime
    BY <1>0, <1>5 DEF BindCall, CaseRecords
  <2>2. /\ ~ Closed(case) /\ submission'[j].state = "submitted"
        /\ \A n \in Sequences3 \ {j} : submission'[n] = submission[n]
    BY <1>5, BoundRow
  <2> QED
    BY <1>0, <2>1, <2>2 DEF LineInv
<1>6. ASSUME NEW j \in Sequences3, Retried(j) PROVE LineInv(i)'
  <2>1. /\ submission'[j].state = "pending"
        /\ \A n \in Sequences3 \ {j} : submission'[n] = submission[n]
    BY <1>0, <1>6 DEF Retried, TypeOK, RepositoryTypeOK, NoClaim
  <2> QED
    BY <1>0, <1>6, <2>1 DEF Retried, OnlyRow, LineInv
<1>7. ASSUME NEW j \in Sequences3, Advanced(j) PROVE LineInv(i)'
  BY <1>0, <1>7 DEF Advanced, LineInv
<1>8. ASSUME NEW j \in Sequences3, Unanswered(j) PROVE LineInv(i)'
  <2>1. attempts'[i].status \in AttemptActive => FALSE
    BY <1>0, <1>8 DEF Unanswered, OnlyRow, AttemptActive
  <2> QED
    BY <1>0, <1>8, <2>1 DEF Unanswered, LineInv
<1>9. ASSUME case'.status \in {"acknowledged", "manual_follow_up", "canceled"}
      PROVE  Closed(case)'
  BY <1>9 DEF Closed, CaseTerminal
<1> QED
  BY <1>1, <1>2, <1>3, <1>4, <1>5, <1>6, <1>7, <1>8, <1>9
     DEF Deed, Handed, Called, Dropped

-----------------------------------------------------------------------------
(* The time a worker acts on.                                              *)

Clocked(w) == \/ worker'[w].now = worker[w].now
              \/ worker'[w].now = 0
              \/ worker'[w].now = clock

LEMMA WorkerClocks ==
  ASSUME TypeOK, NEW w \in Workers, DispatchNext(w) \/ Exhaust(w), NEW v \in Workers
  PROVE  Clocked(v) /\ clock' = clock
<1>0. worker \in [Workers -> WorkerRecords]
  BY DEF TypeOK
<1>1. ASSUME NEW r, Become(w, r), r.now \in {0, clock, worker[w].now} PROVE Clocked(v)
  BY <1>0, <1>1 DEF Become, Clocked
<1>2. ASSUME NEW out, Done(w, out) PROVE Clocked(v)
  <2> DEFINE r == [IdleWorker EXCEPT !.pc = "done", !.out = out]
  <2>1. Become(w, r) /\ r.now = 0
    BY <1>2 DEF Done, IdleWorker
  <2> HIDE DEF r
  <2> QED
    BY <1>1, <2>1
<1>3. ASSUME NEW pc, Goto(w, pc) PROVE Clocked(v)
  <2> DEFINE r == [worker[w] EXCEPT !.pc = pc]
  <2>1. Become(w, r) /\ r.now = worker[w].now
    BY <1>0, <1>3 DEF Goto, WorkerRecords
  <2> HIDE DEF r
  <2> QED
    BY <1>1, <2>1
<1>4. CASE Start(w)
  <2> DEFINE r == [worker[w] EXCEPT !.pc = "reserve", !.now = clock]
  <2>1. r.now \in {0, clock, worker[w].now}
    BY <1>0 DEF WorkerRecords, IdleWorker
  <2>2. (\E out : Done(w, out)) \/ Become(w, r)
    BY <1>4 DEF Start
  <2>3. clock' = clock
    BY <1>4 DEF Start
  <2> HIDE DEF r
  <2> QED
    BY <1>1, <1>2, <2>1, <2>2, <2>3
<1>5. CASE ReuseAttempt(w)
  <2> DEFINE r == [worker[w] EXCEPT !.pc = "claim", !.seq = LastActive]
  <2>1. r.now \in {0, clock, worker[w].now}
    BY <1>0 DEF WorkerRecords, IdleWorker
  <2>2. (\E out : Done(w, out)) \/ Become(w, r)
    BY <1>5 DEF ReuseAttempt
  <2>3. clock' = clock
    BY <1>5 DEF ReuseAttempt
  <2> HIDE DEF r
  <2> QED
    BY <1>1, <1>2, <2>1, <2>2, <2>3
<1>6. CASE Reserve(w)
  BY <1>0, <1>6 DEF Reserve, Become, Done, Goto, IdleWorker, WorkerRecords, Clocked
<1>7. CASE Claim(w)
  BY <1>0, <1>7 DEF Claim, Become, Done, Goto, IdleWorker, WorkerRecords, Clocked
<1>8. CASE ClaimRefused(w)
  <2> DEFINE r == [worker[w] EXCEPT !.pc = "expire", !.case = case,
                                !.att = attempts[worker[w].seq]]
  <2>1. r.now \in {0, clock, worker[w].now}
    BY <1>0 DEF WorkerRecords, IdleWorker
  <2>2. (\E out : Done(w, out)) \/ Become(w, r)
    BY <1>8 DEF ClaimRefused
  <2>3. clock' = clock
    BY <1>8 DEF ClaimRefused
  <2> HIDE DEF r
  <2> QED
    BY <1>1, <1>2, <2>1, <2>2, <2>3
<1>9. CASE PlaceAccepted(w)
  BY <1>0, <1>9 DEF PlaceAccepted, Become, Done, Goto, IdleWorker, WorkerRecords, Clocked
<1>10. CASE ExhaustRead(w)
  <2> DEFINE r == [worker[w] EXCEPT !.pc = "exhaust_list", !.case = case]
  <2>1. r.now \in {0, clock, worker[w].now}
    BY <1>0 DEF WorkerRecords, IdleWorker
  <2>2. (\E out : Done(w, out)) \/ Become(w, r)
    BY <1>10 DEF ExhaustRead
  <2>3. clock' = clock
    BY <1>10 DEF ExhaustRead
  <2> HIDE DEF r
  <2> QED
    BY <1>1, <1>2, <2>1, <2>2, <2>3
<1>11. CASE ExhaustList(w)
  BY <1>0, <1>11 DEF ExhaustList, Become, Done, Goto, IdleWorker, WorkerRecords, Clocked
<1>12. CASE ExhaustApply(w)
  <2> DEFINE r == [IdleWorker EXCEPT !.pc = "exhaust", !.retried = TRUE]
  <2>1. r.now \in {0, clock, worker[w].now}
    BY <1>0 DEF WorkerRecords, IdleWorker
  <2>2. (\E out : Done(w, out)) \/ Become(w, r)
    BY <1>12 DEF ExhaustApply
  <2>3. clock' = clock
    BY <1>12 DEF ExhaustApply
  <2> HIDE DEF r
  <2> QED
    BY <1>1, <1>2, <2>1, <2>2, <2>3
<1>13. CASE \/ ReserveRefused(w) \/ ContactUnavailable(w) \/ Expire(w) \/ Bind(w)
           \/ MarkRetry(w) \/ MarkUncertain(w)
  <2>1. \E out : Done(w, out)
    BY <1>13 DEF ReserveRefused, ContactUnavailable, Expire, Bind, MarkRetry, MarkUncertain
  <2>2. clock' = clock
    BY <1>13 DEF ReserveRefused, ContactUnavailable, Expire, Bind, MarkRetry, MarkUncertain
  <2> QED
    BY <1>2, <2>1, <2>2
<1>14. CASE PlaceUncertain(w) \/ PlaceRefused(w)
  BY <1>3, <1>14 DEF PlaceUncertain, PlaceRefused
<1>15. CASE Return(w) \/ Crash(w)
  BY <1>1, <1>15 DEF Return, Crash, IdleWorker
<1> QED
  BY <1>4, <1>5, <1>6, <1>7, <1>8, <1>9, <1>10, <1>11, <1>12, <1>13, <1>14, <1>15
     DEF DispatchNext, Exhaust

LEMMA TimeStep ==
  ASSUME TypeOK, TimeInv, [CoordinatorNext]_vars
  PROVE  TimeInv'
<1>0. /\ clock \in Nat /\ \A w \in Workers : worker[w].now \in Nat
  BY DEF TypeOK, WorkerRecords
<1> SUFFICES ASSUME NEW v \in Workers PROVE worker'[v].now <= clock'
  BY DEF TimeInv
<1>1. worker[v].now <= clock
  BY DEF TimeInv
<1>2. CASE \E w \in Workers : DispatchNext(w) \/ Exhaust(w)
  <2>1. Clocked(v) /\ clock' = clock
    BY <1>2, WorkerClocks
  <2> QED
    BY <1>0, <1>1, <2>1 DEF Clocked
<1>3. ASSUME NEW h \in Handlers, Webhook(h) PROVE worker' = worker /\ clock' = clock
  BY <1>3 DEF Webhook, Receive, RecordCallback, HandleCallback, RefuseCallback
<1>4. ASSUME NEW o \in Operators, Cancel(o) PROVE worker' = worker /\ clock' = clock
  BY <1>4 DEF Cancel, CancelRead, CancelList, CancelApply
<1>5. CASE Tick
  BY <1>0, <1>1, <1>5 DEF Tick, processVars
<1>6. CASE UNCHANGED vars
  BY <1>1, <1>6 DEF vars
<1> QED
  BY <1>1, <1>2, <1>3, <1>4, <1>5, <1>6 DEF CoordinatorNext

-----------------------------------------------------------------------------
(* The queue keeps its shape, and a message its one holder.                *)

QueueRecords == [state: {"free", "waiting", "held", "dead"}, at: Int, count: 0..MaxDeliveries]

\* A free place takes a message.
Sent(m) == /\ m \in Free
           /\ queue'[m] \in QueueRecords /\ queue'[m].state = "waiting"
           /\ \A n \in Messages \ {m} : queue'[n] = queue[n]
           /\ queue' \in [Messages -> QueueRecords]
           /\ job' = job
\* A worker's message goes back or is gone.
Left(w) == /\ job'[w] = 0
           /\ \A v \in Workers \ {w} : job'[v] = job[v]
           /\ job' \in [Workers -> Messages \cup {0}]
           /\ queue' \in [Messages -> QueueRecords]
           /\ \A n \in Messages : n # job[w] => queue'[n] = queue[n]
           /\ exhausting' = exhausting \ {w}

LEMMA Sending ==
  ASSUME TypeOK, DeliveryShape, NEW at \in Int, EnqueueFor(at), job' = job
  PROVE  \E m \in Messages : Sent(m)
<1>1. PICK m \in Free : queue' = [queue EXCEPT ![m] =
         [state |-> "waiting", count |-> 0,
          at |-> IF at <= clock THEN clock
                 ELSE IF at <= clock + MaxDelay THEN at ELSE clock + MaxDelay]]
  BY DEF EnqueueFor
<1> DEFINE t == IF at <= clock THEN clock
                 ELSE IF at <= clock + MaxDelay THEN at ELSE clock + MaxDelay
           r == [state |-> "waiting", count |-> 0, at |-> t]
<1>2. t \in Int
  BY DeliveryAssumption DEF TypeOK
<1>3. r \in QueueRecords /\ r.state = "waiting"
  BY <1>2, DeliveryAssumption DEF QueueRecords
<1>4. queue \in [Messages -> QueueRecords] /\ m \in Messages
  BY DEF DeliveryShape, QueueRecords, Free
<1>5. queue' = [queue EXCEPT ![m] = r]
  BY <1>1
<1> HIDE DEF r
<1> QED
  BY <1>3, <1>4, <1>5 DEF Sent

LEMMA Leaving ==
  ASSUME DeliveryShape, NEW w \in Workers, NEW message,
         job[w] # 0 => message \in QueueRecords,
         queue' = [queue EXCEPT ![job[w]] = message],
         job' = [job EXCEPT ![w] = 0], exhausting' = exhausting \ {w}
  PROVE  Left(w) /\ (job[w] # 0 => queue'[job[w]] = message)
<1>1. /\ queue \in [Messages -> QueueRecords] /\ job \in [Workers -> Messages \cup {0}]
      /\ job[w] \in Messages \cup {0} /\ 0 \notin Messages
  BY DeliveryAssumption DEF DeliveryShape, QueueRecords
<1>2. /\ job'[w] = 0 /\ \A v \in Workers \ {w} : job'[v] = job[v]
      /\ job' \in [Workers -> Messages \cup {0}]
  BY <1>1
<1>3. /\ queue' \in [Messages -> QueueRecords]
      /\ \A n \in Messages : n # job[w] => queue'[n] = queue[n]
      /\ job[w] # 0 => queue'[job[w]] = message
  BY <1>1
<1> QED
  BY <1>2, <1>3 DEF Left

LEMMA MovedRecord ==
  ASSUME NEW r \in QueueRecords, NEW to \in {"waiting", "dead"}, NEW at \in Int
  PROVE  LET new == [r EXCEPT !.state = to, !.at = at] IN
         new \in QueueRecords /\ new.state = to
  BY DEF QueueRecords

LEMMA HiddenRecord ==
  ASSUME DeliveryShape, NEW w \in Workers, job[w] # 0, NEW at \in Int
  PROVE  Hidden(w, at) \in QueueRecords /\ Hidden(w, at).state = "waiting"
<1>1. queue[job[w]] \in QueueRecords
  BY DEF DeliveryShape, QueueRecords
<1> QED
  BY <1>1, MovedRecord DEF Hidden

(* Every way to let go of a message.                                       *)
LEMMA LettingGo ==
  ASSUME TypeOK, DeliveryShape, NEW w \in Workers,
         \/ Acknowledge(w) \/ ReleaseUntilDue(w) \/ ReleaseAfterError(w)
         \/ LeaveExhausted(w) \/ CrashWorker(w)
  PROVE  /\ Left(w) /\ UNCHANGED <<scheduling, requests>>
         /\ crashes' = crashes \/ (crashes' = crashes + 1 /\ crashes < MaxCrashes)
         /\ job[w] # 0 /\ queue'[job[w]].state # "waiting" => Acknowledge(w)
<1>0. clock \in Int /\ clock + 1 \in Int /\ case.nextAt \in Int
  BY DEF TypeOK, RepositoryTypeOK, CaseRecords
<1>1. ASSUME NEW message, LetGo(w, message), job[w] # 0 => message \in QueueRecords
      PROVE  /\ Left(w) /\ UNCHANGED <<scheduling, requests, crashes>>
             /\ job[w] # 0 => queue'[job[w]] = message
  BY <1>1, Leaving DEF LetGo
<1>2. CASE Acknowledge(w)
  <2>1. NoMessage \in QueueRecords
    BY DeliveryAssumption DEF NoMessage, QueueRecords
  <2> QED
    BY <1>1, <1>2, <2>1 DEF Acknowledge
<1>3. ASSUME NEW at \in Int, LetGo(w, Hidden(w, at))
      PROVE  /\ Left(w) /\ UNCHANGED <<scheduling, requests, crashes>>
             /\ job[w] # 0 => queue'[job[w]].state = "waiting"
  BY <1>1, <1>3, HiddenRecord
<1>4. CASE ReleaseUntilDue(w) \/ ReleaseAfterError(w) \/ LeaveExhausted(w)
  <2>1. PICK at \in Int : LetGo(w, Hidden(w, at))
    BY <1>0, <1>4 DEF ReleaseUntilDue, ReleaseAfterError, LeaveExhausted
  <2> QED
    BY <1>3, <2>1
<1>5. CASE CrashWorker(w)
  <2>1. /\ job[w] # 0 /\ crashes < MaxCrashes
        /\ queue' = [queue EXCEPT ![job[w]] = Hidden(w, clock)]
        /\ job' = [job EXCEPT ![w] = 0] /\ exhausting' = exhausting \ {w}
        /\ crashes' = crashes + 1 /\ UNCHANGED <<scheduling, requests>>
    BY <1>5 DEF CrashWorker
  <2>2. Hidden(w, clock) \in QueueRecords /\ Hidden(w, clock).state = "waiting"
    BY <1>0, <2>1, HiddenRecord
  <2> QED
    BY <2>1, <2>2, Leaving
<1> QED
  BY <1>2, <1>4, <1>5

LEMMA ShapeStep ==
  ASSUME TypeOK, DeliveryShape, HeldOnce, [DeliveryNext]_deliveryVars
  PROVE  DeliveryShape' /\ HeldOnce'
<1>0. /\ queue \in [Messages -> QueueRecords] /\ job \in [Workers -> Messages \cup {0}]
      /\ exhausting \subseteq Workers /\ scheduling \subseteq Handlers
      /\ crashes \in 0..MaxCrashes /\ requests \in 0..MaxRequests
      /\ MaxCrashes \in Nat /\ MaxRequests \in Nat /\ 0 \notin Messages
      /\ \A w \in Workers : job[w] # 0 => job[w] \in Messages /\ queue[job[w]].state = "held"
  BY DeliveryAssumption DEF DeliveryShape, QueueRecords
<1> DEFINE Boxes == /\ queue' \in [Messages -> QueueRecords]
                    /\ job' \in [Workers -> Messages \cup {0}]
                    /\ \A w \in Workers : job'[w] # 0 => queue'[job'[w]].state = "held"
           Counts == /\ exhausting' \subseteq Workers /\ scheduling' \subseteq Handlers
                     /\ crashes' \in 0..MaxCrashes /\ requests' \in 0..MaxRequests
<1>1. ASSUME Boxes, Counts, HeldOnce' PROVE DeliveryShape' /\ HeldOnce'
  BY <1>1 DEF DeliveryShape, QueueRecords
<1>2. ASSUME UNCHANGED <<queue, job>> PROVE Boxes /\ HeldOnce'
  BY <1>0, <1>2 DEF HeldOnce
<1>3. ASSUME NEW at \in Int, EnqueueFor(at), job' = job PROVE Boxes /\ HeldOnce'
  <2>1. PICK m \in Messages : Sent(m)
    BY <1>3, Sending
  <2>2. \A w \in Workers : job[w] # m
    BY <1>0, <2>1 DEF Sent, Free
  <2>3. Boxes
    BY <1>0, <2>1, <2>2 DEF Sent
  <2> QED
    BY <1>3, <2>3 DEF HeldOnce
<1>4. clock \in Int /\ case.nextAt \in Int
  BY DEF TypeOK, RepositoryTypeOK, CaseRecords
<1>5. CASE Authorize
  <2>1. Counts
    BY <1>0, <1>5 DEF Authorize
  <2> QED
    BY <1>1, <1>3, <1>4, <1>5, <2>1 DEF Authorize
<1>6. ASSUME NEW m \in Messages, Redrive(m) PROVE DeliveryShape' /\ HeldOnce'
  <2>1. /\ queue[m].state = "waiting" /\ job' = job
        /\ queue' = [queue EXCEPT ![m].state = "dead", ![m].at = 0]
    BY <1>6 DEF Redrive, Visible
  <2>2. [queue[m] EXCEPT !.state = "dead", !.at = 0] \in QueueRecords
    <3>1. \A at \in Int : [queue[m] EXCEPT !.state = "dead", !.at = at] \in QueueRecords
      BY <1>0, MovedRecord
    <3>2. 0 \in Int
      OBVIOUS
    <3> QED
      BY <3>1, <3>2, Zenon
  <2>3. queue' = [queue EXCEPT ![m] = [queue[m] EXCEPT !.state = "dead", !.at = 0]]
    BY <1>0, <2>1
  <2>4. queue' \in [Messages -> QueueRecords] /\ \A n \in Messages \ {m} : queue'[n] = queue[n]
    BY <1>0, <2>2, <2>3
  <2>5. Boxes
    BY <1>0, <2>1, <2>4
  <2>6. Counts
    BY <1>0, <1>6 DEF Redrive
  <2> QED
    BY <1>1, <2>1, <2>5, <2>6 DEF HeldOnce
<1>7. ASSUME NEW w \in Workers, NEW m \in Messages, Deliver(w, m)
      PROVE  DeliveryShape' /\ HeldOnce'
  <2>1. /\ queue[m].state = "waiting" /\ queue[m].count < MaxDeliveries
        /\ queue' = [queue EXCEPT ![m].state = "held", ![m].at = 0, ![m].count = @ + 1]
        /\ job' = [job EXCEPT ![w] = m]
    BY <1>7 DEF Deliver, Visible
  <2>2. queue[m] \in QueueRecords /\ MaxDeliveries \in Nat
    BY <1>0, DeliveryAssumption
  <2>3. /\ queue' \in [Messages -> QueueRecords] /\ queue'[m].state = "held"
        /\ \A n \in Messages \ {m} : queue'[n] = queue[n]
    BY <1>0, <2>1, <2>2 DEF QueueRecords
  <2>4. \A v \in Workers : job[v] # m
    BY <1>0, <2>1
  <2>5. Boxes
    BY <1>0, <2>1, <2>3
  <2>6. HeldOnce'
    BY <1>0, <2>1, <2>4 DEF HeldOnce
  <2>7. Counts
    BY <1>0, <1>7 DEF Deliver
  <2> QED
    BY <1>1, <2>5, <2>6, <2>7
<1>8. ASSUME NEW w \in Workers,
             \/ Acknowledge(w) \/ ReleaseUntilDue(w) \/ ReleaseAfterError(w)
             \/ LeaveExhausted(w) \/ CrashWorker(w)
      PROVE  DeliveryShape' /\ HeldOnce'
  <2>1. /\ Left(w) /\ UNCHANGED <<scheduling, requests>>
        /\ crashes' = crashes \/ (crashes' = crashes + 1 /\ crashes < MaxCrashes)
    BY <1>8, LettingGo
  <2>2. \A v \in Workers \ {w} : job[v] # 0 => job[v] # job[w]
    BY DEF HeldOnce
  <2>3. Boxes
    BY <1>0, <2>1, <2>2 DEF Left
  <2>4. HeldOnce'
    BY <2>1 DEF HeldOnce, Left
  <2>5. Counts
    BY <1>0, <2>1 DEF Left
  <2> QED
    BY <1>1, <2>3, <2>4, <2>5
<1>9. ASSUME NEW w \in Workers, Dispatch(w) \/ ExhaustDelivery(w) \/ ExhaustStep(w)
      PROVE  DeliveryShape' /\ HeldOnce'
  <2>1. UNCHANGED <<queue, job>> /\ Counts
    BY <1>0, <1>9 DEF Dispatch, ExhaustDelivery, ExhaustStep, queueVars
  <2> QED
    BY <1>1, <1>2, <2>1
<1>10. ASSUME NEW h \in Handlers, ReceiveCallback(h) PROVE DeliveryShape' /\ HeldOnce'
  <2>1. Counts
    BY <1>0, <1>10 DEF ReceiveCallback
  <2> QED
    BY <1>1, <1>2, <1>10, <2>1 DEF ReceiveCallback
<1>11. ASSUME NEW h \in Handlers, \/ ApplyWebhook(h) \/ ConflictWebhook(h) \/ CrashWebhook(h)
       PROVE  DeliveryShape' /\ HeldOnce'
  <2>1. UNCHANGED <<queue, job>> /\ Counts
    BY <1>0, <1>11 DEF ApplyWebhook, ConflictWebhook, CrashWebhook, queueVars
  <2> QED
    BY <1>1, <1>2, <2>1
<1>12. ASSUME NEW h \in Handlers, Schedule(h) PROVE DeliveryShape' /\ HeldOnce'
  <2>1. Counts /\ job' = job /\ (queue' = queue \/ EnqueueFor(case.nextAt))
    BY <1>0, <1>12 DEF Schedule
  <2> QED
    BY <1>1, <1>2, <1>3, <1>4, <2>1
<1>13. CASE Elapse \/ UNCHANGED deliveryVars
  <2>1. UNCHANGED <<queue, job>> /\ Counts
    BY <1>0, <1>13 DEF Elapse, deliveryVars, queueVars
  <2> QED
    BY <1>1, <1>2, <2>1
<1> QED
  BY <1>5, <1>6, <1>7, <1>8, <1>9, <1>10, <1>11, <1>12, <1>13
     DEF DeliveryNext, WorkerStep, WebhookStep

-----------------------------------------------------------------------------
(* A case that is due is not forgotten.                                    *)

\* No row has changed: if the case is due now, it was before.
RowsKept == UNCHANGED <<case, attempts, submission>>

(* A worker that has taken a step, and does not hold a spent message from  *)
(* before, is not about to acknowledge its message while the case is due.  *)
LEMMA StillWorking ==
  ASSUME RowsInv, RowsInv', \A i \in Sequences3 : LineInv(i), \A i \in Sequences3 : LineInv(i)',
         NEW w \in Workers, Dispatch(w), Due'
  PROVE  ~ Spent(w)' \/ (RowsKept /\ Spent(w))
<1>0. /\ TypeOK /\ worker \in [Workers -> WorkerRecords] /\ worker[w].seq \in Sequences3
      /\ HolderInv(w) /\ worker[w].att \in AttemptRecords
      /\ worker[w].att.sequence \in Sequences3
      /\ exhausting' = exhausting
      /\ ~ Closed(case)' /\ case'.nextAt # NoTime
  BY DEF RowsInv, LadderInv, DispatchInv, TypeOK, WorkerRecords, AttemptRecords, Dispatch,
         queueVars, Due
<1>1. ASSUME NEW out, Done(w, out), out # "ok" PROVE ~ Spent(w)'
  BY <1>0, <1>1 DEF Done, Become, IdleWorker, Spent
<1>2. ASSUME NEW r, Become(w, r), r.pc \notin {"done", "bind"} PROVE ~ Spent(w)'
  BY <1>0, <1>2 DEF Become, Spent
\* A known call keeps the case from being due.
<1>3. ASSUME NEW i \in Sequences3, RowsKept, attempts[i].status \in OnTheLine PROVE FALSE
  <2>1. attempts[i].ref # 0 /\ attempts[i].status \in AttemptActive
    BY <1>3 DEF RowsInv, CallRow, OnTheLine, AttemptActive
  <2>2. case' = case
    BY <1>3 DEF RowsKept
  <2> QED
    BY <1>0, <2>1, <2>2 DEF LineInv, Closed
\* Neither does one that may have been placed.
<1>4. ASSUME NEW i \in Sequences3, RowsKept, submission[i].state = "uncertain" PROVE FALSE
  BY <1>0, <1>4 DEF LineInv, RowsKept, Closed
<1>5. CASE Start(w)
  <2> DEFINE r == [worker[w] EXCEPT !.pc = "reserve", !.now = clock]
  <2>1. r.pc = "reserve"
    BY <1>0 DEF WorkerRecords
  <2>2. RowsKept /\ (Closed(case) \/ Become(w, r))
    BY <1>5 DEF Start, RowsKept, repositoryVars
  <2> HIDE DEF r
  <2> QED
    BY <1>0, <1>2, <2>1, <2>2 DEF RowsKept, Closed
<1>6. CASE ReuseAttempt(w)
  <2> DEFINE r == [worker[w] EXCEPT !.pc = "claim", !.seq = LastActive]
  <2>1. r.pc = "claim"
    BY <1>0 DEF WorkerRecords
  <2>2. /\ RowsKept /\ Active # {}
        /\ attempts[LastActive].status \in {"reserved", "provider_retry"} \/ Done(w, "ok")
        /\ attempts[LastActive].status \in {"reserved", "provider_retry"} => Become(w, r)
    BY <1>6 DEF ReuseAttempt, RowsKept, repositoryVars
  <2>3. LastActive \in Sequences3 /\ attempts[LastActive].status \in AttemptActive
    BY <1>0, <2>2, ActiveTypes DEF Active, TypeOK
  <2>4. CASE attempts[LastActive].status \in OnTheLine
    BY <1>3, <2>2, <2>3, <2>4
  <2> HIDE DEF r
  <2> QED
    BY <1>2, <2>1, <2>2, <2>3, <2>4 DEF AttemptActive, OnTheLine
<1>7. CASE Reserve(w)
  <2> DEFINE r == [worker[w] EXCEPT !.pc = "claim", !.seq = case.count + 1]
  <2>1. r.pc = "claim" /\ Become(w, r)
    BY <1>0, <1>7 DEF Reserve, WorkerRecords
  <2> HIDE DEF r
  <2> QED
    BY <1>2, <2>1
<1>8. CASE Claim(w)
  <2> DEFINE r == [worker[w] EXCEPT !.pc = "place", !.case = case',
                                    !.att = attempts'[worker[w].seq]]
  <2>1. r.pc = "place" /\ Become(w, r)
    BY <1>0, <1>8 DEF Claim, WorkerRecords
  <2> HIDE DEF r
  <2> QED
    BY <1>2, <2>1
<1>9. CASE ClaimRefused(w)
  <2> DEFINE i == worker[w].seq
             r == [worker[w] EXCEPT !.pc = "expire", !.case = case, !.att = attempts[i]]
  <2>1. r.pc = "expire"
    BY <1>0 DEF WorkerRecords
  <2>2. /\ RowsKept
        /\ \/ Closed(case)
           \/ Become(w, r)
           \/ Done(w, "not_due")
           \/ attempts[i].status \in OnTheLine
           \/ Done(w, "error")
    BY <1>9 DEF ClaimRefused, RowsKept, repositoryVars, OnTheLine
  <2> HIDE DEF r
  <2> QED
    BY <1>0, <1>1, <1>2, <1>3, <2>1, <2>2 DEF RowsKept, Closed
<1>10. CASE ReserveRefused(w) \/ ContactUnavailable(w) \/ MarkRetry(w)
  BY <1>1, <1>10 DEF ReserveRefused, ContactUnavailable, MarkRetry
\* A hand-over to a human closes the case.
<1>11. ASSUME NEW c \in CaseRecords, NEW na, Store(ManualCase(c), na) PROVE FALSE
  BY <1>0, <1>11 DEF Store, ManualCase, CaseRecords, Closed, CaseTerminal
<1>12. CASE Expire(w) \/ MarkUncertain(w)
  <2>1. \/ Store(ManualCase(worker[w].case), ManualAttempt(worker[w].att))
        \/ RowsKept /\ submission[worker[w].att.sequence].state = "uncertain"
        \/ Done(w, "error")
    BY <1>12 DEF Expire, MarkUncertain, ExpireSubmission, FinishSubmission, RowsKept,
       repositoryVars
  <2>2. worker[w].case \in CaseRecords
    BY <1>0 DEF WorkerRecords
  <2> QED
    BY <1>0, <1>1, <1>4, <1>11, <2>1, <2>2
<1>13. CASE PlaceAccepted(w)
  <2> DEFINE i == worker[w].seq
             r == [worker[w] EXCEPT !.pc = "bind", !.ref = calls[i] + 1]
  <2>1. r.pc = "bind" /\ r.seq = i /\ Become(w, r) /\ attempts' = attempts
    BY <1>0, <1>13 DEF PlaceAccepted, WorkerRecords, repositoryVars
  <2>2. calls[i] = 0 /\ attempts[i].ref <= calls[i] /\ attempts[i].ref \in Nat
    BY <1>0, <1>13 DEF PlaceAccepted, HolderInv, RowsInv, LadderInv, DispatchInv, RowInv, TypeOK,
       RepositoryTypeOK, AttemptRecords
  <2>3. attempts[i].ref = 0
    BY <2>2
  <2> HIDE DEF r
  <2> QED
    BY <1>0, <2>1, <2>3 DEF Become, Spent
<1>14. CASE PlaceUncertain(w) \/ PlaceRefused(w)
  <2>1. PICK to \in {"uncertain", "retry"} : Goto(w, to)
    BY <1>14 DEF PlaceUncertain, PlaceRefused
  <2> DEFINE r == [worker[w] EXCEPT !.pc = to]
  <2>2. r.pc = to /\ Become(w, r)
    BY <1>0, <2>1 DEF Goto, WorkerRecords
  <2> HIDE DEF r
  <2> QED
    BY <1>2, <2>2
<1>15. CASE Bind(w)
  <2> DEFINE i == worker[w].seq
  <2>1. CASE BindCall(i, worker[w].ref)
    BY <1>0, <2>1 DEF BindCall, TypeOK, RepositoryTypeOK, CaseRecords
  <2>2. CASE attempts[i].ref = worker[w].ref /\ UNCHANGED repositoryVars
    <3>1. attempts[i].ref # 0 /\ worker[w].pc = "bind"
      BY <1>0, <1>15, <2>2 DEF Bind, HolderInv, TypeOK
    <3> QED
      BY <1>0, <2>2, <3>1 DEF Spent, RowsKept, repositoryVars
  <2>3. CASE Done(w, "error")
    BY <1>1, <2>3
  <2> QED
    BY <1>15, <2>1, <2>2, <2>3 DEF Bind, Resolve
<1> QED
  BY <1>5, <1>6, <1>7, <1>8, <1>9, <1>10, <1>12, <1>13, <1>14, <1>15 DEF Dispatch

(* What a worker is about to do does not change by another's step, unless  *)
(* the step binds a call, and then the case is not due.                    *)
LEMMA OthersWorking ==
  ASSUME RowsInv, Deed, Due', NEW w \in Workers, worker'[w] = worker[w],
         w \in exhausting => w \in exhausting', Spent(w)'
  PROVE  Spent(w)
<1>0. TypeOK /\ worker[w].seq \in Sequences3
  BY DEF RowsInv, LadderInv, DispatchInv, TypeOK, WorkerRecords
<1>1. \A i \in Sequences3 : attempts[i].ref = 0 => attempts'[i].ref = 0
  <2> SUFFICES ASSUME NEW i \in Sequences3, attempts[i].ref = 0 PROVE attempts'[i].ref = 0
    OBVIOUS
  <2>1. ASSUME NEW v \in Workers, Reserve(v) PROVE attempts'[i].ref = 0
    BY <2>1, ReservedRow
  <2>2. ASSUME NEW v \in Workers, Claim(v) PROVE attempts'[i].ref = 0
    BY <2>2, ClaimedRow
  <2>3. ASSUME NEW j \in Sequences3, NEW k \in Nat \ {0}, BindCall(j, k) PROVE FALSE
    BY <1>0, <2>3 DEF BindCall, Due, TypeOK, RepositoryTypeOK, CaseRecords
  <2>4. ASSUME NEW j \in Sequences3, OnlyRow(j) PROVE attempts'[i].ref = 0
    BY <2>4 DEF OnlyRow
  <2> QED
    BY <2>1, <2>2, <2>3, <2>4 DEF Deed, Retried, Advanced, Unanswered, Handed, Called, Dropped
<1> QED
  BY <1>0, <1>1 DEF Spent

LEMMA OneWorker ==
  ASSUME TypeOK, NEW w \in Workers, DispatchNext(w) \/ Exhaust(w), NEW v \in Workers, v # w
  PROVE  worker'[v] = worker[v]
<1>0. worker \in [Workers -> WorkerRecords]
  BY DEF TypeOK
<1>1. ASSUME NEW r, Become(w, r) PROVE worker'[v] = worker[v]
  BY <1>0, <1>1 DEF Become
<1>2. \E r : Become(w, r)
  BY DEF DispatchNext, Exhaust, Start, ReuseAttempt, Reserve, ReserveRefused, ContactUnavailable,
     Claim, ClaimRefused, Expire, PlaceAccepted, PlaceUncertain, PlaceRefused, Bind, MarkRetry,
     MarkUncertain, Return, Crash, ExhaustRead, ExhaustList, ExhaustApply, Done, Goto
<1> QED
  BY <1>1, <1>2

LEMMA SentCarries ==
  ASSUME DeliveryShape, NEW m \in Messages, Sent(m)
  PROVE  Carries(m)'
<1>1. queue'[m].state # "free" /\ \A w \in Workers : job'[w] # m
  BY DeliveryAssumption DEF Sent, Free, DeliveryShape
<1> QED
  BY <1>1 DEF Carries

LEMMA StillCarries ==
  ASSUME NEW m \in Messages, Carries(m), queue'[m].state # "free",
         \A v \in Workers : job'[v] = m => \/ ~ Spent(v)'
                                          \/ (job[v] = m /\ (Spent(v)' => Spent(v)))
  PROVE  Carries(m)'
  BY DEF Carries

LEMMA DueStep ==
  ASSUME RowsInv, RowsInv', Deed, DeliveryShape, HeldOnce, DueInv, ~ WebhookCrashes,
         \A i \in Sequences3 : LineInv(i), \A i \in Sequences3 : LineInv(i)',
         [DeliveryNext]_deliveryVars
  PROVE  DueInv'
<1> SUFFICES ASSUME Due', scheduling' = {} PROVE \E m \in Messages : Carries(m)'
  BY DEF DueInv
<1>0. /\ TypeOK /\ case \in CaseRecords
      /\ \A w \in Workers : job[w] # 0 => job[w] \in Messages /\ queue[job[w]].state = "held"
      /\ job \in [Workers -> Messages \cup {0}] /\ 0 \notin Messages
  BY DeliveryAssumption DEF RowsInv, LadderInv, DispatchInv, TypeOK, RepositoryTypeOK,
     DeliveryShape
<1>1. ASSUME RowsKept, scheduling' = scheduling PROVE \E m \in Messages : Carries(m)
  BY <1>1 DEF RowsKept, Due, DueInv, Closed
<1>2. ASSUME NEW w \in Workers, worker'[w] = worker[w], w \in exhausting => w \in exhausting'
      PROVE  Spent(w)' => Spent(w)
  BY <1>2, OthersWorking
\* Nobody's message and nobody's place has changed.
<1>3. ASSUME RowsKept, UNCHANGED <<worker, queue, job, exhausting, scheduling>>
      PROVE  \E m \in Messages : Carries(m)'
  <2>1. PICK m \in Messages : Carries(m)
    BY <1>1, <1>3
  <2> QED
    BY <1>2, <1>3, <2>1, StillCarries DEF Carries
<1>4. ASSUME NEW at \in Int, EnqueueFor(at), job' = job
      PROVE  \E m \in Messages : Carries(m)'
  BY <1>0, <1>4, Sending, SentCarries
<1>5. CASE Authorize
  BY <1>0, <1>4, <1>5 DEF Authorize, TypeOK
<1>6. ASSUME NEW n \in Messages, Redrive(n) PROVE \E m \in Messages : Carries(m)'
  <2>1. /\ RowsKept /\ UNCHANGED <<worker, job, exhausting, scheduling>>
        /\ queue' = [queue EXCEPT ![n].state = "dead", ![n].at = 0]
    BY <1>6 DEF Redrive, RowsKept, vars
  <2>2. PICK m \in Messages : Carries(m)
    BY <1>1, <2>1
  <2>3. queue'[m].state # "free"
    BY <2>1, <2>2 DEF Carries, DeliveryShape
  <2> QED
    BY <1>2, <2>1, <2>2, <2>3, StillCarries
<1>7. ASSUME NEW w \in Workers, NEW n \in Messages, Deliver(w, n)
      PROVE  \E m \in Messages : Carries(m)'
  <2>1. /\ RowsKept /\ UNCHANGED <<worker, exhausting, scheduling>>
        /\ worker[w].pc = "idle" /\ job' = [job EXCEPT ![w] = n]
        /\ queue' = [queue EXCEPT ![n].state = "held", ![n].at = 0, ![n].count = @ + 1]
    BY <1>7 DEF Deliver, RowsKept, vars
  <2>2. PICK m \in Messages : Carries(m)
    BY <1>1, <2>1
  <2>3. queue'[m].state # "free"
    BY <2>1, <2>2 DEF Carries, DeliveryShape
  <2>4. ~ Spent(w)'
    BY <2>1 DEF Spent
  <2>5. \A v \in Workers \ {w} : job'[v] = job[v]
    BY <1>0, <2>1
  <2> QED
    BY <1>2, <2>1, <2>2, <2>3, <2>4, <2>5, StillCarries
<1>8. ASSUME NEW w \in Workers, Dispatch(w) PROVE \E m \in Messages : Carries(m)'
  <2>1. job[w] # 0 /\ UNCHANGED <<queue, job, exhausting, scheduling>>
    BY <1>8 DEF Dispatch, queueVars
  <2>2. \A v \in Workers \ {w} : Spent(v)' => Spent(v)
    BY <1>0, <1>2, <1>8, <2>1, OneWorker DEF Dispatch, DispatchNext
  <2>3. CASE ~ Spent(w)'
    <3>1. job[w] \in Messages /\ queue'[job[w]].state # "free"
      BY <1>0, <2>1
    <3>2. \A v \in Workers : job'[v] = job[w] => v = w
      BY <2>1 DEF HeldOnce
    <3> QED
      BY <2>3, <3>1, <3>2 DEF Carries
  <2>4. CASE RowsKept /\ Spent(w)
    <3>1. PICK m \in Messages : Carries(m)
      BY <1>1, <2>1, <2>4
    <3> QED
      BY <2>1, <2>2, <2>4, <3>1, StillCarries DEF Carries
  <2> QED
    BY <1>8, <2>3, <2>4, StillWorking
<1>9. ASSUME NEW w \in Workers,
             \/ Acknowledge(w) \/ ReleaseUntilDue(w) \/ ReleaseAfterError(w)
             \/ LeaveExhausted(w) \/ CrashWorker(w)
      PROVE  \E m \in Messages : Carries(m)'
  <2>1. /\ Left(w) /\ scheduling' = scheduling
        /\ job[w] # 0 /\ queue'[job[w]].state # "waiting" => Acknowledge(w)
    BY <1>0, <1>9, LettingGo
  <2>2. RowsKept /\ (Return(w) \/ Crash(w) \/ worker' = worker)
    BY <1>9 DEF Acknowledge, ReleaseUntilDue, ReleaseAfterError, LeaveExhausted, CrashWorker,
       LetGo, Return, Crash, RowsKept, repositoryVars, vars
  <2>3. \A v \in Workers \ {w} : worker'[v] = worker[v]
    BY <1>0, <2>2, OneWorker DEF DispatchNext
  <2>4. \A v \in Workers \ {w} : Spent(v)' => Spent(v)
    BY <1>2, <2>1, <2>3 DEF Left
  <2>5. PICK m \in Messages : Carries(m)
    BY <1>1, <2>1, <2>2
  <2>6. ASSUME job[w] = m PROVE queue'[m].state # "free"
    <3>1. ~ Acknowledge(w)
      BY <2>5, <2>6 DEF Acknowledge, Finished, Carries, Spent
    <3> QED
      BY <1>0, <2>1, <2>6, <3>1
  <2>7. queue'[m].state # "free"
    BY <2>1, <2>5, <2>6 DEF Left, Carries
  <2> QED
    BY <1>0, <2>1, <2>4, <2>5, <2>7, StillCarries DEF Left
<1>10. ASSUME NEW w \in Workers, ExhaustDelivery(w) \/ ExhaustStep(w)
       PROVE  \E m \in Messages : Carries(m)'
  <2>1. /\ UNCHANGED <<queue, job, scheduling>> /\ exhausting \subseteq exhausting'
        /\ w \in exhausting' /\ Exhaust(w)
    BY <1>10 DEF ExhaustDelivery, ExhaustStep, Exhaust, queueVars
  <2>2. RowsKept
    <3>1. ASSUME NEW c \in CaseRecords, case' = ManualCase(c) PROVE FALSE
      BY <3>1 DEF ManualCase, CaseRecords, Closed, CaseTerminal, Due
    <3>2. worker[w].case \in CaseRecords
      BY <1>0 DEF TypeOK, WorkerRecords
    <3> QED
      BY <2>1, <3>1, <3>2 DEF Exhaust, ExhaustRead, ExhaustList, ExhaustApply, ApplyCaseTransition,
         ApplyTransition, Store, RowsKept, repositoryVars
  <2>3. PICK m \in Messages : Carries(m)
    BY <1>1, <2>1, <2>2
  <2>4. ~ Spent(w)' /\ \A v \in Workers \ {w} : Spent(v)' => Spent(v)
    BY <1>0, <1>2, <2>1, OneWorker DEF Spent
  <2> QED
    BY <2>1, <2>3, <2>4, StillCarries DEF Carries
<1>11. ASSUME NEW h \in Handlers, ReceiveCallback(h) PROVE \E m \in Messages : Carries(m)'
  <2>1. UNCHANGED <<worker, queue, job, exhausting, scheduling>>
    BY <1>11 DEF ReceiveCallback, Receive
  <2>2. ASSUME NEW i, NEW k, BindCall(i, k) PROVE FALSE
    BY <1>0, <2>2 DEF BindCall, CaseRecords, Due
  <2>3. RowsKept
    BY <1>11, <2>2 DEF ReceiveCallback, Receive, Resolve, RowsKept, repositoryVars
  <2> QED
    BY <1>3, <2>1, <2>3
<1>12. ASSUME NEW h \in Handlers PROVE ~ ApplyWebhook(h) /\ ~ CrashWebhook(h)
  BY DEF ApplyWebhook, CrashWebhook
<1>13. ASSUME NEW h \in Handlers, ConflictWebhook(h) PROVE \E m \in Messages : Carries(m)'
  BY <1>3, <1>13 DEF ConflictWebhook, RefuseCallback, RowsKept, repositoryVars, queueVars
<1>14. ASSUME NEW h \in Handlers, Schedule(h) PROVE \E m \in Messages : Carries(m)'
  <2>1. case' = case /\ case.nextAt # NoTime
    BY <1>14 DEF Schedule, vars, Due
  <2> QED
    BY <1>0, <1>4, <1>14, <2>1 DEF Schedule, CaseRecords
<1>15. CASE Elapse \/ UNCHANGED deliveryVars
  BY <1>3, <1>15 DEF Elapse, Tick, deliveryVars, vars, queueVars, processVars, RowsKept,
     repositoryVars
<1> QED
  BY <1>5, <1>6, <1>7, <1>8, <1>9, <1>10, <1>11, <1>12, <1>13, <1>14, <1>15
     DEF DeliveryNext, WorkerStep, WebhookStep

-----------------------------------------------------------------------------

LEMMA DeliveryInvInit == DeliveryInit => DeliveryInv
<1> SUFFICES ASSUME DeliveryInit PROVE DeliveryInv
  OBVIOUS
<1>1. CoordinatorInit
  BY DEF DeliveryInit
<1>2. \A i \in Sequences3 : LineInv(i)
  BY <1>1 DEF CoordinatorInit, RepositoryInit, LineInv, NoClaim
<1>3. TimeInv
  <2> SUFFICES ASSUME NEW w \in Workers PROVE worker[w].now <= clock
    BY DEF TimeInv
  <2>1. worker[w].now \in Nat /\ clock \in Nat /\ worker[w].now = 0
    BY <1>1, TypeInit DEF CoordinatorInit, IdleWorker, TypeOK, WorkerRecords
  <2> QED
    BY <2>1
<1>4. DeliveryShape
  <2>1. NoMessage \in QueueRecords
    BY DeliveryAssumption DEF NoMessage, QueueRecords
  <2>2. queue \in [Messages -> QueueRecords]
    BY <2>1 DEF DeliveryInit
  <2>3. /\ job \in [Workers -> Messages \cup {0}] /\ \A w \in Workers : job[w] = 0
        /\ exhausting \subseteq Workers /\ scheduling \subseteq Handlers
    BY DEF DeliveryInit
  <2>4. crashes \in 0..MaxCrashes /\ requests \in 0..MaxRequests
    BY DeliveryAssumption DEF DeliveryInit
  <2> QED
    BY <2>2, <2>3, <2>4 DEF DeliveryShape, QueueRecords
<1>5. HeldOnce
  BY DEF DeliveryInit, HeldOnce
<1>6. DueInv
  BY <1>1 DEF CoordinatorInit, RepositoryInit, DueInv, Due
<1> QED
  BY <1>1, <1>2, <1>3, <1>4, <1>5, <1>6, RowsInvInit DEF DeliveryInv

LEMMA DeliveryInvStep == DeliveryInv /\ [DeliveryNext]_deliveryVars => DeliveryInv'
<1> SUFFICES ASSUME DeliveryInv, [DeliveryNext]_deliveryVars PROVE DeliveryInv'
  OBVIOUS
<1>1. RowsInv /\ TypeOK /\ [CoordinatorNext]_vars
  BY DeliverySteps DEF DeliveryInv, RowsInv, LadderInv, DispatchInv
<1>2. RowsInv' /\ Kind /\ Deed
  BY <1>1, RowsInvStep, StepKinds, StepDeeds DEF RowsInv, LadderInv
<1>3. \A i \in Sequences3 : LineInv(i)'
  BY <1>1, <1>2, LineStep DEF DeliveryInv
<1>4. TimeInv'
  BY <1>1, TimeStep DEF DeliveryInv
<1>5. DeliveryShape' /\ HeldOnce'
  BY <1>1, ShapeStep DEF DeliveryInv
<1>6. ~ WebhookCrashes => DueInv'
  BY <1>1, <1>2, <1>3, DueStep DEF DeliveryInv
<1> QED
  BY <1>2, <1>3, <1>4, <1>5, <1>6 DEF DeliveryInv

(* The inductive invariant holds in every reachable state, for any number  *)
(* of workers, webhook requests and messages.                              *)
THEOREM DeliveryInvariant == DeliverySpec => []DeliveryInv
  BY DeliveryInvInit, DeliveryInvStep, PTL DEF DeliverySpec

(* The queue, the workers' messages and the requests always have their     *)
(* shape, and a worker's message is hidden from the others while it is     *)
(* worked on.                                                              *)
THEOREM DeliveryShapeCorrect == DeliverySpec => []DeliveryShape
<1>1. DeliveryInv => DeliveryShape
  BY DEF DeliveryInv
<1> QED
  BY <1>1, DeliveryInvariant, PTL

(* As long as no webhook request dies before it has rescheduled the case,  *)
(* a case that is due has a message or a request about to send one,        *)
(* whatever workers crash, deliveries repeat and callbacks come late.      *)
THEOREM NothingDueForgotten ==
  ASSUME ~ WebhookCrashes PROVE DeliverySpec => []NoDueCaseForgotten
<1>1. DeliveryInv => NoDueCaseForgotten
  BY DEF DeliveryInv, DueInv, Due, Carries, NoDueCaseForgotten, Queued
<1> QED
  BY <1>1, DeliveryInvariant, PTL

(* Between two rungs of the ladder nothing but the time at which the case  *)
(* is due, or the end of the case, moves it: early messages, repeated      *)
(* authorizations and callbacks, crashes and redeliveries do not.          *)
THEOREM QuietAlwaysBetweenRungs == DeliverySpec => QuietBetweenRungs
<1> DEFINE Still == case.status \in {"retry_scheduled", "supervisor_scheduled"} =>
                      \/ case' = case
                      \/ Closed(case')
                      \/ case'.count = case.count + 1 /\ case.nextAt <= clock
<1>1. DeliveryInv /\ [DeliveryNext]_deliveryVars => Still
  <2> SUFFICES ASSUME DeliveryInv, [DeliveryNext]_deliveryVars,
                      case.status \in {"retry_scheduled", "supervisor_scheduled"}
               PROVE  \/ case' = case
                      \/ Closed(case')
                      \/ case'.count = case.count + 1 /\ case.nextAt <= clock
    OBVIOUS
  <2>1. /\ RowsInv /\ TypeOK /\ [CoordinatorNext]_vars /\ TimeInv
        /\ \A w \in Workers : worker[w].now \in Nat /\ worker[w].seq \in Sequences3
        /\ clock \in Nat /\ case \in CaseRecords /\ case.nextAt \in Int /\ case.count \in 0..3
    BY DeliverySteps DEF DeliveryInv, RowsInv, LadderInv, DispatchInv, TypeOK, RepositoryTypeOK,
       CaseRecords, WorkerRecords
  <2>2. Deed
    BY <2>1, StepDeeds
  <2>3. /\ case.count \in Sequences3
        /\ \A i \in Sequences3 : attempts[i].status \notin AttemptActive
    BY <2>1 DEF RowsInv, CaseMatchesAttempts, Active, Sequences3
  <2>4. ~ Closed(case)
    BY DEF Closed, CaseTerminal
  <2>5. ASSUME NEW w \in Workers, Reserve(w)
        PROVE  case'.count = case.count + 1 /\ case.nextAt <= clock
    <3>1. case'.count = case.count + 1
      BY <2>1, <2>5, ReservedRow
    <3>2. case.nextAt <= worker[w].now /\ worker[w].now <= clock
      BY <2>1, <2>5 DEF Reserve, ReserveNextAttempt, CanReserve, TimeInv
    <3> QED
      BY <2>1, <3>1, <3>2
  <2>6. ASSUME NEW w \in Workers, Claim(w) PROVE FALSE
    BY <2>1, <2>3, <2>6, ClaimedRow DEF AttemptActive
  <2>7. ASSUME NEW i \in Sequences3, NEW k \in Nat \ {0}, BindCall(i, k) PROVE FALSE
    BY <2>1, <2>3, <2>7, BoundRow
  <2>8. ASSUME NEW i \in Sequences3, Retried(i) PROVE FALSE
    <3>1. i <= case.count
      BY <2>1, <2>8 DEF Retried
    <3> QED
      BY <2>1, <2>3, <2>4, <2>8, <3>1, OpenRows DEF Retried
  <2>9. ASSUME NEW i \in Sequences3 PROVE ~ Advanced(i) /\ ~ Unanswered(i) /\ ~ Called(i)
    BY <2>3, <2>9 DEF Advanced, Unanswered, Called
  <2>10. ASSUME case'.status \in {"acknowledged", "manual_follow_up", "canceled"}
         PROVE  Closed(case')
    BY <2>10 DEF Closed, CaseTerminal
  <2> QED
    BY <2>2, <2>5, <2>6, <2>7, <2>8, <2>9, <2>10 DEF Deed, Handed, Dropped
<1>2. DeliverySpec => [][Still]_deliveryVars
  BY <1>1, DeliveryInvariant, PTL DEF DeliverySpec
<1> QED
  BY <1>2 DEF QuietBetweenRungs

(* So the whole delivery calls nobody twice for one attempt, has one live  *)
(* attempt and rows that agree, and climbs the ladder: the queue's         *)
(* redeliveries, the worker's loop and the requests' rescheduling leave    *)
(* the coordinator's promises as they are.                                 *)
THEOREM DeliveryKeepsPromises ==
  DeliverySpec => /\ [](CallOncePerAttempt /\ OneActiveAttempt /\ CaseMatchesAttempts)
                  /\ ClosedCaseIsFinal
                  /\ ClimbsTheLadder
<1>1. DeliverySpec => [](CallOncePerAttempt /\ OneActiveAttempt /\ CaseMatchesAttempts)
  BY DeliveryImplementsCoordinator, OneCallPerAttempt, OneLiveAttempt, CaseAlwaysMatchesAttempts,
     PTL
<1>2. DeliverySpec => ClosedCaseIsFinal
  BY DeliveryImplementsCoordinator, ClosedStaysClosed
<1>3. DeliverySpec => ClimbsTheLadder
  BY DeliveryImplementsCoordinator, ImplementsLadder
<1> QED
  BY <1>1, <1>2, <1>3

=============================================================================
