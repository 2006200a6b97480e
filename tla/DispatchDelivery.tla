------------------------- MODULE DispatchDelivery -------------------------
(***************************************************************************)
(* What keeps a dispatch case moving: the queue (src/data/dispatch/        *)
(* broker.py over SQS), the worker loop that receives, acknowledges and    *)
(* releases its messages (worker.py), and the API calls that put them      *)
(* there (src/api/dispatch_application.py: authorize_dispatch, and         *)
(* _schedule after every callback).  The coordinator is composed in: its   *)
(* steps are those of DispatchCoordinator, taken by a worker that holds a  *)
(* message and by the webhook requests.                                    *)
(*                                                                         *)
(* SQS is external: a message stays until it is deleted, is hidden while   *)
(* somebody holds it, comes back when its holder dies or lets go, and is   *)
(* moved to the dead-letter queue instead of a delivery too many.          *)
(***************************************************************************)
EXTENDS DispatchCoordinator

CONSTANTS
  Messages,       \* bound: places for messages, 1..n
  ExhaustAt,      \* worker.py: the delivery whose failure exhausts the case
  MaxDeliveries,  \* the queue's redrive policy
  MaxDelay,       \* the longest delay a message can be sent with
  MaxCrashes,     \* bound: worker crashes
  MaxRequests,    \* bound: authorize requests and repeated callbacks
  WebhookCrashes  \* may a webhook request die before it has rescheduled?

ASSUME DeliveryAssumption ==
  /\ Messages \in SUBSET (Nat \ {0})
  /\ ExhaustAt \in Nat \ {0}
  /\ MaxDeliveries \in Nat \ {0}
  /\ ExhaustAt <= MaxDeliveries
  /\ MaxDelay \in Nat \ {0}
  /\ MaxCrashes \in Nat
  /\ MaxRequests \in Nat
  /\ WebhookCrashes \in BOOLEAN
  /\ Exhausters = Workers

VARIABLES
  queue,        \* message -> its state, the time it is visible at, its deliveries
  job,          \* worker -> the message it holds (0: none)
  exhausting,   \* the workers that have gone on to mark_delivery_exhausted
  scheduling,   \* the webhook requests that have still to reschedule the case
  crashes, requests

queueVars == <<queue, job, exhausting, scheduling, crashes, requests>>
deliveryVars == <<vars, queueVars>>

NoMessage == [state |-> "free", at |-> 0, count |-> 0]
Free == {m \in Messages : queue[m].state = "free"}

DeliveryInit ==
  /\ CoordinatorInit
  /\ queue = [m \in Messages |-> NoMessage]
  /\ job = [w \in Workers |-> 0]
  /\ exhausting = {}
  /\ scheduling = {}
  /\ crashes = 0
  /\ requests = 0

\* A message can be sent with a limited delay only: it comes early then.
EnqueueFor(at) ==
  \E m \in Free :
    /\ \A n \in Free : m <= n
    /\ queue' = [queue EXCEPT ![m] =
         [state |-> "waiting", count |-> 0,
          at |-> IF at <= clock THEN clock
                 ELSE IF at <= clock + MaxDelay THEN at ELSE clock + MaxDelay]]

(* authorize_dispatch has stored the case and enqueues it.  The console    *)
(* may repeat the request with its idempotency key: the case is found and  *)
(* enqueued again.                                                         *)
Authorize ==
  /\ requests < MaxRequests
  /\ requests' = requests + 1
  /\ EnqueueFor(clock)
  /\ UNCHANGED <<vars, job, exhausting, scheduling, crashes>>

-----------------------------------------------------------------------------
(* poll_once.                                                              *)

Visible(m) == queue[m].state = "waiting" /\ queue[m].at <= clock

(* One delivery too many goes to the dead-letter queue instead.            *)
Redrive(m) ==
  /\ Visible(m)
  /\ queue[m].count = MaxDeliveries
  /\ queue' = [queue EXCEPT ![m].state = "dead", ![m].at = 0]
  /\ UNCHANGED <<vars, job, exhausting, scheduling, crashes, requests>>

(* Mutant of Deliver: the message stays visible to the other workers.      *)
DeliverVisible(w, m) ==
  /\ worker[w].pc = "idle" /\ job[w] = 0
  /\ Visible(m)
  /\ queue[m].count < MaxDeliveries
  /\ queue' = [queue EXCEPT ![m].count = @ + 1]
  /\ job' = [job EXCEPT ![w] = m]
  /\ UNCHANGED <<vars, exhausting, scheduling, crashes, requests>>

Deliver(w, m) ==
  /\ worker[w].pc = "idle" /\ job[w] = 0
  /\ Visible(m)
  /\ queue[m].count < MaxDeliveries
  /\ queue' = [queue EXCEPT ![m].state = "held", ![m].at = 0,
                                   ![m].count = @ + 1]
  /\ job' = [job EXCEPT ![w] = m]
  /\ UNCHANGED <<vars, exhausting, scheduling, crashes, requests>>

(* The coordinator's own steps of dispatch_next.                           *)
Dispatch(w) ==
  /\ job[w] # 0
  /\ \/ Start(w) \/ ReuseAttempt(w) \/ Reserve(w) \/ ReserveRefused(w)
     \/ ContactUnavailable(w) \/ Claim(w) \/ ClaimRefused(w) \/ Expire(w)
     \/ PlaceAccepted(w) \/ PlaceUncertain(w) \/ PlaceRefused(w)
     \/ Bind(w) \/ MarkRetry(w) \/ MarkUncertain(w)
  /\ UNCHANGED queueVars

LetGo(w, message) ==
  /\ Return(w)
  /\ queue' = [queue EXCEPT ![job[w]] = message]
  /\ job' = [job EXCEPT ![w] = 0]
  /\ exhausting' = exhausting \ {w}
  /\ UNCHANGED <<scheduling, crashes, requests>>
Hidden(w, at) == [queue[job[w]] EXCEPT !.state = "waiting", !.at = at]
Finished(w, out) == worker[w].pc = "done" /\ worker[w].out = out

Acknowledge(w) ==
  /\ Finished(w, "ok") /\ w \notin exhausting
  /\ LetGo(w, NoMessage)

(* Mutant of ReleaseUntilDue: a case that is not due counts as handled.    *)
AcknowledgeUntilDue(w) ==
  /\ Finished(w, "not_due")
  /\ LetGo(w, NoMessage)

(* DispatchRetryNotDue: the message is hidden until the case is due.       *)
ReleaseUntilDue(w) ==
  /\ Finished(w, "not_due")
  /\ LetGo(w, Hidden(w, IF case.nextAt > clock THEN case.nextAt ELSE clock + 1))

(* Any other DispatchError: back-off, up to the delivery that exhausts.    *)
ReleaseAfterError(w) ==
  /\ Finished(w, "error") /\ w \notin exhausting
  /\ queue[job[w]].count < ExhaustAt
  /\ LetGo(w, Hidden(w, clock + 1))

ExhaustDelivery(w) ==
  /\ job[w] # 0
  /\ w \notin exhausting
  /\ queue[job[w]].count >= ExhaustAt
  /\ ExhaustRead(w)
  /\ exhausting' = exhausting \cup {w}
  /\ UNCHANGED <<queue, job, scheduling, crashes, requests>>
ExhaustStep(w) ==
  /\ w \in exhausting
  /\ worker[w].pc # "done"
  /\ Exhaust(w)
  /\ UNCHANGED queueVars

(* After the exhaustion the message is neither acknowledged nor released:  *)
(* it comes back by itself.                                                *)
LeaveExhausted(w) ==
  /\ w \in exhausting
  /\ worker[w].pc = "done"
  /\ LetGo(w, Hidden(w, clock))

CrashWorker(w) ==
  /\ crashes < MaxCrashes
  /\ job[w] # 0
  /\ Crash(w) \/ Return(w) \/ (worker[w].pc = "idle" /\ UNCHANGED vars)
  /\ crashes' = crashes + 1
  /\ queue' = [queue EXCEPT ![job[w]] = Hidden(w, clock)]
  /\ job' = [job EXCEPT ![w] = 0]
  /\ exhausting' = exhausting \ {w}
  /\ UNCHANGED <<scheduling, requests>>

-----------------------------------------------------------------------------
(* The webhooks: the callback is applied, then the case is read again and, *)
(* if an attempt is due at some time, enqueued for then.                   *)

ReceiveCallback(h) ==
  /\ h \notin scheduling
  /\ \E i \in Sequences3 : \E k \in 1..calls[i] : \E v \in Callbacks :
       /\ requests' = IF v \in line[i] THEN requests + 1 ELSE requests
       /\ Receive(h, i, k, v)
  /\ requests' <= MaxRequests
  /\ UNCHANGED <<queue, job, exhausting, scheduling, crashes>>

ApplyWebhook(h) ==
  /\ \/ RecordCallback(h)
     \/ HandleCallback(h)
     \/ RefuseCallback(h) /\ handler[h].value \in seen[handler[h].att.sequence]
  /\ scheduling' = scheduling \cup {h}
  /\ UNCHANGED <<queue, job, exhausting, crashes, requests>>

(* A conflict is answered with 409; nothing is rescheduled.                *)
ConflictWebhook(h) ==
  /\ RefuseCallback(h)
  /\ handler[h].value \notin seen[handler[h].att.sequence]
  /\ UNCHANGED queueVars

(* Mutant of Schedule: only a second call to the primary is enqueued.      *)
ScheduleRetryOnly(h) ==
  /\ h \in scheduling
  /\ IF case.status = "retry_scheduled" THEN EnqueueFor(case.nextAt) ELSE UNCHANGED queue
  /\ scheduling' = scheduling \ {h}
  /\ UNCHANGED <<vars, job, exhausting, crashes, requests>>

Schedule(h) ==
  /\ h \in scheduling
  /\ IF case.nextAt = NoTime THEN UNCHANGED queue ELSE EnqueueFor(case.nextAt)
  /\ scheduling' = scheduling \ {h}
  /\ UNCHANGED <<vars, job, exhausting, crashes, requests>>

(* The API process dies after the callback was applied.                    *)
CrashWebhook(h) ==
  /\ WebhookCrashes
  /\ h \in scheduling
  /\ scheduling' = scheduling \ {h}
  /\ UNCHANGED <<vars, queue, job, exhausting, crashes, requests>>

-----------------------------------------------------------------------------
(* Time passes while somebody waits for it.  The database steps of workers *)
(* and requests take none here, a call to the provider may (slow steps of  *)
(* every kind are in DispatchCoordinator, whose Tick is free).             *)
Awaited == {case.nextAt} \cup {submission[i].deadline : i \in Sequences3}
             \cup {queue[m].at : m \in {n \in Messages : queue[n].state = "waiting"}}
Waiting == /\ \A w \in Workers : job[w] = 0 \/ worker[w].pc = "place"
           /\ \A h \in Handlers : handler[h].pc = "idle"
           /\ scheduling = {}
Elapse ==
  /\ Waiting
  /\ \E t \in Awaited : t > clock
  /\ Tick
  /\ UNCHANGED queueVars

WorkerStep(w) ==
  \/ \E m \in Messages : Deliver(w, m)
  \/ Dispatch(w)
  \/ Acknowledge(w) \/ ReleaseUntilDue(w) \/ ReleaseAfterError(w)
  \/ ExhaustDelivery(w) \/ ExhaustStep(w) \/ LeaveExhausted(w)
WebhookStep(h) == ApplyWebhook(h) \/ ConflictWebhook(h) \/ Schedule(h)

DeliveryNext ==
  \/ Authorize
  \/ \E m \in Messages : Redrive(m)
  \/ \E w \in Workers : WorkerStep(w) \/ CrashWorker(w)
  \/ \E h \in Handlers : ReceiveCallback(h) \/ WebhookStep(h) \/ CrashWebhook(h)
  \/ Elapse

(* The end of a call accepted for attempt i is reported.                   *)
ReportEnd(i) ==
  /\ line[i] \cap EndValues = {}
  /\ \E h \in Handlers :
       /\ h \notin scheduling
       /\ \E v \in Callbacks \cap EndValues : \E k \in 1..calls[i] : Receive(h, i, k, v)
  /\ UNCHANGED queueVars

(* Fairness: the workers and the webhook requests run, time passes, SQS    *)
(* moves what it must, and the provider reports the end of every call once *)
(* (it may have to wait for a free request, hence strong fairness).        *)
(* Nothing else is assumed: no press, no repeated callback, no repeated    *)
(* authorization, no end of the crashes but their bound.                   *)
Fairness ==
  /\ \A w \in Workers : WF_deliveryVars(WorkerStep(w))
  /\ \A h \in Handlers : WF_deliveryVars(WebhookStep(h))
  /\ \A m \in Messages : WF_deliveryVars(Redrive(m))
  /\ \A i \in Sequences3 : SF_deliveryVars(ReportEnd(i))
  /\ WF_deliveryVars(Elapse)

DeliverySpec == DeliveryInit /\ [][DeliveryNext]_deliveryVars
FairDeliverySpec == DeliverySpec /\ Fairness

-----------------------------------------------------------------------------
(* Properties                                                              *)

Queued == \E m \in Messages : queue[m].state # "free"
DeadLettered == \E m \in Messages : queue[m].state = "dead"

(* What the queue, the workers' messages and the requests may hold; a      *)
(* worker holds a message while it works on it.                            *)
DeliveryShape ==
  /\ queue \in [Messages -> [state: {"free", "waiting", "held", "dead"},
                            at: Int, count: 0..MaxDeliveries]]
  /\ job \in [Workers -> Messages \cup {0}]
  /\ exhausting \subseteq Workers
  /\ scheduling \subseteq Handlers
  /\ crashes \in 0..MaxCrashes
  /\ requests \in 0..MaxRequests
  /\ \A w \in Workers : job[w] # 0 => queue[job[w]].state = "held"

(* The shape of the queue, and the bound on messages never keeps a request *)
(* from sending one.                                                       *)
DeliveryTypeOK ==
  /\ DeliveryShape
  /\ scheduling # {} /\ case.nextAt # NoTime => Free # {}

(* A case that is due for something now or later is never forgotten: there *)
(* is a message for it, or a webhook request about to send one.  (The      *)
(* fresh case that authorize has stored but not yet enqueued is not meant; *)
(* release, acknowledge and _schedule are.)  "Restarts do not lose the     *)
(* escalation state."                                                      *)
NoDueCaseForgotten ==
  ~ Closed(case) /\ case.status # "queued" /\ case.nextAt # NoTime
    => Queued \/ scheduling # {}

(* Between two rungs of the ladder a case is left alone until it is due:   *)
(* a message that comes early (sent again by the console or for a repeated *)
(* callback, redelivered, or sent with less than the delay), a webhook     *)
(* that died and a callback that comes again neither dial nor move the     *)
(* time (reserve_next_attempt, _schedule, release).                        *)
QuietBetweenRungs ==
  [][case.status \in {"retry_scheduled", "supervisor_scheduled"} =>
       \/ case' = case
       \/ Closed(case')
       \/ case'.count = case.count + 1 /\ case.nextAt <= clock]_deliveryVars

(* Once enqueued, an authorized case is settled (acknowledged, exhausted,  *)
(* given to a human or canceled), or its message ends in the dead-letter   *)
(* queue for an operator to see.                                           *)
EnqueuedCaseSettles == Queued ~> (Closed(case) \/ DeadLettered)

(* A call that ended is followed by the next rung of the ladder or by the  *)
(* end of the case: "Two unacknowledged primary attempts cause exactly one *)
(* supervisor attempt."                                                    *)
EndedCallEscalates ==
  \A i \in Sequences3 :
    line[i] \cap EndValues # {} ~> (case.count > i \/ Closed(case) \/ DeadLettered)

=============================================================================
