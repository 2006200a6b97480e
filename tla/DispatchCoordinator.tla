------------------------ MODULE DispatchCoordinator ------------------------
(***************************************************************************)
(* The dispatch coordinator (src/data/dispatch/service.py) over the        *)
(* repository: queue workers in dispatch_next and mark_delivery_exhausted, *)
(* webhook handlers in handle_status / handle_gather /                     *)
(* handle_answering_machine / voice_script, and an operator in cancel.     *)
(* Each of them is a process that reads, computes and then writes; between *)
(* two of its repository calls anything may happen, a crash included.      *)
(*                                                                         *)
(* The voice provider (Twilio) is external: it may accept a call and fail  *)
(* to say so, and it delivers the callbacks of a call in any order, more   *)
(* than once or never.                                                     *)
(***************************************************************************)
EXTENDS DispatchRepository

CONSTANTS
  Handlers,       \* concurrent webhook requests
  Operators,      \* concurrent cancel requests
  Exhausters,     \* workers whose message may have reached its last delivery
  Callbacks,      \* the callback values the provider may deliver
  RetryDelay,     \* EscalationPolicy.retry_delay
  ClaimTimeout,   \* EscalationPolicy.provider_submission_timeout
  MaxTime,        \* bound: the clock stops there
  MaxVersion      \* bound: no refused submission once an attempt is that old

ProgressValues == {"initiated", "ringing", "in_progress"}
EndValues == {"completed", "no_answer"}       \* no_answer: busy, failed, canceled too
DigitValues == {"1", "2"}
MachineValues == {"machine"}                  \* fax and unknown too
OtherValues == {"voice", "invalid_digit", "human"}
CallbackValues == ProgressValues \cup EndValues \cup DigitValues
                    \cup MachineValues \cup OtherValues

ASSUME CoordinatorAssumption ==
  /\ Exhausters \subseteq Workers
  /\ Callbacks \subseteq CallbackValues
  /\ RetryDelay \in Nat \ {0}
  /\ ClaimTimeout \in Nat \ {0}
  /\ MaxTime \in Nat
  /\ MaxVersion \in Nat

VARIABLES
  clock,
  calls,        \* provider: how many calls it accepted for each attempt
  line,         \* provider: what has happened on the calls of each attempt
  worker,       \* worker -> its place in dispatch_next or mark_delivery_exhausted
  handler,      \* webhook request -> the callback it is handling
  canceler      \* operator -> the cancel request it is making

providerVars == <<calls, line>>
processVars == <<worker, handler, canceler>>
vars == <<case, attempts, submission, seen, clock, calls, line,
          worker, handler, canceler>>

NoCase == [status |-> "queued", nextAt |-> NoTime, count |-> 0, version |-> 0]
NoAttempt == [sequence |-> 1, status |-> "unreserved", ref |-> 0, version |-> 0]

IdleWorker == [pc |-> "idle", now |-> 0, seq |-> 1, case |-> NoCase,
               att |-> NoAttempt, ref |-> 0, retried |-> FALSE, out |-> "none"]
IdleHandler == [pc |-> "idle", value |-> "voice", now |-> 0,
                case |-> NoCase, att |-> NoAttempt]
IdleCanceler == [pc |-> "idle", case |-> NoCase, att |-> NoAttempt]

CoordinatorInit ==
  /\ RepositoryInit
  /\ clock = 0
  /\ calls = [i \in Sequences3 |-> 0]
  /\ line = [i \in Sequences3 |-> {}]
  /\ worker = [w \in Workers |-> IdleWorker]
  /\ handler = [h \in Handlers |-> IdleHandler]
  /\ canceler = [o \in Operators |-> IdleCanceler]

-----------------------------------------------------------------------------
(* The rows a transition writes, from the rows its process read.           *)

ManualCase(c) == [c EXCEPT !.status = "manual_follow_up", !.nextAt = NoTime,
                           !.version = @ + 1]
ManualAttempt(a) == [a EXCEPT !.status = "manual_follow_up", !.version = @ + 1]

RetryCase(c, at) == [c EXCEPT !.status = "provider_retry", !.nextAt = at,
                              !.version = @ + 1]
RetryAttempt(a) == [a EXCEPT !.status = "provider_retry", !.version = @ + 1]

CanceledCase(c) == [c EXCEPT !.status = "canceled", !.nextAt = NoTime,
                             !.version = @ + 1]
CanceledAttempt(a) == [a EXCEPT !.status = "canceled", !.version = @ + 1]

(* _unacknowledged: the escalation ladder, two calls to the primary        *)
(* contact and one to the supervisor.                                      *)
NextRung == <<"retry_scheduled", "supervisor_scheduled", "unacknowledged">>
UnacknowledgedCase(c, a, at) ==
  [c EXCEPT !.status = NextRung[a.sequence],
            !.nextAt = IF a.sequence < 3 THEN at + RetryDelay ELSE NoTime,
            !.version = @ + 1]
UnacknowledgedAttempt(a) ==
  [a EXCEPT !.status = "unacknowledged", !.version = @ + 1]

(* _progress_status: a call only moves forward, whatever arrives late.     *)
Rank(s) == CASE s = "initiated" -> 1 [] s = "ringing" -> 2
             [] s = "answered" -> 3 [] OTHER -> 0
Progressed(v) == CASE v = "initiated" -> "initiated"
                   [] v = "ringing" -> "ringing"
                   [] v = "in_progress" -> "answered"
\* Mutants of ProgressStatus: the latest callback wins; the provider's name is kept.
ProgressStatusUnranked(s, v) == Progressed(v)
ProgressStatusRaw(s, v) == IF Rank(Progressed(v)) > Rank(s) THEN v ELSE s
ProgressStatus(s, v) == IF Rank(Progressed(v)) > Rank(s) THEN Progressed(v) ELSE s
ProgressAttempt(a, v) ==
  [a EXCEPT !.status = ProgressStatus(@, v), !.version = @ + 1]
ProgressCase(c, a, v) ==
  [c EXCEPT !.status = IF ProgressStatus(a.status, v) = "answered"
                       THEN "awaiting_acknowledgement" ELSE "dialing",
            !.version = @ + 1]

(* handle_gather: 1 acknowledges, 2 asks for a human.                      *)
GatherStatus(v) == IF v = "1" THEN "acknowledged" ELSE "manual_follow_up"
GatherCase(c, v) == [c EXCEPT !.status = GatherStatus(v), !.nextAt = NoTime,
                              !.version = @ + 1]
GatherAttempt(a, v) == [a EXCEPT !.status = GatherStatus(v), !.version = @ + 1]

CallbackCase(c, a, v, at) ==
  CASE v \in ProgressValues -> ProgressCase(c, a, v)
    [] v \in DigitValues -> GatherCase(c, v)
    [] OTHER -> UnacknowledgedCase(c, a, at)
CallbackAttempt(a, v) ==
  CASE v \in ProgressValues -> ProgressAttempt(a, v)
    [] v \in DigitValues -> GatherAttempt(a, v)
    [] OTHER -> UnacknowledgedAttempt(a)

(* Mutant of OnlyRecorded: a press is honoured in any closed case but an   *)
(* acknowledged one.                                                       *)
OnlyRecordedIfAcknowledged(c, a, v) ==
  \/ v \in {"invalid_digit", "human"}
  \/ v \in DigitValues /\ c.status = "acknowledged"
  \/ v \notin DigitValues /\ (Closed(c) \/ a.status \in AttemptTerminal)

(* The callback changes nothing but the event log.  A press is only        *)
(* recorded once the case is settled, but an unacknowledged case is not    *)
(* settled for it, and neither is an attempt that has already ended.       *)
OnlyRecorded(c, a, v) ==
  \/ v \in {"invalid_digit", "human"}
  \/ v \in DigitValues /\ c.status \in CaseTerminal \ {"unacknowledged"}
  \/ v \notin DigitValues /\ (Closed(c) \/ a.status \in AttemptTerminal)

-----------------------------------------------------------------------------
(* dispatch_next, one action per repository or provider call.              *)

Become(w, r) == worker' = [worker EXCEPT ![w] = r]
Done(w, out) == Become(w, [IdleWorker EXCEPT !.pc = "done", !.out = out])
Goto(w, pc) == Become(w, [worker[w] EXCEPT !.pc = pc])

Start(w) ==
  /\ worker[w].pc = "idle"
  /\ IF Closed(case)
     THEN Done(w, "ok")
     ELSE Become(w, [worker[w] EXCEPT !.pc = "reserve", !.now = clock])
  /\ UNCHANGED <<repositoryVars, clock, providerVars, handler, canceler>>

(* reserve_next_attempt reuses an active attempt; a call that is already   *)
(* on its way is not dialled again.                                        *)
ReuseAttempt(w) ==
  /\ worker[w].pc = "reserve"
  /\ Active # {}
  /\ IF attempts[LastActive].status \in {"reserved", "provider_retry"}
     THEN Become(w, [worker[w] EXCEPT !.pc = "claim", !.seq = LastActive])
     ELSE Done(w, "ok")
  /\ UNCHANGED <<repositoryVars, clock, providerVars, handler, canceler>>

Reserve(w) ==
  /\ worker[w].pc = "reserve"
  /\ ReserveNextAttempt(worker[w].now)
  /\ Become(w, [worker[w] EXCEPT !.pc = "claim", !.seq = case.count + 1])
  /\ UNCHANGED <<clock, providerVars, handler, canceler>>

ReserveRefused(w) ==
  /\ worker[w].pc = "reserve"
  /\ Active = {}
  /\ ~ CanReserve(worker[w].now)
  /\ Done(w, IF ~ Closed(case) /\ case.nextAt > worker[w].now
             THEN "not_due" ELSE "error")
  /\ UNCHANGED <<repositoryVars, clock, providerVars, handler, canceler>>

(* The directory says the contact is missing, unavailable or of another    *)
(* role: the directory is not modelled, it may say so at any time.         *)
ContactUnavailable(w) ==
  /\ worker[w].pc = "claim"
  /\ Done(w, "error")
  /\ UNCHANGED <<repositoryVars, clock, providerVars, handler, canceler>>

Claim(w) ==
  LET i == worker[w].seq IN
  /\ worker[w].pc = "claim"
  /\ ClaimSubmission(i, w, worker[w].now, worker[w].now + ClaimTimeout)
  /\ Become(w, [worker[w] EXCEPT !.pc = "place", !.case = case',
                                 !.att = attempts'[i]])
  /\ UNCHANGED <<clock, providerVars, handler, canceler>>

(* The claim belongs to somebody else or is over.  A claim past its        *)
(* deadline is never taken over: its call may have been placed.            *)
ClaimRefused(w) ==
  LET i == worker[w].seq
      claimed == submission[i].state = "claimed"
  IN
  /\ worker[w].pc = "claim"
  /\ ~ CanClaim(i, worker[w].now)
  /\ \/ /\ Closed(case)
        /\ Done(w, "ok")
     \/ /\ ~ Closed(case)
        /\ claimed /\ submission[i].deadline <= worker[w].now
        /\ Become(w, [worker[w] EXCEPT !.pc = "expire", !.case = case,
                                       !.att = attempts[i]])
     \/ /\ ~ Closed(case)
        /\ \/ claimed /\ submission[i].deadline > worker[w].now
           \/ submission[i].state = "pending" /\ case.nextAt > worker[w].now
        /\ Done(w, "not_due")
     \/ /\ ~ Closed(case)
        /\ ~ claimed
        /\ submission[i].state = "pending" => case.nextAt <= worker[w].now
        /\ Done(w, IF attempts[i].status \in {"initiated", "ringing", "answered"}
                   THEN "ok" ELSE "error")
  /\ UNCHANGED <<repositoryVars, clock, providerVars, handler, canceler>>

(* A second expiry of the same claim is a repeated event: nothing to do,   *)
(* and no error.                                                           *)
Expire(w) ==
  LET c == worker[w].case
      a == worker[w].att
  IN
  /\ worker[w].pc = "expire"
  /\ \/ /\ ExpireSubmission(c, a, worker[w].now, ManualCase(c), ManualAttempt(a))
        /\ Done(w, "ok")
     \/ /\ ~ CanExpire(c, a, worker[w].now)
        /\ Done(w, IF submission[a.sequence].state = "uncertain" THEN "ok" ELSE "error")
        /\ UNCHANGED repositoryVars
  /\ UNCHANGED <<clock, providerVars, handler, canceler>>

(* place_call returned a reference.                                        *)
PlaceAccepted(w) ==
  LET i == worker[w].seq IN
  /\ worker[w].pc = "place"
  /\ calls' = [calls EXCEPT ![i] = @ + 1]
  /\ Become(w, [worker[w] EXCEPT !.pc = "bind", !.ref = calls[i] + 1])
  /\ UNCHANGED <<repositoryVars, clock, line, handler, canceler>>

(* place_call failed once the request was under way: it may be accepted.   *)
PlaceUncertain(w) ==
  LET i == worker[w].seq IN
  /\ worker[w].pc = "place"
  /\ \E accepted \in {0, 1} : calls' = [calls EXCEPT ![i] = @ + accepted]
  /\ Goto(w, "uncertain")
  /\ UNCHANGED <<repositoryVars, clock, line, handler, canceler>>

(* place_call refused before anything was sent: the only retryable failure.*)
PlaceRefused(w) ==
  /\ worker[w].pc = "place"
  /\ worker[w].att.version < MaxVersion
  /\ Goto(w, "retry")
  /\ UNCHANGED <<repositoryVars, clock, providerVars, handler, canceler>>

Bind(w) ==
  LET i == worker[w].seq IN
  /\ worker[w].pc = "bind"
  /\ IF Resolvable(i, worker[w].ref)
     THEN Resolve(i, worker[w].ref) /\ Done(w, "ok")
     ELSE UNCHANGED repositoryVars /\ Done(w, "error")
  /\ UNCHANGED <<clock, providerVars, handler, canceler>>

(* _mark_provider_retry and _mark_submission_uncertain.                    *)
MarkRetry(w) ==
  LET c == worker[w].case
      a == worker[w].att
  IN
  /\ worker[w].pc = "retry"
  /\ \/ FinishSubmission(w, c, a, RetryCase(c, worker[w].now), RetryAttempt(a),
                         NoClaim)
     \/ ~ CanFinish(w, c, a) /\ UNCHANGED repositoryVars
  /\ Done(w, "error")
  /\ UNCHANGED <<clock, providerVars, handler, canceler>>

(* Mutant of MarkUncertain: a call with an unknown outcome is tried again. *)
MarkUncertainAsRetry(w) ==
  LET c == worker[w].case
      a == worker[w].att
  IN
  /\ worker[w].pc = "uncertain"
  /\ \/ FinishSubmission(w, c, a, RetryCase(c, worker[w].now), RetryAttempt(a),
                         NoClaim)
     \/ ~ CanFinish(w, c, a) /\ UNCHANGED repositoryVars
  /\ Done(w, "error")
  /\ UNCHANGED <<clock, providerVars, handler, canceler>>

MarkUncertain(w) ==
  LET c == worker[w].case
      a == worker[w].att
  IN
  /\ worker[w].pc = "uncertain"
  /\ \/ /\ FinishSubmission(w, c, a, ManualCase(c), ManualAttempt(a),
             [submission[a.sequence] EXCEPT !.state = "uncertain"])
        /\ Done(w, "ok")
     \/ /\ ~ CanFinish(w, c, a)
        /\ Done(w, IF submission[a.sequence].state = "uncertain" THEN "ok" ELSE "error")
        /\ UNCHANGED repositoryVars
  /\ UNCHANGED <<clock, providerVars, handler, canceler>>

Return(w) ==
  /\ worker[w].pc = "done"
  /\ Become(w, IdleWorker)
  /\ UNCHANGED <<repositoryVars, clock, providerVars, handler, canceler>>

(* The worker process dies; the next one starts from nothing.              *)
Crash(w) ==
  /\ worker[w].pc \notin {"idle", "done"}
  /\ Become(w, IdleWorker)
  /\ UNCHANGED <<repositoryVars, clock, providerVars, handler, canceler>>

-----------------------------------------------------------------------------
(* mark_delivery_exhausted, by a worker whose message failed too often: it *)
(* reads the case, then its attempts, then writes, and tries twice.        *)

ExhaustRead(w) ==
  /\ \/ worker[w].pc = "exhaust"
     \/ /\ worker[w].pc = "done" /\ worker[w].out = "error"
        /\ w \in Exhausters
  /\ IF Closed(case)
     THEN Done(w, "ok")
     ELSE Become(w, [worker[w] EXCEPT !.pc = "exhaust_list", !.case = case])
  /\ UNCHANGED <<repositoryVars, clock, providerVars, handler, canceler>>

ReadActive == IF Active = {} THEN NoAttempt ELSE attempts[LastActive]

ExhaustList(w) ==
  /\ worker[w].pc = "exhaust_list"
  /\ Become(w, [worker[w] EXCEPT !.pc = "exhaust_apply", !.att = ReadActive])
  /\ UNCHANGED <<repositoryVars, clock, providerVars, handler, canceler>>

ExhaustApply(w) ==
  LET c == worker[w].case
      a == worker[w].att
      fresh == IF a = NoAttempt THEN case.version = c.version ELSE Unchanged(c, a)
  IN
  /\ worker[w].pc = "exhaust_apply"
  /\ \/ /\ IF a = NoAttempt
           THEN ApplyCaseTransition(c, ManualCase(c))
           ELSE ApplyTransition(c, a, ManualCase(c), ManualAttempt(a))
        /\ Done(w, "ok")
     \/ /\ ~ fresh
        /\ IF worker[w].retried
           THEN Done(w, "exhausted")
           ELSE Become(w, [IdleWorker EXCEPT !.pc = "exhaust", !.retried = TRUE])
        /\ UNCHANGED repositoryVars
  /\ UNCHANGED <<clock, providerVars, handler, canceler>>

-----------------------------------------------------------------------------
(* Webhooks.  The calls of one attempt: a call that was never answered has *)
(* no press and no answering-machine verdict, one press at most, one end.  *)

Consistent(S) ==
  /\ "no_answer" \in S => S \subseteq {"no_answer", "initiated", "ringing"}
  /\ \A d, e \in S \cap DigitValues : d = e
  /\ ~ {"machine", "human"} \subseteq S

(* A callback of the k-th call of attempt i: its reference is resolved and,*)
(* when it is the first, bound; what it read is what it will act on.       *)
Receive(h, i, k, v) ==
  /\ handler[h].pc = "idle"
  /\ k \in 1..calls[i]
  /\ v \in Callbacks
  /\ Consistent(line[i] \cup {v})
  /\ line' = [line EXCEPT ![i] = @ \cup {v}]
  /\ IF Resolvable(i, k)
     THEN /\ Resolve(i, k)
          /\ handler' = IF v = "voice" THEN handler
                        ELSE [handler EXCEPT ![h] =
                               [pc |-> "apply", value |-> v, now |-> clock,
                                case |-> case', att |-> attempts'[i]]]
     ELSE UNCHANGED <<repositoryVars, handler>>
  /\ UNCHANGED <<clock, calls, worker, canceler>>

Respond(h) == handler' = [handler EXCEPT ![h] = IdleHandler]

(* The callback is recorded only.                                          *)
RecordCallback(h) ==
  LET r == handler[h] IN
  /\ r.pc = "apply"
  /\ OnlyRecorded(r.case, r.att, r.value)
  /\ AppendEvent(r.att.sequence, r.value)
  /\ Respond(h)
  /\ UNCHANGED <<clock, providerVars, worker, canceler>>

HandleCallback(h) ==
  LET r == handler[h] IN
  /\ r.pc = "apply"
  /\ ~ OnlyRecorded(r.case, r.att, r.value)
  /\ ApplyCallback(r.case, r.att,
                   CallbackCase(r.case, r.att, r.value, r.now),
                   CallbackAttempt(r.att, r.value), r.value)
  /\ Respond(h)
  /\ UNCHANGED <<clock, providerVars, worker, canceler>>

(* A repeated event changes nothing; a stale one is answered with 409.     *)
RefuseCallback(h) ==
  LET r == handler[h] IN
  /\ r.pc = "apply"
  /\ ~ OnlyRecorded(r.case, r.att, r.value)
  /\ \/ r.value \in seen[r.att.sequence]
     \/ ~ Unchanged(r.case, r.att)
  /\ Respond(h)
  /\ UNCHANGED <<repositoryVars, clock, providerVars, worker, canceler>>

-----------------------------------------------------------------------------
(* cancel, by an operator.                                                 *)

CancelRead(o) ==
  /\ canceler[o].pc = "idle"
  /\ ~ Closed(case)
  /\ canceler' = [canceler EXCEPT ![o].pc = "list", ![o].case = case]
  /\ UNCHANGED <<repositoryVars, clock, providerVars, worker, handler>>

(* A bound call is hung up at the provider first; only the in-memory store *)
(* still knows its address, and the request fails otherwise, or when the   *)
(* provider does.                                                          *)
CancelList(o) ==
  /\ canceler[o].pc = "list"
  /\ \/ /\ ReadActive.ref # 0 => ~ Durable
        /\ canceler' = [canceler EXCEPT ![o].pc = "apply", ![o].att = ReadActive]
     \/ /\ ReadActive.ref # 0
        /\ canceler' = [canceler EXCEPT ![o] = IdleCanceler]
  /\ UNCHANGED <<repositoryVars, clock, providerVars, worker, handler>>

CancelApply(o) ==
  LET c == canceler[o].case
      a == canceler[o].att
  IN
  /\ canceler[o].pc = "apply"
  /\ IF a = NoAttempt
     THEN \/ ApplyCaseTransition(c, CanceledCase(c))
          \/ case.version # c.version /\ UNCHANGED repositoryVars
     ELSE \/ /\ CanCancel(c, a)
             /\ ApplyTransition(c, a, CanceledCase(c), CanceledAttempt(a))
          \/ ~ CanCancel(c, a) /\ UNCHANGED repositoryVars
  /\ canceler' = [canceler EXCEPT ![o] = IdleCanceler]
  /\ UNCHANGED <<clock, providerVars, worker, handler>>

-----------------------------------------------------------------------------
Tick ==
  /\ clock < MaxTime
  /\ clock' = clock + 1
  /\ UNCHANGED <<repositoryVars, providerVars, processVars>>

DispatchNext(w) ==
  \/ Start(w) \/ ReuseAttempt(w) \/ Reserve(w) \/ ReserveRefused(w)
  \/ ContactUnavailable(w) \/ Claim(w) \/ ClaimRefused(w) \/ Expire(w)
  \/ PlaceAccepted(w) \/ PlaceUncertain(w) \/ PlaceRefused(w)
  \/ Bind(w) \/ MarkRetry(w) \/ MarkUncertain(w)
  \/ Return(w) \/ Crash(w)
Exhaust(w) == ExhaustRead(w) \/ ExhaustList(w) \/ ExhaustApply(w)
Webhook(h) ==
  \/ \E i \in Sequences3 : \E k \in 1..calls[i] : \E v \in Callbacks : Receive(h, i, k, v)
  \/ RecordCallback(h) \/ HandleCallback(h) \/ RefuseCallback(h)
Cancel(o) == CancelRead(o) \/ CancelList(o) \/ CancelApply(o)

CoordinatorNext ==
  \/ \E w \in Workers : DispatchNext(w) \/ Exhaust(w)
  \/ \E h \in Handlers : Webhook(h)
  \/ \E o \in Operators : Cancel(o)
  \/ Tick

Spec == CoordinatorInit /\ [][CoordinatorNext]_vars

-----------------------------------------------------------------------------
(* Properties                                                              *)

WorkerPcs == {"idle", "reserve", "claim", "expire", "place", "bind", "retry",
              "uncertain", "exhaust", "exhaust_list", "exhaust_apply", "done"}
WorkerRecords ==
  [pc: WorkerPcs, now: Nat, seq: Sequences3, case: CaseRecords,
   att: AttemptRecords, ref: Nat, retried: BOOLEAN,
   out: {"none", "ok", "not_due", "error", "exhausted"}]
HandlerRecords == [pc: {"idle", "apply"}, value: CallbackValues, now: Nat,
                   case: CaseRecords, att: AttemptRecords]
CancelerRecords == [pc: {"idle", "list", "apply"}, case: CaseRecords,
                    att: AttemptRecords]

(* The shape of the state.                                                 *)
TypeOK ==
  /\ RepositoryTypeOK
  /\ seen \in [Sequences3 -> SUBSET CallbackValues]
  /\ clock \in Nat
  /\ calls \in [Sequences3 -> Nat]
  /\ line \in [Sequences3 -> SUBSET CallbackValues]
  /\ worker \in [Workers -> WorkerRecords]
  /\ handler \in [Handlers -> HandlerRecords]
  /\ canceler \in [Operators -> CancelerRecords]

(* Nobody is dialled twice for one logical attempt: whatever crashes,      *)
(* claim expiries, retries and redeliveries happen, the provider accepts   *)
(* at most one call per reserved attempt (so at most three per case), and  *)
(* none for an attempt that was not reserved (claim_provider_submission,   *)
(* finish_provider_submission, worker.py's "cannot exceed three calls").   *)
CallOncePerAttempt ==
  \A i \in Sequences3 : calls[i] <= 1 /\ (calls[i] > 0 => i <= case.count)

(* At most one attempt is live, and it is the last reserved one: the       *)
(* active[-1] that every operation picks is never one of several           *)
(* (reserve_next_attempt, cancel, mark_delivery_exhausted).                *)
OneActiveAttempt == \A i \in Active : i = case.count

(* The case row and the rows of its attempts never disagree: they are      *)
(* written together, and a reader acting on one of them (the worker on     *)
(* next_attempt_at, the console on state) is not misled about the other.   *)
CaseMatchesAttempts ==
  LET last == attempts[case.count] IN
  /\ case.status = "queued" => case.count = 0
  /\ case.count = 0 => case.status \in {"queued", "canceled", "manual_follow_up"}
  /\ case.status = "retry_scheduled" => case.count = 1 /\ Active = {}
  /\ case.status = "supervisor_scheduled" => case.count = 2 /\ Active = {}
  /\ case.status = "unacknowledged" => case.count = 3 /\ Active = {}
  /\ case.status = "dialing" => last.status \in {"reserved", "initiated", "ringing"}
  /\ case.status = "provider_retry" => last.status = "provider_retry"
  /\ case.status = "awaiting_acknowledgement" => last.status = "answered"
  /\ case.status = "acknowledged"
       => \E i \in 1..case.count : attempts[i].status = "acknowledged"
  /\ ~ Closed(case) /\ case.count > 0 /\ submission[case.count].state = "claimed"
       => case.nextAt = submission[case.count].deadline

(* A closed case stays as it was closed, except that a press that arrives  *)
(* late still settles a case closed as unacknowledged: no callback, worker *)
(* or operator reopens it or rewrites its outcome (handle_status,          *)
(* handle_gather, cancel and mark_delivery_exhausted act on rows they read *)
(* before).                                                                *)
ClosedCaseIsFinal ==
  [][Closed(case) => \/ case'.status = case.status
                     \/ /\ case.status = "unacknowledged"
                        /\ case'.status \in {"acknowledged", "manual_follow_up"}]_vars

(* Late, duplicated and reordered callbacks never take an attempt back: a  *)
(* bound call reference is never replaced, a live attempt never returns to *)
(* an earlier stage, and an ended attempt ends otherwise only by a press.  *)
AttemptMovesForward ==
  [][\A i \in Sequences3 :
       LET old == attempts[i].status
           new == attempts'[i].status
       IN /\ attempts[i].ref # 0 => attempts'[i].ref = attempts[i].ref
          /\ old \in AttemptActive /\ new \in AttemptActive => Rank(old) <= Rank(new)
          /\ old \in AttemptTerminal
               => new \in {old, "acknowledged", "manual_follow_up"}]_vars

(* A claim that is handed back for another try never had a call accepted   *)
(* under it, and no claim is ever taken from its holder: what cannot be    *)
(* known to have failed goes to a human instead (_mark_provider_retry,     *)
(* _mark_submission_uncertain).                                            *)
RetryOnlyCertainFailure ==
  [][\A i \in Sequences3 : submission[i].state # "pending" =>
       /\ submission'[i].state = "pending" => calls[i] = 0 /\ ~ Bound(i)
       /\ submission'[i].state = "claimed" => submission'[i] = submission[i]]_vars

(* A press of 1 that reaches the service while the case is open is not     *)
(* dropped: the handler that took it leaves it recorded or the case closed.*)
(* What the plan promises: "Press 1: acknowledge and stop escalation".     *)
PressIsHonoured ==
  [][\A h \in Handlers :
       /\ handler[h].pc = "apply" /\ handler[h].value = "1"
       /\ handler'[h].pc = "idle"
       => Closed(case') \/ "1" \in seen'[handler[h].att.sequence]]_vars

(* No call is placed once somebody has acknowledged: what the deployment   *)
(* guide and the plan promise ("acknowledgement stops escalation",         *)
(* "Acknowledgement stops escalation immediately").                        *)
NoCallAfterAcknowledgement ==
  [][calls' # calls => case.status # "acknowledged"]_vars

-----------------------------------------------------------------------------
(* The abstract specification of a case (Escalation), seen in its rows and *)
(* in the calls the provider accepted.                                     *)
Ladder == INSTANCE Escalation WITH
  outcome    <- IF Closed(case) THEN case.status ELSE "open",
  rung       <- case.count,
  dialled    <- calls,
  unanswered <- {i \in Sequences3 : attempts[i].status = "unacknowledged"}

(* The service implements the ladder: whatever workers, webhooks and       *)
(* operators interleave, crash or act on old reads, what a case does is a  *)
(* climb, one call per rung, a missed call, an answer or the end.          *)
ClimbsTheLadder == Ladder!EscalationSpec

=============================================================================
