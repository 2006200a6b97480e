------------------------ MODULE DispatchRepository ------------------------
(***************************************************************************)
(* The dispatch repository (src/data/dispatch/repository.py, and its       *)
(* PostgreSQL twin postgres.py): one human-authorized case, its at most    *)
(* three logical call attempts, the provider-submission claim of each      *)
(* attempt, and the deduplicated callback events.  Cases share no state,   *)
(* so one case stands for all of them.                                     *)
(*                                                                         *)
(* Every operator below that primes a variable is one method of the        *)
(* repository: a critical section of the in-memory store, one transaction  *)
(* of the PostgreSQL store.  A caller that read the case and an attempt    *)
(* earlier passes what it read (c, a); the method is a compare-and-swap on *)
(* the versions of both.                                                   *)
(***************************************************************************)
EXTENDS Integers

CONSTANTS
  Workers,      \* queue workers, the possible owners of a submission claim
  NoOwner,      \* the owner of a claim nobody holds
  Durable       \* TRUE: postgres.py, which stores only a hash of the call
                \* reference; FALSE: the in-memory store, which keeps it

ASSUME RepositoryAssumption == /\ NoOwner \notin Workers
                               /\ Durable \in BOOLEAN

VARIABLES
  case,         \* the DispatchCase row
  attempts,     \* sequence number -> CallAttempt row
  submission,   \* sequence number -> provider-submission claim
  seen          \* sequence number -> callback values already recorded as events

repositoryVars == <<case, attempts, submission, seen>>

Sequences3 == 1..3
NoTime == -1                       \* next_attempt_at IS NULL

CaseTerminal == {"acknowledged", "manual_follow_up", "unacknowledged", "canceled"}
CaseStatuses == CaseTerminal \cup
  {"queued", "dialing", "awaiting_acknowledgement", "provider_retry",
   "retry_scheduled", "supervisor_scheduled"}

AttemptTerminal == {"acknowledged", "manual_follow_up", "unacknowledged", "canceled"}
AttemptActive == {"reserved", "provider_retry", "initiated", "ringing", "answered"}
AttemptStatuses == AttemptTerminal \cup AttemptActive \cup {"unreserved"}

SubmissionStates == {"pending", "claimed", "submitted", "uncertain"}

CaseRecords == [status: CaseStatuses, nextAt: Int, count: 0..3, version: Nat]
\* ref = 0: no provider call bound; ref = k: the k-th call the provider
\* accepted for this attempt.
AttemptRecords ==
  [sequence: Sequences3, status: AttemptStatuses, ref: Nat, version: Nat]
SubmissionRecords ==
  [state: SubmissionStates, owner: Workers \cup {NoOwner}, deadline: Int]

NoClaim == [state |-> "pending", owner |-> NoOwner, deadline |-> NoTime]

(* create_case: what authorize() stores.  The first attempt is due at once. *)
RepositoryInit ==
  /\ case = [status |-> "queued", nextAt |-> 0, count |-> 0, version |-> 1]
  /\ attempts = [i \in Sequences3 |->
       [sequence |-> i, status |-> "unreserved", ref |-> 0, version |-> 0]]
  /\ submission = [i \in Sequences3 |-> NoClaim]
  /\ seen = [i \in Sequences3 |-> {}]

Closed(c) == c.status \in CaseTerminal
Active == {i \in Sequences3 : attempts[i].status \in AttemptActive}
LastActive == CHOOSE i \in Active : \A j \in Active : j <= i

(* The compare of every compare-and-swap: nobody wrote the case or the     *)
(* attempt since the caller read c and a.                                  *)
Unchanged(c, a) == /\ case.version = c.version
                   /\ attempts[a.sequence].version = a.version

Store(c, a) == /\ case' = c
               /\ attempts' = [attempts EXCEPT ![a.sequence] = a]

Record(i, v) == seen' = [seen EXCEPT ![i] = @ \cup {v}]

(* Mutants of CanReserve: a live attempt, the end of the case, or the time *)
(* it is due is not looked at.                                             *)
CanReserveEarly(at) == Active = {} /\ ~ Closed(case) /\ case.count < 3
CanReserveBesideActive(at) == /\ ~ Closed(case)
                              /\ case.nextAt <= at
                              /\ case.count < 3
CanReserveInClosedCase(at) == /\ Active = {}
                              /\ case.nextAt <= at
                              /\ case.count < 3

(* A new attempt may be reserved at time at.  attempt_count is set from    *)
(* the number of attempts and only here, so it is that number.             *)
CanReserve(at) == /\ Active = {}
                  /\ ~ Closed(case)
                  /\ case.nextAt <= at
                  /\ case.count < 3

ReserveNextAttempt(at) ==
  /\ CanReserve(at)
  /\ LET i == case.count + 1 IN
       /\ case' = [case EXCEPT !.status = "dialing", !.nextAt = NoTime,
                               !.count = i, !.version = @ + 1]
       /\ attempts' = [attempts EXCEPT ![i] =
            [sequence |-> i, status |-> "reserved", ref |-> 0, version |-> 1]]
       /\ submission' = [submission EXCEPT ![i] = NoClaim]
  /\ UNCHANGED seen

(* Mutant of CanClaim: a claim past its deadline is taken over.            *)
CanClaimExpired(i, at) ==
  /\ ~ Closed(case)
  /\ \/ submission[i].state = "pending"
     \/ submission[i].state = "claimed" /\ submission[i].deadline <= at
  /\ case.nextAt <= at
  /\ attempts[i].status \in {"reserved", "provider_retry"}

CanClaim(i, at) == /\ ~ Closed(case)
                   /\ submission[i].state = "pending"
                   /\ case.nextAt <= at
                   /\ attempts[i].status \in {"reserved", "provider_retry"}

(* claim_provider_submission when it acquires the claim: until the deadline*)
(* the case is not due for anybody else.                                   *)
ClaimSubmission(i, w, at, deadline) ==
  /\ CanClaim(i, at)
  /\ case' = [case EXCEPT !.nextAt = deadline, !.version = @ + 1]
  /\ attempts' = [attempts EXCEPT ![i].version = @ + 1]
  /\ submission' = [submission EXCEPT ![i] =
       [state |-> "claimed", owner |-> w, deadline |-> deadline]]
  /\ UNCHANGED seen

(* finish_provider_submission: only the owner of a live claim, on the rows *)
(* it read.  next is what becomes of the claim.                            *)
CanFinish(w, c, a) == /\ submission[a.sequence].state = "claimed"
                      /\ submission[a.sequence].owner = w
                      /\ Unchanged(c, a)

FinishSubmission(w, c, a, newCase, newAttempt, next) ==
  /\ CanFinish(w, c, a)
  /\ Store(newCase, newAttempt)
  /\ submission' = [submission EXCEPT ![a.sequence] = next]
  /\ UNCHANGED seen

(* expire_provider_submission: anybody, once the deadline has passed.      *)
CanExpire(c, a, at) == /\ submission[a.sequence].state = "claimed"
                       /\ submission[a.sequence].deadline <= at
                       /\ Unchanged(c, a)

ExpireSubmission(c, a, at, newCase, newAttempt) ==
  /\ CanExpire(c, a, at)
  /\ Store(newCase, newAttempt)
  /\ submission' = [submission EXCEPT ![a.sequence].state = "uncertain"]
  /\ UNCHANGED seen

(* Mutant of BindCall: the claim deadline stays as next_attempt_at and the *)
(* case keeps its status.                                                  *)
BindCallKeepingCase(i, ref) ==
  /\ case' = [case EXCEPT !.version = @ + 1]
  /\ attempts' = [attempts EXCEPT ![i].ref = ref, ![i].status = "initiated",
                                  ![i].version = @ + 1]
  /\ submission' = [submission EXCEPT ![i].state = "submitted"]
  /\ UNCHANGED seen

(* bind_provider_callback: the first authentic reference completes the     *)
(* claim, whoever brings it; a stored reference is only compared.          *)
Bound(i) == attempts[i].ref # 0
CanBind(i) == /\ ~ Bound(i)
              /\ ~ Closed(case)
              /\ submission[i].state = "claimed"

BindCall(i, ref) ==
  /\ CanBind(i)
  /\ case' = [case EXCEPT !.status = "dialing", !.nextAt = NoTime,
                          !.version = @ + 1]
  /\ attempts' = [attempts EXCEPT ![i].ref = ref, ![i].status = "initiated",
                                  ![i].version = @ + 1]
  /\ submission' = [submission EXCEPT ![i].state = "submitted"]
  /\ UNCHANGED seen

(* What resolving a callback for call ref of attempt i comes to.           *)
Resolvable(i, ref) == IF Bound(i) THEN attempts[i].ref = ref ELSE CanBind(i)
Resolve(i, ref) == \/ attempts[i].ref = ref /\ UNCHANGED repositoryVars
                   \/ BindCall(i, ref)

(* apply_transition for a callback event (i, v): a repeated event changes  *)
(* nothing, a stale reader is refused.                                     *)
ApplyCallback(c, a, newCase, newAttempt, v) ==
  /\ v \notin seen[a.sequence]
  /\ Unchanged(c, a)
  /\ Store(newCase, newAttempt)
  /\ Record(a.sequence, v)
  /\ UNCHANGED submission

AppendEvent(i, v) == /\ Record(i, v)
                     /\ UNCHANGED <<case, attempts, submission>>

(* apply_transition for a cancellation: never while a submission is in     *)
(* flight; a durable store cannot address a bound call, so never then.  In *)
(* memory a submitted call must be the one the canceller read.             *)
CanCancel(c, a) ==
  /\ Unchanged(c, a)
  /\ submission[a.sequence].state # "claimed"
  /\ IF Durable
     THEN ~ Bound(a.sequence)
     ELSE submission[a.sequence].state = "submitted"
            => attempts[a.sequence].ref = a.ref

ApplyTransition(c, a, newCase, newAttempt) ==
  /\ Unchanged(c, a)
  /\ Store(newCase, newAttempt)
  /\ UNCHANGED <<submission, seen>>

(* apply_case_transition: the case's version alone is compared.            *)
ApplyCaseTransition(c, newCase) ==
  /\ case.version = c.version
  /\ case' = newCase
  /\ UNCHANGED <<attempts, submission, seen>>

RepositoryTypeOK ==
  /\ case \in CaseRecords
  /\ attempts \in [Sequences3 -> AttemptRecords]
  /\ submission \in [Sequences3 -> SubmissionRecords]

=============================================================================
