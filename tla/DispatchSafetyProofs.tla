----------------------- MODULE DispatchSafetyProofs -----------------------
(***************************************************************************)
(* The types and the safety of DispatchCoordinator, for any sets of        *)
(* workers, webhook requests and operators, any timings and any number of  *)
(* provider retries: one provider call per attempt, retries only of what   *)
(* certainly failed, and closed cases stay closed.                         *)
(*                                                                         *)
(* None of these is inductive by itself.  What carries them is that every  *)
(* process holds a snapshot that is either the current case or older than  *)
(* it, that a claim has one holder, and that the holder knows how many     *)
(* calls were placed under it.                                             *)
(***************************************************************************)
EXTENDS DispatchCoordinator, TLAPS

-----------------------------------------------------------------------------
(* Types.                                                                  *)

(* Every row a transition writes has the type of the row it replaces.      *)
LEMMA RowTypes ==
  ASSUME NEW c \in CaseRecords, NEW a \in AttemptRecords, NEW at \in Nat
  PROVE  /\ ManualCase(c) \in CaseRecords
         /\ ManualAttempt(a) \in AttemptRecords
         /\ RetryCase(c, at) \in CaseRecords
         /\ RetryAttempt(a) \in AttemptRecords
         /\ CanceledCase(c) \in CaseRecords
         /\ CanceledAttempt(a) \in AttemptRecords
<1>1. c.version + 1 \in Nat /\ a.version + 1 \in Nat
  BY DEF CaseRecords, AttemptRecords
<1>2. {"manual_follow_up", "provider_retry", "canceled"} \subseteq CaseStatuses
  BY DEF CaseStatuses, CaseTerminal
<1>3. {"manual_follow_up", "provider_retry", "canceled"} \subseteq AttemptStatuses
  BY DEF AttemptStatuses, AttemptTerminal, AttemptActive
<1>4. NoTime \in Int /\ at \in Int
  BY DEF NoTime
<1>5. ManualCase(c) \in CaseRecords /\ ManualAttempt(a) \in AttemptRecords
  BY <1>1, <1>2, <1>3, <1>4, Zenon
     DEF ManualCase, ManualAttempt, CaseRecords, AttemptRecords
<1>6. RetryCase(c, at) \in CaseRecords /\ RetryAttempt(a) \in AttemptRecords
  BY <1>1, <1>2, <1>3, <1>4, Zenon
     DEF RetryCase, RetryAttempt, CaseRecords, AttemptRecords
<1>7. CanceledCase(c) \in CaseRecords /\ CanceledAttempt(a) \in AttemptRecords
  BY <1>1, <1>2, <1>3, <1>4, Zenon
     DEF CanceledCase, CanceledAttempt, CaseRecords, AttemptRecords
<1> QED
  BY <1>5, <1>6, <1>7

(* The same of the rows a callback writes.                                 *)
LEMMA CallbackTypes ==
  ASSUME NEW c \in CaseRecords, NEW a \in AttemptRecords, NEW at \in Nat,
         NEW v \in CallbackValues
  PROVE  /\ CallbackCase(c, a, v, at) \in CaseRecords
         /\ CallbackAttempt(a, v) \in AttemptRecords
<1>1. c.version + 1 \in Nat /\ a.version + 1 \in Nat
  BY DEF CaseRecords, AttemptRecords
<1>2. {"manual_follow_up", "acknowledged", "dialing",
       "awaiting_acknowledgement"} \subseteq CaseStatuses
  BY DEF CaseStatuses, CaseTerminal
<1>3. {"manual_follow_up", "acknowledged", "unacknowledged"} \subseteq AttemptStatuses
  BY DEF AttemptStatuses, AttemptTerminal, AttemptActive
<1>4. NoTime \in Int /\ at \in Int /\ at + RetryDelay \in Int
  BY CoordinatorAssumption DEF NoTime
<1>5. UnacknowledgedCase(c, a, at) \in CaseRecords
  <2>1. NextRung[a.sequence] \in CaseStatuses
    BY DEF NextRung, AttemptRecords, Sequences3, CaseStatuses, CaseTerminal
  <2>2. (IF a.sequence < 3 THEN at + RetryDelay ELSE NoTime) \in Int
    BY <1>4
  <2> QED
    BY <1>1, <2>1, <2>2, Zenon DEF UnacknowledgedCase, CaseRecords
<1>6. UnacknowledgedAttempt(a) \in AttemptRecords
  BY <1>1, <1>3, Zenon DEF UnacknowledgedAttempt, AttemptRecords
<1>7. GatherCase(c, v) \in CaseRecords /\ GatherAttempt(a, v) \in AttemptRecords
  <2>1. GatherStatus(v) \in CaseStatuses /\ GatherStatus(v) \in AttemptStatuses
    BY <1>2, <1>3 DEF GatherStatus
  <2> QED
    BY <1>1, <1>4, <2>1, Zenon
       DEF GatherCase, GatherAttempt, CaseRecords, AttemptRecords
<1>8. ProgressCase(c, a, v) \in CaseRecords
  <2>1. (IF ProgressStatus(a.status, v) = "answered"
         THEN "awaiting_acknowledgement" ELSE "dialing") \in CaseStatuses
    BY <1>2
  <2> QED
    BY <1>1, <2>1, Zenon DEF ProgressCase, CaseRecords
<1>9. ASSUME v \in ProgressValues PROVE ProgressAttempt(a, v) \in AttemptRecords
  <2>1. Progressed(v) \in AttemptStatuses
    BY <1>9 DEF Progressed, ProgressValues, AttemptStatuses, AttemptActive
  <2>2. a.status \in AttemptStatuses
    BY DEF AttemptRecords
  <2>3. ProgressStatus(a.status, v) \in AttemptStatuses
    BY <2>1, <2>2 DEF ProgressStatus
  <2> QED
    BY <1>1, <2>3, Zenon DEF ProgressAttempt, AttemptRecords
<1>10. CallbackCase(c, a, v, at) \in CaseRecords
  BY <1>5, <1>7, <1>8 DEF CallbackCase
<1>11. CallbackAttempt(a, v) \in AttemptRecords
  BY <1>6, <1>7, <1>9 DEF CallbackAttempt
<1> QED
  BY <1>10, <1>11

LEMMA IdleTypes == /\ IdleWorker \in WorkerRecords
                   /\ IdleHandler \in HandlerRecords
                   /\ IdleCanceler \in CancelerRecords
                   /\ NoCase \in CaseRecords
                   /\ NoAttempt \in AttemptRecords
<1>1. NoCase \in CaseRecords
  BY DEF NoCase, CaseRecords, CaseStatuses, NoTime
<1>2. NoAttempt \in AttemptRecords
  BY DEF NoAttempt, AttemptRecords, AttemptStatuses, Sequences3
<1>3. IdleWorker \in WorkerRecords
  BY <1>1, <1>2 DEF IdleWorker, WorkerRecords, WorkerPcs, Sequences3
<1>4. IdleHandler \in HandlerRecords
  BY <1>1, <1>2 DEF IdleHandler, HandlerRecords, CallbackValues, OtherValues
<1>5. IdleCanceler \in CancelerRecords
  BY <1>1, <1>2 DEF IdleCanceler, CancelerRecords
<1> QED
  BY <1>1, <1>2, <1>3, <1>4, <1>5

LEMMA TypeInit == CoordinatorInit => TypeOK
<1> SUFFICES ASSUME CoordinatorInit PROVE TypeOK
  OBVIOUS
<1>1. RepositoryTypeOK
  BY DEF CoordinatorInit, RepositoryInit, RepositoryTypeOK, CaseRecords, CaseStatuses,
         AttemptRecords, AttemptStatuses, SubmissionRecords, SubmissionStates, NoClaim,
         NoTime, Sequences3
<1> QED
  BY <1>1, IdleTypes DEF CoordinatorInit, RepositoryInit, TypeOK

(* Storing well-typed rows keeps the tables well-typed.                    *)
LEMMA StoreTypes ==
  ASSUME RepositoryTypeOK, NEW c \in CaseRecords, NEW a \in AttemptRecords, Store(c, a)
  PROVE  case' \in CaseRecords /\ attempts' \in [Sequences3 -> AttemptRecords]
<1>1. a.sequence \in Sequences3
  BY DEF AttemptRecords
<1> QED
  BY <1>1, Zenon DEF Store, RepositoryTypeOK

LEMMA WorkerTypes ==
  ASSUME worker \in [Workers -> WorkerRecords], NEW w \in Workers
  PROVE  /\ \A r \in WorkerRecords : Become(w, r) => worker' \in [Workers -> WorkerRecords]
         /\ \A out \in {"ok", "not_due", "error", "exhausted"} :
              Done(w, out) => worker' \in [Workers -> WorkerRecords]
         /\ \A pc \in WorkerPcs : Goto(w, pc) => worker' \in [Workers -> WorkerRecords]
<1>1. \A r \in WorkerRecords : Become(w, r) => worker' \in [Workers -> WorkerRecords]
  BY Zenon DEF Become
<1>2. \A out \in {"ok", "not_due", "error", "exhausted"} :
        [IdleWorker EXCEPT !.pc = "done", !.out = out] \in WorkerRecords
  <2>1. "done" \in WorkerPcs
    BY DEF WorkerPcs
  <2> QED
    BY <2>1, IdleTypes, Zenon DEF WorkerRecords
<1>3. \A pc \in WorkerPcs : [worker[w] EXCEPT !.pc = pc] \in WorkerRecords
  BY Zenon DEF WorkerRecords
<1> QED
  BY <1>1, <1>2, <1>3 DEF Done, Goto

(* A worker that moves on keeps a well-typed place.                        *)
LEMMA MoveTypes ==
  ASSUME NEW r \in WorkerRecords, NEW pc \in WorkerPcs, NEW now \in Nat,
         NEW i \in Sequences3, NEW c \in CaseRecords, NEW a \in AttemptRecords,
         NEW k \in Nat
  PROVE  /\ [r EXCEPT !.pc = pc, !.now = now] \in WorkerRecords
         /\ [r EXCEPT !.pc = pc, !.seq = i] \in WorkerRecords
         /\ [r EXCEPT !.pc = pc, !.ref = k] \in WorkerRecords
         /\ [r EXCEPT !.pc = pc, !.case = c] \in WorkerRecords
         /\ [r EXCEPT !.pc = pc, !.att = a] \in WorkerRecords
         /\ [r EXCEPT !.pc = pc, !.retried = TRUE] \in WorkerRecords
         /\ [r EXCEPT !.pc = pc, !.case = c, !.att = a] \in WorkerRecords
  BY Zenon DEF WorkerRecords

-----------------------------------------------------------------------------
(* The repository operations keep the tables well-typed.                   *)

LEMMA ActiveTypes ==
  ASSUME RepositoryTypeOK
  PROVE  /\ Active # {} => LastActive \in Active
         /\ Active \subseteq Sequences3
         /\ ReadActive \in AttemptRecords
<1>1. Active \subseteq Sequences3
  BY DEF Active
<1>2. ASSUME Active # {} PROVE LastActive \in Active
  <2>1. \E i \in Active : \A j \in Active : j <= i
    <3>1. CASE 3 \in Active
      <4>1. \A j \in Active : j <= 3
        BY <1>1 DEF Sequences3
      <4> QED
        BY <3>1, <4>1
    <3>2. CASE 3 \notin Active /\ 2 \in Active
      <4>1. \A j \in Active : j <= 2
        BY <1>1, <3>2 DEF Sequences3
      <4> QED
        BY <3>2, <4>1
    <3>3. CASE 3 \notin Active /\ 2 \notin Active
      <4>1. \A j \in Active : j = 1
        BY <1>1, <3>3 DEF Sequences3
      <4>2. \A j \in Active : j <= 1
        BY <4>1
      <4> QED
        BY <1>2, <4>1, <4>2
    <3> QED
      BY <3>1, <3>2, <3>3
  <2> QED
    BY <2>1 DEF LastActive
<1>3. ReadActive \in AttemptRecords
  BY <1>1, <1>2, IdleTypes DEF ReadActive, RepositoryTypeOK
<1> QED
  BY <1>1, <1>2, <1>3

LEMMA ReserveTypes ==
  ASSUME RepositoryTypeOK, NEW at \in Nat, ReserveNextAttempt(at)
  PROVE  /\ RepositoryTypeOK'
         /\ case.count + 1 \in Sequences3
<1> DEFINE i == case.count + 1
<1>1. i \in Sequences3 /\ i \in 0..3 /\ case.version + 1 \in Nat /\ NoTime \in Int
  BY DEF RepositoryTypeOK, CaseRecords, ReserveNextAttempt, CanReserve, Sequences3, NoTime
<1>2. "dialing" \in CaseStatuses /\ "reserved" \in AttemptStatuses
  BY DEF CaseStatuses, AttemptStatuses, AttemptActive
<1>3. case' \in CaseRecords
  <2>1. case' = [case EXCEPT !.status = "dialing", !.nextAt = NoTime, !.count = i,
                             !.version = case.version + 1]
    BY DEF ReserveNextAttempt
  <2> HIDE DEF i
  <2> QED
    BY <1>1, <1>2, <2>1, Zenon DEF RepositoryTypeOK, CaseRecords
<1>4. [sequence |-> i, status |-> "reserved", ref |-> 0, version |-> 1] \in AttemptRecords
  BY <1>1, <1>2 DEF AttemptRecords
<1>5. NoClaim \in SubmissionRecords
  BY DEF NoClaim, SubmissionRecords, SubmissionStates, NoTime
<1>6. attempts' \in [Sequences3 -> AttemptRecords]
  BY <1>1, <1>4 DEF ReserveNextAttempt, RepositoryTypeOK
<1>7. submission' \in [Sequences3 -> SubmissionRecords]
  BY <1>1, <1>5 DEF ReserveNextAttempt, RepositoryTypeOK
<1> QED
  BY <1>1, <1>3, <1>6, <1>7 DEF RepositoryTypeOK

LEMMA ClaimTypes ==
  ASSUME RepositoryTypeOK, NEW i \in Sequences3, NEW w \in Workers, NEW at \in Nat,
         NEW d \in Nat, ClaimSubmission(i, w, at, d)
  PROVE  RepositoryTypeOK'
<1>1. case.version + 1 \in Nat /\ d \in Int /\ attempts[i].version + 1 \in Nat
  BY DEF RepositoryTypeOK, CaseRecords, AttemptRecords
<1>2. case' \in CaseRecords
  BY <1>1, Zenon DEF ClaimSubmission, RepositoryTypeOK, CaseRecords
<1>3. [attempts[i] EXCEPT !.version = attempts[i].version + 1] \in AttemptRecords
  <2>1. attempts[i] \in AttemptRecords
    BY DEF RepositoryTypeOK
  <2> QED
    BY <1>1, <2>1, Zenon DEF AttemptRecords
<1>4. attempts' \in [Sequences3 -> AttemptRecords]
  BY <1>3 DEF ClaimSubmission, RepositoryTypeOK
<1>5. [state |-> "claimed", owner |-> w, deadline |-> d] \in SubmissionRecords
  BY DEF SubmissionRecords, SubmissionStates
<1>6. submission' \in [Sequences3 -> SubmissionRecords]
  BY <1>5 DEF ClaimSubmission, RepositoryTypeOK
<1> QED
  BY <1>2, <1>4, <1>6 DEF RepositoryTypeOK

LEMMA BindTypes ==
  ASSUME RepositoryTypeOK, NEW i \in Sequences3, NEW ref \in Nat, Resolve(i, ref)
  PROVE  RepositoryTypeOK'
<1>1. CASE UNCHANGED repositoryVars
  BY <1>1 DEF RepositoryTypeOK, repositoryVars
<1>2. CASE BindCall(i, ref)
  <2>1. case.version + 1 \in Nat /\ NoTime \in Int /\ attempts[i].version + 1 \in Nat
    BY DEF RepositoryTypeOK, CaseRecords, AttemptRecords, NoTime
  <2>2. "dialing" \in CaseStatuses /\ "initiated" \in AttemptStatuses
        /\ "submitted" \in SubmissionStates
    BY DEF CaseStatuses, AttemptStatuses, AttemptActive, SubmissionStates
  <2>3. case' \in CaseRecords
    BY <1>2, <2>1, <2>2, Zenon DEF BindCall, RepositoryTypeOK, CaseRecords
  <2>4. [attempts[i] EXCEPT !.ref = ref, !.status = "initiated",
                            !.version = attempts[i].version + 1] \in AttemptRecords
    <3>1. attempts[i] \in AttemptRecords
      BY DEF RepositoryTypeOK
    <3> QED
      BY <2>1, <2>2, <3>1, Zenon DEF AttemptRecords
  <2>5. attempts' \in [Sequences3 -> AttemptRecords]
    BY <1>2, <2>4 DEF BindCall, RepositoryTypeOK
  <2>6. [submission[i] EXCEPT !.state = "submitted"] \in SubmissionRecords
    BY <2>2, Zenon DEF RepositoryTypeOK, SubmissionRecords
  <2>7. submission' \in [Sequences3 -> SubmissionRecords]
    BY <1>2, <2>6 DEF BindCall, RepositoryTypeOK
  <2> QED
    BY <2>3, <2>5, <2>7 DEF RepositoryTypeOK
<1> QED
  BY <1>1, <1>2 DEF Resolve

LEMMA FinishTypes ==
  ASSUME RepositoryTypeOK, NEW w \in Workers, NEW c, NEW a \in AttemptRecords,
         NEW newCase \in CaseRecords, NEW newAttempt \in AttemptRecords,
         NEW next \in SubmissionRecords,
         FinishSubmission(w, c, a, newCase, newAttempt, next)
  PROVE  RepositoryTypeOK'
<1>1. Store(newCase, newAttempt)
  BY DEF FinishSubmission
<1>2. submission' \in [Sequences3 -> SubmissionRecords]
  BY DEF FinishSubmission, AttemptRecords, RepositoryTypeOK
<1> QED
  BY <1>1, <1>2, StoreTypes DEF RepositoryTypeOK

LEMMA UncertainType ==
  ASSUME RepositoryTypeOK, NEW i \in Sequences3
  PROVE  [submission[i] EXCEPT !.state = "uncertain"] \in SubmissionRecords
<1>1. "uncertain" \in SubmissionStates
  BY DEF SubmissionStates
<1> QED
  BY <1>1, Zenon DEF RepositoryTypeOK, SubmissionRecords

LEMMA ExpireTypes ==
  ASSUME RepositoryTypeOK, NEW c, NEW a \in AttemptRecords, NEW at,
         NEW newCase \in CaseRecords, NEW newAttempt \in AttemptRecords,
         ExpireSubmission(c, a, at, newCase, newAttempt)
  PROVE  RepositoryTypeOK'
<1>1. Store(newCase, newAttempt)
  BY DEF ExpireSubmission
<1>2. a.sequence \in Sequences3
  BY DEF AttemptRecords
<1>3. submission' \in [Sequences3 -> SubmissionRecords]
  BY <1>2, UncertainType DEF ExpireSubmission, RepositoryTypeOK
<1> QED
  BY <1>1, <1>3, StoreTypes DEF RepositoryTypeOK

-----------------------------------------------------------------------------
(* Every step keeps the state well-typed.                                  *)

LEMMA DispatchNextTypes ==
  ASSUME TypeOK, NEW w \in Workers, DispatchNext(w)
  PROVE  TypeOK'
<1> USE DEF TypeOK
<1> DEFINE W == worker' \in [Workers -> WorkerRecords]
<1>0. /\ worker[w] \in WorkerRecords
      /\ worker[w].now \in Nat
      /\ worker[w].seq \in Sequences3
      /\ worker[w].ref \in Nat
      /\ worker[w].case \in CaseRecords
      /\ worker[w].att \in AttemptRecords
      /\ worker[w].att.sequence \in Sequences3
  BY DEF WorkerRecords, AttemptRecords
<1>r. UNCHANGED repositoryVars
        => RepositoryTypeOK' /\ seen' \in [Sequences3 -> SUBSET CallbackValues]
  BY DEF repositoryVars, RepositoryTypeOK
<1>p. {"idle", "reserve", "claim", "expire", "place", "bind", "retry",
       "uncertain", "done"} \subseteq WorkerPcs
  BY DEF WorkerPcs
<1>1. CASE Start(w)
  <2>1. [worker[w] EXCEPT !.pc = "reserve", !.now = clock] \in WorkerRecords
    BY <1>0, <1>p, MoveTypes, IdleTypes, Zenon
  <2> QED
    BY <1>1, <1>r, <2>1, WorkerTypes DEF Start, providerVars
<1>2. CASE ReuseAttempt(w)
  <2>1. LastActive \in Sequences3
    BY <1>2, ActiveTypes DEF ReuseAttempt
  <2>2. [worker[w] EXCEPT !.pc = "claim", !.seq = LastActive] \in WorkerRecords
    BY <1>0, <1>p, <2>1, MoveTypes, IdleTypes, Zenon
  <2> QED
    BY <1>2, <1>r, <2>2, WorkerTypes DEF ReuseAttempt, providerVars
<1>3. CASE Reserve(w)
  <2>1. RepositoryTypeOK' /\ case.count + 1 \in Sequences3
    BY <1>0, <1>3, ReserveTypes DEF Reserve
  <2> DEFINE i == case.count + 1
  <2> HIDE DEF i
  <2>2. [worker[w] EXCEPT !.pc = "claim", !.seq = i] \in WorkerRecords
    BY <1>0, <1>p, <2>1, MoveTypes, IdleTypes, Zenon DEF i
  <2>3. W
    BY <1>3, <2>2, WorkerTypes DEF Reserve, i
  <2> QED
    BY <1>3, <2>1, <2>3 DEF Reserve, ReserveNextAttempt, providerVars
<1>4. CASE ReserveRefused(w)
  BY <1>4, <1>r, WorkerTypes DEF ReserveRefused, providerVars
<1>5. CASE ContactUnavailable(w)
  BY <1>5, <1>r, WorkerTypes DEF ContactUnavailable, providerVars
<1>6. CASE Claim(w)
  <2> DEFINE i == worker[w].seq
  <2>1. worker[w].now + ClaimTimeout \in Nat
    BY <1>0, CoordinatorAssumption
  <2>2. ClaimSubmission(i, w, worker[w].now, worker[w].now + ClaimTimeout)
    BY <1>6 DEF Claim
  <2>3. RepositoryTypeOK'
    BY <1>0, <2>1, <2>2, ClaimTypes
  <2>4. case' \in CaseRecords /\ attempts'[i] \in AttemptRecords
    BY <1>0, <2>3 DEF RepositoryTypeOK
  <2>5. [worker[w] EXCEPT !.pc = "place", !.case = case', !.att = attempts'[i]]
          \in WorkerRecords
    BY <1>0, <1>p, <2>4, Zenon DEF WorkerRecords
  <2>6. W
    BY <1>6, <2>5, WorkerTypes DEF Claim
  <2> QED
    BY <1>6, <2>2, <2>3, <2>6 DEF Claim, ClaimSubmission, providerVars
<1>7. CASE ClaimRefused(w)
  <2>1. case \in CaseRecords /\ attempts[worker[w].seq] \in AttemptRecords
    BY <1>0 DEF RepositoryTypeOK
  <2>2. [worker[w] EXCEPT !.pc = "expire", !.case = case,
                          !.att = attempts[worker[w].seq]] \in WorkerRecords
    BY <1>0, <1>p, <2>1, MoveTypes, IdleTypes, Zenon
  <2>3. W
    BY <1>7, <2>2, WorkerTypes DEF ClaimRefused
  <2> QED
    BY <1>7, <1>r, <2>3 DEF ClaimRefused, providerVars
<1>8. CASE Expire(w)
  <2>1. W
    BY <1>8, WorkerTypes DEF Expire
  <2>2. RepositoryTypeOK' /\ seen' \in [Sequences3 -> SUBSET CallbackValues]
    <3>1. CASE ExpireSubmission(worker[w].case, worker[w].att, worker[w].now,
                 ManualCase(worker[w].case), ManualAttempt(worker[w].att))
      <4>1. /\ ManualCase(worker[w].case) \in CaseRecords
            /\ ManualAttempt(worker[w].att) \in AttemptRecords
        BY <1>0, RowTypes, IdleTypes
      <4> QED
        BY <1>0, <3>1, <4>1, ExpireTypes DEF ExpireSubmission
    <3> QED
      BY <1>8, <1>r, <3>1 DEF Expire
  <2> QED
    BY <1>8, <2>1, <2>2 DEF Expire, providerVars
<1>9. CASE PlaceAccepted(w)
  <2>1. calls[worker[w].seq] + 1 \in Nat
    BY <1>0
  <2>2. [worker[w] EXCEPT !.pc = "bind", !.ref = calls[worker[w].seq] + 1]
          \in WorkerRecords
    BY <1>0, <1>p, <2>1, MoveTypes, IdleTypes, Zenon
  <2>3. W
    BY <1>9, <2>2, WorkerTypes DEF PlaceAccepted
  <2>4. calls' \in [Sequences3 -> Nat]
    BY <1>9, <2>1 DEF PlaceAccepted
  <2> QED
    BY <1>9, <1>r, <2>3, <2>4 DEF PlaceAccepted
<1>10. CASE PlaceUncertain(w)
  <2>1. \A n \in {0, 1} : calls[worker[w].seq] + n \in Nat
    BY <1>0
  <2>2. calls' \in [Sequences3 -> Nat]
    BY <1>10, <2>1 DEF PlaceUncertain
  <2>3. W
    BY <1>10, <1>p, WorkerTypes DEF PlaceUncertain
  <2> QED
    BY <1>10, <1>r, <2>2, <2>3 DEF PlaceUncertain
<1>11. CASE PlaceRefused(w)
  BY <1>11, <1>r, <1>p, WorkerTypes DEF PlaceRefused, providerVars
<1>12. CASE Bind(w)
  <2>1. W
    BY <1>12, WorkerTypes DEF Bind
  <2>2. RepositoryTypeOK'
    BY <1>0, <1>12, <1>r, BindTypes DEF Bind
  <2>3. seen' = seen
    BY <1>12 DEF Bind, Resolve, BindCall, repositoryVars
  <2> QED
    BY <1>12, <2>1, <2>2, <2>3 DEF Bind, providerVars
<1>13. CASE MarkRetry(w)
  <2>1. W
    BY <1>13, WorkerTypes DEF MarkRetry
  <2>2. RepositoryTypeOK' /\ seen' \in [Sequences3 -> SUBSET CallbackValues]
    <3>1. CASE FinishSubmission(w, worker[w].case, worker[w].att,
                 RetryCase(worker[w].case, worker[w].now), RetryAttempt(worker[w].att),
                 NoClaim)
      <4>1. /\ RetryCase(worker[w].case, worker[w].now) \in CaseRecords
            /\ RetryAttempt(worker[w].att) \in AttemptRecords
        BY <1>0, RowTypes, IdleTypes
      <4>2. NoClaim \in SubmissionRecords
        BY DEF NoClaim, SubmissionRecords, SubmissionStates, NoTime
      <4> QED
        BY <1>0, <3>1, <4>1, <4>2, FinishTypes DEF FinishSubmission
    <3> QED
      BY <1>13, <1>r, <3>1 DEF MarkRetry
  <2> QED
    BY <1>13, <2>1, <2>2 DEF MarkRetry, providerVars
<1>14. CASE MarkUncertain(w)
  <2>1. W
    BY <1>14, WorkerTypes DEF MarkUncertain
  <2>2. RepositoryTypeOK' /\ seen' \in [Sequences3 -> SUBSET CallbackValues]
    <3> DEFINE next == [submission[worker[w].att.sequence] EXCEPT !.state = "uncertain"]
    <3>1. CASE FinishSubmission(w, worker[w].case, worker[w].att,
                 ManualCase(worker[w].case), ManualAttempt(worker[w].att), next)
      <4>1. /\ ManualCase(worker[w].case) \in CaseRecords
            /\ ManualAttempt(worker[w].att) \in AttemptRecords
        BY <1>0, RowTypes, IdleTypes
      <4>2. next \in SubmissionRecords
        BY <1>0, UncertainType
      <4> QED
        BY <1>0, <3>1, <4>1, <4>2, FinishTypes DEF FinishSubmission
    <3> QED
      BY <1>14, <1>r, <3>1 DEF MarkUncertain
  <2> QED
    BY <1>14, <2>1, <2>2 DEF MarkUncertain, providerVars
<1>15. CASE Return(w)
  BY <1>15, <1>r, IdleTypes, WorkerTypes DEF Return, providerVars
<1>16. CASE Crash(w)
  BY <1>16, <1>r, IdleTypes, WorkerTypes DEF Crash, providerVars
<1> QED
  BY <1>1, <1>2, <1>3, <1>4, <1>5, <1>6, <1>7, <1>8, <1>9, <1>10, <1>11, <1>12,
     <1>13, <1>14, <1>15, <1>16 DEF DispatchNext

LEMMA ExhaustTypes ==
  ASSUME TypeOK, NEW w \in Workers, Exhaust(w)
  PROVE  TypeOK'
<1> USE DEF TypeOK
<1>0. /\ worker[w] \in WorkerRecords
      /\ worker[w].now \in Nat
      /\ worker[w].seq \in Sequences3
      /\ worker[w].ref \in Nat
      /\ worker[w].case \in CaseRecords
      /\ worker[w].att \in AttemptRecords
  BY DEF WorkerRecords
<1>r. UNCHANGED repositoryVars
        => RepositoryTypeOK' /\ seen' \in [Sequences3 -> SUBSET CallbackValues]
  BY DEF repositoryVars, RepositoryTypeOK
<1>p. {"exhaust", "exhaust_list", "exhaust_apply"} \subseteq WorkerPcs
  BY DEF WorkerPcs
<1>1. CASE ExhaustRead(w)
  <2>1. [worker[w] EXCEPT !.pc = "exhaust_list", !.case = case] \in WorkerRecords
    BY <1>0, <1>p, MoveTypes, IdleTypes, Zenon DEF RepositoryTypeOK
  <2> QED
    BY <1>1, <1>r, <2>1, WorkerTypes DEF ExhaustRead, providerVars
<1>2. CASE ExhaustList(w)
  <2>1. [worker[w] EXCEPT !.pc = "exhaust_apply", !.att = ReadActive] \in WorkerRecords
    BY <1>0, <1>p, ActiveTypes, MoveTypes, IdleTypes, Zenon
  <2> QED
    BY <1>2, <1>r, <2>1, WorkerTypes DEF ExhaustList, providerVars
<1>3. CASE ExhaustApply(w)
  <2>1. [IdleWorker EXCEPT !.pc = "exhaust", !.retried = TRUE] \in WorkerRecords
    BY <1>0, <1>p, MoveTypes, IdleTypes, Zenon
  <2>2. worker' \in [Workers -> WorkerRecords]
    BY <1>3, <2>1, WorkerTypes DEF ExhaustApply
  <2>3. /\ ManualCase(worker[w].case) \in CaseRecords
        /\ ManualAttempt(worker[w].att) \in AttemptRecords
    BY <1>0, RowTypes
  <2>4. RepositoryTypeOK' /\ seen' \in [Sequences3 -> SUBSET CallbackValues]
    BY <1>3, <1>r, <2>3, StoreTypes
       DEF ExhaustApply, ApplyCaseTransition, ApplyTransition, RepositoryTypeOK
  <2> QED
    BY <1>3, <2>2, <2>4 DEF ExhaustApply, providerVars
<1> QED
  BY <1>1, <1>2, <1>3 DEF Exhaust

LEMMA WebhookTypes ==
  ASSUME TypeOK, NEW h \in Handlers, Webhook(h)
  PROVE  TypeOK'
<1> USE DEF TypeOK
<1> DEFINE r == handler[h]
<1>0. /\ r \in HandlerRecords
      /\ r.case \in CaseRecords
      /\ r.att \in AttemptRecords
      /\ r.att.sequence \in Sequences3
      /\ r.value \in CallbackValues
      /\ r.now \in Nat
  BY DEF HandlerRecords, AttemptRecords
<1>r. UNCHANGED repositoryVars
        => RepositoryTypeOK' /\ seen' \in [Sequences3 -> SUBSET CallbackValues]
  BY DEF repositoryVars, RepositoryTypeOK
<1>h. Respond(h) => handler' \in [Handlers -> HandlerRecords]
  BY IdleTypes DEF Respond
<1>s. \A i \in Sequences3, v \in CallbackValues :
        Record(i, v) => seen' \in [Sequences3 -> SUBSET CallbackValues]
  BY DEF Record
<1>1. ASSUME NEW i \in Sequences3, NEW k \in 1..calls[i], NEW v \in Callbacks,
             Receive(h, i, k, v)
      PROVE  TypeOK'
  <2>1. k \in Nat /\ v \in CallbackValues /\ "apply" \in {"idle", "apply"}
    BY CoordinatorAssumption
  <2>2. line' \in [Sequences3 -> SUBSET CallbackValues]
    BY <1>1, <2>1 DEF Receive
  <2>3. RepositoryTypeOK' /\ seen' \in [Sequences3 -> SUBSET CallbackValues]
    <3>1. CASE Resolve(i, k)
      <4>1. seen' = seen
        BY <3>1 DEF Resolve, BindCall, repositoryVars
      <4> QED
        BY <2>1, <3>1, <4>1, BindTypes
    <3> QED
      BY <1>1, <1>r, <3>1 DEF Receive
  <2>4. handler' \in [Handlers -> HandlerRecords]
    <3>1. case' \in CaseRecords /\ attempts'[i] \in AttemptRecords
      BY <2>3 DEF RepositoryTypeOK
    <3>2. [pc |-> "apply", value |-> v, now |-> clock, case |-> case',
           att |-> attempts'[i]] \in HandlerRecords
      BY <2>1, <3>1 DEF HandlerRecords
    <3> QED
      BY <1>1, <3>2 DEF Receive
  <2> QED
    BY <1>1, <2>2, <2>3, <2>4 DEF Receive
<1>2. CASE RecordCallback(h)
  BY <1>0, <1>2, <1>h, <1>s
     DEF RecordCallback, AppendEvent, providerVars, RepositoryTypeOK
<1>3. CASE HandleCallback(h)
  <2>1. /\ CallbackCase(r.case, r.att, r.value, r.now) \in CaseRecords
        /\ CallbackAttempt(r.att, r.value) \in AttemptRecords
    BY <1>0, CallbackTypes
  <2>2. RepositoryTypeOK' /\ seen' \in [Sequences3 -> SUBSET CallbackValues]
    <3> HIDE DEF r
    <3>1. /\ Store(CallbackCase(r.case, r.att, r.value, r.now),
                   CallbackAttempt(r.att, r.value))
          /\ Record(r.att.sequence, r.value)
          /\ submission' = submission
      BY <1>3 DEF HandleCallback, ApplyCallback, r
    <3> QED
      BY <1>0, <1>s, <2>1, <3>1, StoreTypes DEF RepositoryTypeOK
  <2> QED
    BY <1>3, <1>h, <2>2 DEF HandleCallback, providerVars
<1>4. CASE RefuseCallback(h)
  BY <1>4, <1>r, <1>h DEF RefuseCallback, providerVars
<1> QED
  BY <1>1, <1>2, <1>3, <1>4 DEF Webhook

LEMMA CancelTypes ==
  ASSUME TypeOK, NEW o \in Operators, Cancel(o)
  PROVE  TypeOK'
<1> USE DEF TypeOK
<1>0. /\ canceler[o] \in CancelerRecords
      /\ canceler[o].case \in CaseRecords
      /\ canceler[o].att \in AttemptRecords
  BY DEF CancelerRecords
<1>r. UNCHANGED repositoryVars
        => RepositoryTypeOK' /\ seen' \in [Sequences3 -> SUBSET CallbackValues]
  BY DEF repositoryVars, RepositoryTypeOK
<1>1. CASE CancelRead(o)
  <2>1. [canceler[o] EXCEPT !.pc = "list", !.case = case] \in CancelerRecords
    BY <1>0, Zenon DEF CancelerRecords, RepositoryTypeOK
  <2> QED
    BY <1>1, <1>r, <2>1 DEF CancelRead, providerVars
<1>2. CASE CancelList(o)
  <2>1. [canceler[o] EXCEPT !.pc = "apply", !.att = ReadActive] \in CancelerRecords
    BY <1>0, ActiveTypes, Zenon DEF CancelerRecords
  <2> QED
    BY <1>2, <1>r, <2>1, IdleTypes DEF CancelList, providerVars
<1>3. CASE CancelApply(o)
  <2>1. /\ CanceledCase(canceler[o].case) \in CaseRecords
        /\ CanceledAttempt(canceler[o].att) \in AttemptRecords
    BY <1>0, RowTypes
  <2>2. RepositoryTypeOK' /\ seen' \in [Sequences3 -> SUBSET CallbackValues]
    BY <1>3, <1>r, <2>1, StoreTypes
       DEF CancelApply, ApplyCaseTransition, ApplyTransition, RepositoryTypeOK
  <2> QED
    BY <1>3, <2>2, IdleTypes DEF CancelApply, providerVars
<1> QED
  BY <1>1, <1>2, <1>3 DEF Cancel

LEMMA TypeStep == TypeOK /\ [CoordinatorNext]_vars => TypeOK'
<1> SUFFICES ASSUME TypeOK, [CoordinatorNext]_vars PROVE TypeOK'
  OBVIOUS
<1>1. CASE Tick
  BY <1>1 DEF Tick, TypeOK, RepositoryTypeOK, repositoryVars, providerVars, processVars
<1>2. CASE UNCHANGED vars
  BY <1>2 DEF vars, TypeOK, RepositoryTypeOK
<1> QED
  BY <1>1, <1>2, DispatchNextTypes, ExhaustTypes, WebhookTypes, CancelTypes
     DEF CoordinatorNext

(* Every reachable state has the declared shape: the versions, the ladder  *)
(* position and the statuses a step writes never leave their ranges.       *)
THEOREM TypeCorrect == Spec => []TypeOK
  BY TypeInit, TypeStep, PTL DEF Spec

-----------------------------------------------------------------------------
(* Rows, snapshots and claims.                                             *)

(* A row read earlier: it is still the row, or the row has moved on.       *)
Fresh(c) == c.version < case.version \/ c = case
Live(c) == Fresh(c) /\ ~ Closed(c)
Known(a) == a # NoAttempt => a.sequence <= case.count
Placed(a) == a.ref <= calls[a.sequence]

(* The worker between its claim and the write that ends it.                *)
HoldsClaim(w) == worker[w].pc \in {"place", "bind", "retry", "uncertain"}

RowInv(i) == /\ attempts[i].sequence = i
             /\ i > case.count => /\ attempts[i].status = "unreserved"
                                  /\ submission[i].state = "pending"
             /\ submission[i].state = "pending" => calls[i] = 0
             /\ calls[i] <= 1
             /\ attempts[i].ref <= calls[i]

(* What a worker or an operator, and a webhook request, have read.         *)
Backed(r) == Live(r.case) /\ Known(r.att) /\ Placed(r.att)
BackedCallback(r) == /\ Fresh(r.case) /\ Placed(r.att)
                     /\ r.pc = "apply" => r.att.sequence <= case.count

SnapshotInv == /\ case.version >= 1
               /\ \A w \in Workers : Backed(worker[w])
               /\ \A h \in Handlers : BackedCallback(handler[h])
               /\ \A o \in Operators : Backed(canceler[o])

HolderInv(w) == LET i == worker[w].seq IN
  /\ HoldsClaim(w) => submission[i].state # "pending" /\ worker[w].att.sequence = i
  /\ worker[w].pc \in {"place", "retry"} => calls[i] = 0
  /\ worker[w].pc = "bind" => worker[w].ref \in 1..calls[i]

OneHolder == \A v, w \in Workers :
  HoldsClaim(v) /\ HoldsClaim(w) /\ worker[v].seq = worker[w].seq => v = w

DispatchInv == /\ TypeOK
               /\ \A i \in Sequences3 : RowInv(i)
               /\ SnapshotInv
               /\ \A w \in Workers : HolderInv(w)
               /\ OneHolder

-----------------------------------------------------------------------------
(* What a step does to the rows, for the proofs below.                     *)

Follows(c, new) == new.version = c.version + 1 /\ new.count = c.count
SameCall(a, new) == new.sequence = a.sequence /\ new.ref = a.ref

Quiet == UNCHANGED <<case, attempts, submission, calls>>
Dialled(w) == /\ worker[w].pc = "place"
              /\ \E n \in {0, 1} : calls' = [calls EXCEPT ![worker[w].seq] = @ + n]
              /\ worker'[w].pc # "place"
              /\ UNCHANGED <<case, attempts, submission>>
Swapped == /\ Follows(case, case')
           /\ Closed(case) => /\ case.status = "unacknowledged"
                              /\ case'.status \in {"acknowledged", "manual_follow_up"}
           /\ \A j \in Sequences3 :
                \/ attempts'[j] = attempts[j]
                \/ /\ j <= case.count
                   /\ attempts'[j].sequence = j
                   /\ attempts'[j].ref <= calls[j]
           /\ calls' = calls
ClaimsKept == \A j \in Sequences3 :
  \/ submission'[j] = submission[j]
  \/ /\ submission[j].state = "claimed"
     /\ submission'[j].state \in {"uncertain", "submitted"}
GivenBack(i) == /\ submission[i].state = "claimed"
                /\ calls[i] = 0
                /\ submission' = [submission EXCEPT ![i] = NoClaim]

Kind == \/ Quiet
        \/ \E w \in Workers : Dialled(w) \/ Reserve(w) \/ Claim(w)
        \/ Swapped /\ ClaimsKept
        \/ \E w \in Workers : /\ MarkRetry(w) /\ worker[w].pc = "retry"
                               /\ Swapped /\ GivenBack(worker[w].seq)

(* Every transition of a case row counts its version up and keeps the      *)
(* ladder position; every transition of an attempt keeps its call.         *)
LEMMA RowFacts ==
  ASSUME NEW c \in CaseRecords, NEW a \in AttemptRecords, NEW at, NEW v
  PROVE  /\ Follows(c, ManualCase(c)) /\ SameCall(a, ManualAttempt(a))
         /\ Follows(c, RetryCase(c, at)) /\ SameCall(a, RetryAttempt(a))
         /\ Follows(c, CanceledCase(c)) /\ SameCall(a, CanceledAttempt(a))
         /\ Follows(c, CallbackCase(c, a, v, at)) /\ SameCall(a, CallbackAttempt(a, v))
<1>1. Follows(c, ManualCase(c)) /\ SameCall(a, ManualAttempt(a))
  BY DEF Follows, SameCall, ManualCase, ManualAttempt, CaseRecords, AttemptRecords
<1>2. Follows(c, RetryCase(c, at)) /\ SameCall(a, RetryAttempt(a))
  BY DEF Follows, SameCall, RetryCase, RetryAttempt, CaseRecords, AttemptRecords
<1>3. Follows(c, CanceledCase(c)) /\ SameCall(a, CanceledAttempt(a))
  BY DEF Follows, SameCall, CanceledCase, CanceledAttempt, CaseRecords, AttemptRecords
<1>4. Follows(c, CallbackCase(c, a, v, at))
  <2>1. Follows(c, ProgressCase(c, a, v))
    BY DEF Follows, ProgressCase, CaseRecords
  <2>2. Follows(c, GatherCase(c, v))
    BY DEF Follows, GatherCase, CaseRecords
  <2>3. Follows(c, UnacknowledgedCase(c, a, at))
    BY DEF Follows, UnacknowledgedCase, CaseRecords
  <2> QED
    BY <2>1, <2>2, <2>3 DEF CallbackCase
<1>5. SameCall(a, CallbackAttempt(a, v))
  <2>1. SameCall(a, ProgressAttempt(a, v))
    BY DEF SameCall, ProgressAttempt, AttemptRecords
  <2>2. SameCall(a, GatherAttempt(a, v))
    BY DEF SameCall, GatherAttempt, AttemptRecords
  <2>3. SameCall(a, UnacknowledgedAttempt(a))
    BY DEF SameCall, UnacknowledgedAttempt, AttemptRecords
  <2> QED
    BY <2>1, <2>2, <2>3 DEF CallbackAttempt
<1> QED
  BY <1>1, <1>2, <1>3, <1>4, <1>5

(* A compare-and-swap that succeeds wrote over the rows it had read.       *)
LEMMA SwapRows ==
  ASSUME TypeOK, NEW c \in CaseRecords, NEW a \in AttemptRecords,
         Fresh(c), Placed(a), a.sequence <= case.count, case.version = c.version,
         NEW nc, NEW na, Follows(c, nc), SameCall(a, na),
         Closed(c) => /\ c.status = "unacknowledged"
                      /\ nc.status \in {"acknowledged", "manual_follow_up"},
         Store(nc, na), calls' = calls
  PROVE  Swapped
<1>1. c = case
  BY DEF Fresh, TypeOK, RepositoryTypeOK, CaseRecords
<1>2. \A j \in Sequences3 : \/ attempts'[j] = attempts[j]
                            \/ /\ j <= case.count
                               /\ attempts'[j].sequence = j
                               /\ attempts'[j].ref <= calls[j]
  BY DEF Store, SameCall, Placed, TypeOK, RepositoryTypeOK, AttemptRecords
<1> QED
  BY <1>1, <1>2 DEF Swapped, Store, Follows

LEMMA SwapCase ==
  ASSUME TypeOK, NEW c \in CaseRecords, Live(c), NEW nc, Follows(c, nc),
         ApplyCaseTransition(c, nc), calls' = calls
  PROVE  Swapped /\ ClaimsKept
<1>1. c = case
  BY DEF Live, Fresh, ApplyCaseTransition, TypeOK, RepositoryTypeOK, CaseRecords
<1> QED
  BY <1>1 DEF Swapped, ClaimsKept, ApplyCaseTransition, Live

LEMMA SwapBind ==
  ASSUME DispatchInv, NEW i \in Sequences3, NEW k \in 1..calls[i], BindCall(i, k),
         calls' = calls
  PROVE  Swapped /\ ClaimsKept
<1>1. i <= case.count
  BY DEF DispatchInv, RowInv, BindCall, CanBind, TypeOK, RepositoryTypeOK, CaseRecords,
         Sequences3
<1>2. Follows(case, case') /\ ~ Closed(case)
  BY DEF BindCall, CanBind, Follows, DispatchInv, TypeOK, RepositoryTypeOK, CaseRecords
<1>3. ClaimsKept
  BY DEF BindCall, CanBind, ClaimsKept, DispatchInv, TypeOK, RepositoryTypeOK,
         SubmissionRecords
<1>4. /\ attempts'[i].ref = k /\ attempts'[i].sequence = i
      /\ \A j \in Sequences3 \ {i} : attempts'[j] = attempts[j]
  BY DEF BindCall, DispatchInv, RowInv, TypeOK, RepositoryTypeOK, AttemptRecords
<1>5. k <= calls[i]
  BY DEF DispatchInv, TypeOK
<1> QED
  BY <1>1, <1>2, <1>3, <1>4, <1>5 DEF Swapped

LEMMA DispatchKinds ==
  ASSUME DispatchInv, NEW w \in Workers, DispatchNext(w)
  PROVE  Kind
<1> DEFINE c == worker[w].case
           a == worker[w].att
           i == a.sequence
<1>0. /\ worker[w] \in WorkerRecords
      /\ c \in CaseRecords /\ a \in AttemptRecords /\ i \in Sequences3
      /\ worker[w].seq \in Sequences3
      /\ Live(c) /\ Fresh(c) /\ ~ Closed(c) /\ Placed(a)
      /\ TypeOK
  BY DEF DispatchInv, TypeOK, WorkerRecords, AttemptRecords, SnapshotInv, Backed, Live
<1>1. ASSUME submission[i].state = "claimed" PROVE i <= case.count
  BY <1>0, <1>1 DEF DispatchInv, RowInv, TypeOK, RepositoryTypeOK, CaseRecords, Sequences3
<1>q. ASSUME UNCHANGED repositoryVars, UNCHANGED calls PROVE Kind
  BY <1>q DEF repositoryVars, Quiet, Kind
<1>2. CASE \/ Start(w) \/ ReuseAttempt(w) \/ ReserveRefused(w) \/ ContactUnavailable(w)
           \/ ClaimRefused(w) \/ PlaceRefused(w) \/ Return(w) \/ Crash(w)
  BY <1>2, <1>q DEF Start, ReuseAttempt, ReserveRefused, ContactUnavailable,
     ClaimRefused, PlaceRefused, Return, Crash, providerVars
<1>3. CASE Reserve(w) \/ Claim(w)
  BY <1>3 DEF Kind
<1>4. CASE PlaceAccepted(w)
  <2>1. worker'[w].pc = "bind"
    BY <1>0, <1>4 DEF PlaceAccepted, Become, DispatchInv, TypeOK, WorkerRecords
  <2> QED
    BY <1>4, <2>1 DEF PlaceAccepted, Dialled, Kind, repositoryVars
<1>5. CASE PlaceUncertain(w)
  <2>1. worker'[w].pc = "uncertain"
    BY <1>0, <1>5 DEF PlaceUncertain, Goto, Become, DispatchInv, TypeOK, WorkerRecords
  <2> QED
    BY <1>5, <2>1 DEF PlaceUncertain, Dialled, Kind, repositoryVars
<1>6. CASE Expire(w)
  <2>1. CASE UNCHANGED repositoryVars
    BY <1>6, <2>1, <1>q DEF Expire, providerVars
  <2>2. CASE ExpireSubmission(c, a, worker[w].now, ManualCase(c), ManualAttempt(a))
    <3>1. i <= case.count /\ case.version = c.version /\ calls' = calls
      BY <1>1, <1>6, <2>2
         DEF Expire, ExpireSubmission, CanExpire, Unchanged, providerVars
    <3>2. Store(ManualCase(c), ManualAttempt(a))
      BY <2>2 DEF ExpireSubmission
    <3>3. Swapped
      BY <1>0, <3>1, <3>2, RowFacts, SwapRows
    <3>4. ClaimsKept
      BY <1>0, <2>2 DEF ExpireSubmission, CanExpire, ClaimsKept, TypeOK,
         RepositoryTypeOK, SubmissionRecords
    <3> QED
      BY <3>3, <3>4 DEF Kind
  <2> QED
    BY <1>6, <2>1, <2>2 DEF Expire
<1>7. CASE Bind(w)
  <2>1. CASE UNCHANGED repositoryVars
    BY <1>7, <2>1, <1>q DEF Bind, providerVars
  <2>2. CASE BindCall(worker[w].seq, worker[w].ref)
    <3>1. worker[w].ref \in 1..calls[worker[w].seq]
      BY <1>7 DEF Bind, DispatchInv, HolderInv
    <3>2. calls' = calls
      BY <1>7 DEF Bind, providerVars
    <3> QED
      BY <1>0, <2>2, <3>1, <3>2, SwapBind DEF Kind
  <2> QED
    BY <1>7, <2>1, <2>2 DEF Bind, Resolve
<1>8. CASE MarkRetry(w)
  <2>1. CASE UNCHANGED repositoryVars
    BY <1>8, <2>1, <1>q DEF MarkRetry, providerVars
  <2>2. CASE FinishSubmission(w, c, a, RetryCase(c, worker[w].now), RetryAttempt(a),
                              NoClaim)
    <3>1. i <= case.count /\ case.version = c.version /\ calls' = calls
          /\ submission[i].state = "claimed" /\ worker[w].pc = "retry"
      BY <1>1, <1>8, <2>2
         DEF MarkRetry, FinishSubmission, CanFinish, Unchanged, providerVars
    <3>2. Store(RetryCase(c, worker[w].now), RetryAttempt(a))
      BY <2>2 DEF FinishSubmission
    <3>3. Swapped
      <4>1. /\ Follows(c, RetryCase(c, worker[w].now))
            /\ SameCall(a, RetryAttempt(a))
        BY <1>0, RowFacts
      <4> QED
        BY <1>0, <3>1, <3>2, <4>1, SwapRows
    <3>4. GivenBack(worker[w].seq)
      <4>1. i = worker[w].seq /\ calls[worker[w].seq] = 0
        BY <3>1 DEF DispatchInv, HolderInv, HoldsClaim
      <4> QED
        BY <2>2, <3>1, <4>1 DEF GivenBack, FinishSubmission
    <3> QED
      BY <1>8, <3>1, <3>3, <3>4 DEF Kind
  <2> QED
    BY <1>8, <2>1, <2>2 DEF MarkRetry
<1>9. CASE MarkUncertain(w)
  <2> DEFINE next == [submission[i] EXCEPT !.state = "uncertain"]
  <2>1. CASE UNCHANGED repositoryVars
    BY <1>9, <2>1, <1>q DEF MarkUncertain, providerVars
  <2>2. CASE FinishSubmission(w, c, a, ManualCase(c), ManualAttempt(a), next)
    <3>1. i <= case.count /\ case.version = c.version /\ calls' = calls
      BY <1>1, <1>9, <2>2
         DEF MarkUncertain, FinishSubmission, CanFinish, Unchanged, providerVars
    <3>2. Store(ManualCase(c), ManualAttempt(a))
      BY <2>2 DEF FinishSubmission
    <3>3. Swapped
      BY <1>0, <3>1, <3>2, RowFacts, SwapRows
    <3>4. ClaimsKept
      BY <1>0, <2>2 DEF FinishSubmission, CanFinish, ClaimsKept, TypeOK,
         RepositoryTypeOK, SubmissionRecords
    <3> QED
      BY <3>3, <3>4 DEF Kind
  <2> QED
    BY <1>9, <2>1, <2>2 DEF MarkUncertain
<1> QED
  BY <1>2, <1>3, <1>4, <1>5, <1>6, <1>7, <1>8, <1>9 DEF DispatchNext

LEMMA ExhaustKinds ==
  ASSUME DispatchInv, NEW w \in Workers, Exhaust(w)
  PROVE  Kind
<1> DEFINE c == worker[w].case
           a == worker[w].att
<1>0. /\ c \in CaseRecords /\ a \in AttemptRecords
      /\ Live(c) /\ Fresh(c) /\ ~ Closed(c) /\ Known(a) /\ Placed(a)
      /\ TypeOK
  BY DEF DispatchInv, TypeOK, WorkerRecords, SnapshotInv, Backed, Live
<1>1. CASE UNCHANGED repositoryVars /\ UNCHANGED calls
  BY <1>1 DEF repositoryVars, Quiet, Kind
<1>2. CASE ExhaustRead(w) \/ ExhaustList(w)
  BY <1>1, <1>2 DEF ExhaustRead, ExhaustList, providerVars
<1>3. CASE ExhaustApply(w)
  <2>0. calls' = calls
    BY <1>3 DEF ExhaustApply, providerVars
  <2>1. CASE UNCHANGED repositoryVars
    BY <1>1, <2>0, <2>1
  <2>2. CASE ApplyCaseTransition(c, ManualCase(c))
    BY <1>0, <2>0, <2>2, RowFacts, SwapCase DEF Kind
  <2>3. CASE a # NoAttempt /\ ApplyTransition(c, a, ManualCase(c), ManualAttempt(a))
    <3>1. /\ a.sequence <= case.count /\ case.version = c.version
          /\ Store(ManualCase(c), ManualAttempt(a)) /\ submission' = submission
      BY <1>0, <2>3 DEF Known, ApplyTransition, Unchanged
    <3>2. Swapped
      BY <1>0, <2>0, <3>1, RowFacts, SwapRows
    <3> QED
      BY <3>1, <3>2 DEF ClaimsKept, Kind
  <2> QED
    BY <1>3, <2>1, <2>2, <2>3 DEF ExhaustApply
<1> QED
  BY <1>2, <1>3 DEF Exhaust

LEMMA WebhookKinds ==
  ASSUME DispatchInv, NEW h \in Handlers, Webhook(h)
  PROVE  Kind
<1> DEFINE r == handler[h]
<1>0. /\ r.case \in CaseRecords /\ r.att \in AttemptRecords
      /\ Fresh(r.case) /\ Placed(r.att)
      /\ TypeOK
  BY DEF DispatchInv, TypeOK, HandlerRecords, SnapshotInv, BackedCallback
<1>1. CASE UNCHANGED <<case, attempts, submission, calls>>
  BY <1>1 DEF Quiet, Kind
<1>2. ASSUME NEW i \in Sequences3, NEW k \in 1..calls[i], NEW v \in Callbacks,
             Receive(h, i, k, v)
      PROVE  Kind
  <2>1. calls' = calls
    BY <1>2 DEF Receive
  <2>2. CASE BindCall(i, k)
    BY <2>1, <2>2, SwapBind DEF Kind
  <2>3. CASE UNCHANGED repositoryVars
    BY <1>1, <2>1, <2>3 DEF repositoryVars
  <2> QED
    BY <1>2, <2>2, <2>3 DEF Receive, Resolve
<1>3. CASE RecordCallback(h) \/ RefuseCallback(h)
  BY <1>1, <1>3 DEF RecordCallback, RefuseCallback, AppendEvent, providerVars,
     repositoryVars
<1>4. CASE HandleCallback(h)
  <2> DEFINE nc == CallbackCase(r.case, r.att, r.value, r.now)
             na == CallbackAttempt(r.att, r.value)
  <2>1. /\ r.att.sequence <= case.count /\ case.version = r.case.version
        /\ Store(nc, na) /\ submission' = submission /\ calls' = calls
    BY <1>4 DEF HandleCallback, ApplyCallback, Unchanged, providerVars, DispatchInv,
       SnapshotInv, BackedCallback
  <2>2. Follows(r.case, nc) /\ SameCall(r.att, na)
    BY <1>0, RowFacts
  <2>3. ASSUME Closed(r.case)
        PROVE  /\ r.case.status = "unacknowledged"
               /\ nc.status \in {"acknowledged", "manual_follow_up"}
    <3>1. r.case.status = "unacknowledged" /\ r.value \in DigitValues
      BY <1>4, <2>3 DEF HandleCallback, OnlyRecorded, Closed
    <3>2. nc = GatherCase(r.case, r.value)
      BY <3>1 DEF CallbackCase, DigitValues, ProgressValues
    <3>3. nc.status = GatherStatus(r.value)
      BY <1>0, <3>2 DEF GatherCase, CaseRecords
    <3> QED
      BY <3>1, <3>3 DEF GatherStatus
  <2> HIDE DEF nc, na
  <2>4. Swapped
    BY <1>0, <2>1, <2>2, <2>3, SwapRows
  <2> QED
    BY <2>1, <2>4 DEF ClaimsKept, Kind
<1> QED
  BY <1>2, <1>3, <1>4 DEF Webhook

LEMMA CancelKinds ==
  ASSUME DispatchInv, NEW o \in Operators, Cancel(o)
  PROVE  Kind
<1> DEFINE c == canceler[o].case
           a == canceler[o].att
<1>0. /\ c \in CaseRecords /\ a \in AttemptRecords
      /\ Live(c) /\ Fresh(c) /\ ~ Closed(c) /\ Known(a) /\ Placed(a)
      /\ TypeOK
  BY DEF DispatchInv, TypeOK, CancelerRecords, SnapshotInv, Backed, Live
<1>1. CASE UNCHANGED repositoryVars /\ UNCHANGED calls
  BY <1>1 DEF repositoryVars, Quiet, Kind
<1>2. CASE CancelRead(o) \/ CancelList(o)
  BY <1>1, <1>2 DEF CancelRead, CancelList, providerVars
<1>3. CASE CancelApply(o)
  <2>0. calls' = calls
    BY <1>3 DEF CancelApply, providerVars
  <2>1. CASE UNCHANGED repositoryVars
    BY <1>1, <2>0, <2>1
  <2>2. CASE ApplyCaseTransition(c, CanceledCase(c))
    BY <1>0, <2>0, <2>2, RowFacts, SwapCase DEF Kind
  <2>3. CASE /\ a # NoAttempt /\ CanCancel(c, a)
             /\ ApplyTransition(c, a, CanceledCase(c), CanceledAttempt(a))
    <3>1. /\ a.sequence <= case.count /\ case.version = c.version
          /\ Store(CanceledCase(c), CanceledAttempt(a)) /\ submission' = submission
      BY <1>0, <2>3 DEF Known, ApplyTransition, Unchanged
    <3>2. Swapped
      BY <1>0, <2>0, <3>1, RowFacts, SwapRows
    <3> QED
      BY <3>1, <3>2 DEF ClaimsKept, Kind
  <2> QED
    BY <1>3, <2>1, <2>2, <2>3 DEF CancelApply
<1> QED
  BY <1>2, <1>3 DEF Cancel

(* Every step of the system is of one of the kinds.                        *)
LEMMA StepKinds == DispatchInv /\ [CoordinatorNext]_vars => Kind
<1> SUFFICES ASSUME DispatchInv, [CoordinatorNext]_vars PROVE Kind
  OBVIOUS
<1>1. CASE Tick \/ UNCHANGED vars
  BY <1>1 DEF Tick, vars, repositoryVars, providerVars, Quiet, Kind
<1> QED
  BY <1>1, DispatchKinds, ExhaustKinds, WebhookKinds, CancelKinds DEF CoordinatorNext

-----------------------------------------------------------------------------
(* Nothing is forgotten: versions, the ladder position and the number of   *)
(* calls only grow, so what was read stays a true statement of the past.   *)

LEMMA Growth ==
  ASSUME DispatchInv, Kind
  PROVE  /\ case' = case \/ case'.version = case.version + 1
         /\ case.count <= case'.count
         /\ \A i \in Sequences3 : calls[i] <= calls'[i]
<1>0. /\ case \in CaseRecords /\ case.count \in 0..3 /\ case.version \in Nat
      /\ \A i \in Sequences3 : calls[i] \in Nat
  BY DEF DispatchInv, TypeOK, RepositoryTypeOK, CaseRecords
<1>1. CASE Quiet
  BY <1>0, <1>1 DEF Quiet
<1>2. ASSUME NEW w \in Workers, Dialled(w)
      PROVE  case' = case /\ \A i \in Sequences3 : calls[i] <= calls'[i]
  BY <1>0, <1>2 DEF Dialled, DispatchInv, TypeOK
<1>3. ASSUME NEW w \in Workers, Reserve(w)
      PROVE  /\ case'.version = case.version + 1 /\ case'.count = case.count + 1
             /\ calls' = calls
  BY <1>0, <1>3 DEF Reserve, ReserveNextAttempt, CaseRecords, providerVars
<1>4. ASSUME NEW w \in Workers, Claim(w)
      PROVE  /\ case'.version = case.version + 1 /\ case'.count = case.count
             /\ calls' = calls
  BY <1>0, <1>4 DEF Claim, ClaimSubmission, CaseRecords, providerVars
<1>5. CASE Swapped
  BY <1>0, <1>5 DEF Swapped, Follows
<1> QED
  BY <1>0, <1>1, <1>2, <1>3, <1>4, <1>5 DEF Kind

LEMMA CarryFresh ==
  ASSUME DispatchInv, Kind, NEW c \in CaseRecords
  PROVE  (Fresh(c) => Fresh(c)') /\ (Live(c) => Live(c)')
<1>1. case.version \in Nat /\ c.version \in Nat
  BY DEF DispatchInv, TypeOK, RepositoryTypeOK, CaseRecords
<1> QED
  BY <1>1, Growth DEF Fresh, Live, Closed

LEMMA CarryAttempt ==
  ASSUME DispatchInv, TypeOK', Kind, NEW a \in AttemptRecords
  PROVE  /\ a.sequence <= case.count => a.sequence <= case'.count
         /\ Known(a) => Known(a)'
         /\ Placed(a) => Placed(a)'
<1>1. /\ a.sequence \in Sequences3 /\ a.ref \in Nat
      /\ case.count \in 0..3 /\ case'.count \in 0..3
      /\ calls[a.sequence] \in Nat /\ calls'[a.sequence] \in Nat
  BY DEF DispatchInv, TypeOK, RepositoryTypeOK, CaseRecords, AttemptRecords
<1>2. a.sequence <= case.count => a.sequence <= case'.count
  BY <1>1, Growth DEF Sequences3
<1>3. Placed(a) => Placed(a)'
  BY <1>1, Growth DEF Placed
<1> QED
  BY <1>2, <1>3 DEF Known

-----------------------------------------------------------------------------
(* The rows.                                                               *)

LEMMA RowStep ==
  ASSUME DispatchInv, TypeOK', Kind, NEW i \in Sequences3
  PROVE  RowInv(i)'
<1>0. /\ RowInv(i) /\ i \in 1..3 /\ case.count \in 0..3 /\ case'.count \in 0..3
      /\ calls[i] \in Nat
      /\ attempts[i] \in AttemptRecords /\ attempts[i].ref \in Nat
      /\ attempts \in [Sequences3 -> AttemptRecords]
      /\ submission \in [Sequences3 -> SubmissionRecords]
      /\ calls \in [Sequences3 -> Nat]
  BY DEF DispatchInv, TypeOK, RepositoryTypeOK, CaseRecords, AttemptRecords, Sequences3
<1>1. CASE Quiet
  BY <1>0, <1>1 DEF Quiet, RowInv
<1>2. ASSUME NEW w \in Workers, Dialled(w) PROVE RowInv(i)'
  <2>1. CASE i = worker[w].seq
    <3>1. calls[i] = 0 /\ submission[i].state # "pending" /\ calls'[i] \in {0, 1}
      BY <1>0, <1>2, <2>1 DEF Dialled, DispatchInv, HolderInv, HoldsClaim
    <3> QED
      BY <1>0, <1>2, <3>1 DEF Dialled, RowInv
  <2>2. CASE i # worker[w].seq
    <3>1. calls'[i] = calls[i]
      BY <1>0, <1>2, <2>2 DEF Dialled
    <3> QED
      BY <1>0, <1>2, <3>1 DEF Dialled, RowInv
  <2> QED
    BY <2>1, <2>2
<1>3. ASSUME NEW w \in Workers, Reserve(w) PROVE RowInv(i)'
  <2>1. /\ case'.count = case.count + 1 /\ calls' = calls
        /\ ReserveNextAttempt(worker[w].now)
    BY <1>0, <1>3 DEF Reserve, ReserveNextAttempt, DispatchInv, TypeOK,
       RepositoryTypeOK, CaseRecords, providerVars
  <2>2. CASE i = case.count + 1
    <3>1. /\ attempts'[i] = [sequence |-> i, status |-> "reserved", ref |-> 0,
                             version |-> 1]
          /\ calls[i] = 0
      BY <1>0, <2>1, <2>2 DEF ReserveNextAttempt, RowInv
    <3> QED
      BY <1>0, <2>1, <2>2, <3>1 DEF RowInv
  <2>3. CASE i # case.count + 1
    <3>1. attempts'[i] = attempts[i] /\ submission'[i] = submission[i]
      BY <1>0, <2>1, <2>3 DEF ReserveNextAttempt
    <3> QED
      BY <1>0, <2>1, <2>3, <3>1 DEF RowInv
  <2> QED
    BY <2>2, <2>3
<1>4. ASSUME NEW w \in Workers, Claim(w) PROVE RowInv(i)'
  <2> DEFINE j == worker[w].seq
  <2>1. /\ case'.count = case.count /\ calls' = calls
        /\ attempts' = [attempts EXCEPT ![j].version = @ + 1]
        /\ submission' = [submission EXCEPT ![j] =
              [state |-> "claimed", owner |-> w,
               deadline |-> worker[w].now + ClaimTimeout]]
        /\ attempts[j].status \in {"reserved", "provider_retry"}
    BY <1>0, <1>4 DEF Claim, ClaimSubmission, CanClaim, DispatchInv, TypeOK,
       RepositoryTypeOK, CaseRecords, providerVars
  <2>2. CASE i = j
    <3>1. /\ attempts'[i].sequence = attempts[i].sequence
          /\ attempts'[i].ref = attempts[i].ref
          /\ submission'[i].state = "claimed"
      BY <1>0, <2>1, <2>2 DEF AttemptRecords
    <3> QED
      BY <1>0, <2>1, <2>2, <3>1 DEF RowInv
  <2>3. CASE i # j
    <3>1. attempts'[i] = attempts[i] /\ submission'[i] = submission[i]
      BY <1>0, <2>1, <2>3
    <3> QED
      BY <1>0, <2>1, <3>1 DEF RowInv
  <2> QED
    BY <2>2, <2>3
<1>5. ASSUME Swapped,
             \/ submission'[i] = submission[i]
             \/ /\ submission[i].state = "claimed"
                /\ submission'[i].state # "pending"
             \/ submission[i].state = "claimed" /\ calls[i] = 0
      PROVE  RowInv(i)'
  <2>1. case'.count = case.count /\ calls' = calls
    BY <1>5 DEF Swapped, Follows
  <2> QED
    BY <1>0, <1>5, <2>1 DEF Swapped, RowInv
<1>6. CASE Swapped /\ ClaimsKept
  BY <1>5, <1>6 DEF ClaimsKept
<1>7. ASSUME NEW w \in Workers, Swapped, GivenBack(worker[w].seq) PROVE RowInv(i)'
  BY <1>0, <1>5, <1>7 DEF GivenBack
<1> QED
  BY <1>1, <1>2, <1>3, <1>4, <1>6, <1>7 DEF Kind

-----------------------------------------------------------------------------
(* The snapshots.                                                          *)

LEMMA ReadActiveKnown ==
  ASSUME DispatchInv
  PROVE  /\ ReadActive \in AttemptRecords
         /\ Known(ReadActive)
         /\ Placed(ReadActive)
<1>0. TypeOK /\ RepositoryTypeOK
  BY DEF DispatchInv, TypeOK
<1>1. CASE Active = {}
  <2>1. ReadActive = NoAttempt /\ NoAttempt.ref = 0 /\ NoAttempt.sequence = 1
    BY <1>1 DEF ReadActive, NoAttempt
  <2>2. calls[1] \in Nat
    BY <1>0 DEF TypeOK, Sequences3
  <2> QED
    BY <1>0, <2>1, <2>2, ActiveTypes DEF Known, Placed
<1>2. CASE Active # {}
  <2> DEFINE i == LastActive
  <2>1. i \in Active /\ i \in Sequences3 /\ ReadActive = attempts[i]
    BY <1>0, <1>2, ActiveTypes DEF ReadActive
  <2>2. attempts[i].status # "unreserved"
    BY <2>1 DEF Active, AttemptActive
  <2>3. i <= case.count /\ attempts[i].sequence = i /\ attempts[i].ref <= calls[i]
    BY <1>0, <2>1, <2>2 DEF DispatchInv, RowInv, RepositoryTypeOK, CaseRecords, Sequences3
  <2> QED
    BY <1>0, <2>1, <2>3, ActiveTypes DEF Known, Placed
<1> QED
  BY <1>1, <1>2

LEMMA WorkerSnapshots ==
  ASSUME DispatchInv, TypeOK', Kind, NEW w \in Workers, DispatchNext(w) \/ Exhaust(w),
         (case.version >= 1)'
  PROVE  \A v \in Workers : Backed(worker[v])'
<1>0. /\ TypeOK
      /\ \A v \in Workers : /\ worker[v] \in WorkerRecords /\ Backed(worker[v])
                            /\ worker[v].case \in CaseRecords
                            /\ worker[v].att \in AttemptRecords
  BY DEF DispatchInv, TypeOK, SnapshotInv, WorkerRecords
<1>1. ASSUME NEW v \in Workers, NEW c \in CaseRecords, NEW a \in AttemptRecords,
             worker'[v].case = c, worker'[v].att = a, Live(c), Known(a), Placed(a)
      PROVE  Backed(worker[v])'
  <2>1. Live(c)' /\ Known(a)' /\ Placed(a)'
    BY <1>1, CarryFresh, CarryAttempt
  <2> QED
    BY <1>1, <2>1 DEF Backed, Live, Fresh, Closed, Known, Placed
<1>2. ASSUME NEW v \in Workers, worker'[v].case = worker[v].case,
             worker'[v].att = worker[v].att
      PROVE  Backed(worker[v])'
  <2>1. PICK c \in CaseRecords : c = worker[v].case
    BY <1>0
  <2>2. PICK a \in AttemptRecords : a = worker[v].att
    BY <1>0
  <2>3. Live(c) /\ Known(a) /\ Placed(a)
    BY <1>0, <2>1, <2>2 DEF Backed
  <2> QED
    BY <1>1, <1>2, <2>1, <2>2, <2>3
<1>3. ASSUME NEW v \in Workers, worker'[v].case = NoCase, worker'[v].att = NoAttempt
      PROVE  Backed(worker[v])'
  <2>1. /\ NoCase.version = 0 /\ NoCase.status = "queued"
        /\ NoAttempt.ref = 0 /\ NoAttempt.sequence = 1
    BY DEF NoCase, NoAttempt
  <2>2. (case.version \in Nat)' /\ (calls[1] \in Nat)'
    BY DEF TypeOK, RepositoryTypeOK, CaseRecords, Sequences3
  <2>3. (Live(worker[v].case))'
    BY <1>3, <2>1, <2>2 DEF Live, Fresh, Closed, CaseTerminal
  <2> QED
    BY <1>3, <2>1, <2>2, <2>3 DEF Backed, Known, Placed
<1>4. \A v \in Workers \ {w} : worker'[v] = worker[v]
  <2>1. \E r : Become(w, r)
    BY DEF DispatchNext, Exhaust, Start, ReuseAttempt, Reserve, ReserveRefused,
       ContactUnavailable, Claim, ClaimRefused, Expire, PlaceAccepted, PlaceUncertain,
       PlaceRefused, Bind, MarkRetry, MarkUncertain, Return, Crash, ExhaustRead,
       ExhaustList, ExhaustApply, Done, Goto
  <2> QED
    BY <1>0, <2>1 DEF Become, TypeOK
<1> SUFFICES Backed(worker[w])'
  BY <1>2, <1>4
<1>5. \A r : Become(w, r) => worker'[w] = r
  BY <1>0 DEF Become, TypeOK
<1>6. ASSUME NEW out, Done(w, out)
      PROVE  worker'[w].case = NoCase /\ worker'[w].att = NoAttempt
  BY <1>5, <1>6 DEF Done, IdleWorker
<1>7. ASSUME NEW pc, Goto(w, pc)
      PROVE  worker'[w].case = worker[w].case /\ worker'[w].att = worker[w].att
  BY <1>0, <1>5, <1>7 DEF Goto, WorkerRecords
<1>8. ASSUME \E out : Done(w, out) PROVE Backed(worker[w])'
  BY <1>3, <1>6, <1>8
<1>9. ASSUME \E pc : Goto(w, pc) PROVE Backed(worker[w])'
  BY <1>2, <1>7, <1>9
<1>10. CASE \/ ReserveRefused(w) \/ ContactUnavailable(w) \/ Expire(w) \/ Bind(w)
            \/ MarkRetry(w) \/ MarkUncertain(w)
  BY <1>8, <1>10 DEF ReserveRefused, ContactUnavailable, Expire, Bind, MarkRetry,
     MarkUncertain
<1>11. CASE PlaceUncertain(w) \/ PlaceRefused(w)
  BY <1>9, <1>11 DEF PlaceUncertain, PlaceRefused
<1>12. CASE Return(w) \/ Crash(w)
  <2>1. worker'[w] = IdleWorker
    BY <1>5, <1>12 DEF Return, Crash
  <2> QED
    BY <1>3, <2>1 DEF IdleWorker
<1>13. CASE Start(w) \/ ReuseAttempt(w) \/ Reserve(w) \/ PlaceAccepted(w)
  <2>1. ASSUME ~ \E out : Done(w, out)
        PROVE  worker'[w].case = worker[w].case /\ worker'[w].att = worker[w].att
    BY <1>0, <1>5, <1>13, <2>1
       DEF Start, ReuseAttempt, Reserve, PlaceAccepted, WorkerRecords
  <2> QED
    BY <1>2, <1>8, <2>1
<1>14. CASE Claim(w)
  <2>0. PICK i \in Sequences3 : i = worker[w].seq
    BY <1>0 DEF WorkerRecords
  <2>1. RowInv(i)'
    BY RowStep
  <2>2. /\ ClaimSubmission(i, w, worker[w].now, worker[w].now + ClaimTimeout)
        /\ worker'[w].case = case' /\ worker'[w].att = attempts'[i]
    BY <1>0, <1>5, <1>14, <2>0 DEF Claim, WorkerRecords
  <2>3. case'.status = case.status /\ ~ Closed(case)
    BY <1>0, <2>2 DEF ClaimSubmission, CanClaim, TypeOK, RepositoryTypeOK, CaseRecords
  <2>4. (Live(worker[w].case))'
    BY <2>2, <2>3 DEF Live, Fresh, Closed
  <2>5. submission'[i].state = "claimed"
    BY <1>0, <2>1, <2>2 DEF ClaimSubmission, TypeOK, RepositoryTypeOK
  <2>6. /\ attempts'[i].sequence = i /\ attempts'[i].ref <= calls'[i]
        /\ i <= case'.count
    <3>1. (case.count \in 0..3)' /\ i \in 1..3
      BY <2>1 DEF TypeOK, RepositoryTypeOK, CaseRecords, Sequences3
    <3> QED
      BY <2>1, <2>5, <3>1 DEF RowInv
  <2> QED
    BY <2>2, <2>4, <2>6 DEF Backed, Known, Placed
<1>15. CASE ClaimRefused(w)
  <2> DEFINE i == worker[w].seq
  <2>1. CASE \E out : Done(w, out)
    BY <1>8, <2>1
  <2>2. CASE ~ \E out : Done(w, out)
    <3>1. /\ worker'[w].case = case /\ worker'[w].att = attempts[i]
          /\ ~ Closed(case) /\ submission[i].state = "claimed"
      BY <1>0, <1>5, <1>15, <2>2 DEF ClaimRefused, WorkerRecords
    <3>2. i \in Sequences3 /\ RowInv(i) /\ case.count \in 0..3
      BY <1>0 DEF WorkerRecords, DispatchInv, TypeOK, RepositoryTypeOK, CaseRecords
    <3>3. PICK c \in CaseRecords : c = case
      BY <1>0 DEF TypeOK, RepositoryTypeOK
    <3>4. PICK a \in AttemptRecords : a = attempts[i]
      BY <1>0, <3>2 DEF TypeOK, RepositoryTypeOK
    <3>5. Live(c) /\ Known(a) /\ Placed(a)
      BY <3>1, <3>2, <3>3, <3>4 DEF Live, Fresh, Known, Placed, RowInv, Sequences3
    <3> QED
      BY <1>1, <3>1, <3>3, <3>4, <3>5
  <2> QED
    BY <2>1, <2>2
<1>16. CASE ExhaustRead(w)
  <2>1. CASE \E out : Done(w, out)
    BY <1>8, <2>1
  <2>2. CASE ~ \E out : Done(w, out)
    <3>1. /\ worker'[w].case = case /\ worker'[w].att = worker[w].att
          /\ ~ Closed(case)
      BY <1>0, <1>5, <1>16, <2>2 DEF ExhaustRead, WorkerRecords
    <3>2. PICK c \in CaseRecords : c = case
      BY <1>0 DEF TypeOK, RepositoryTypeOK
    <3>3. PICK a \in AttemptRecords : a = worker[w].att
      BY <1>0
    <3>4. Live(c) /\ Known(a) /\ Placed(a)
      BY <1>0, <3>1, <3>2, <3>3 DEF Live, Fresh, Backed
    <3> QED
      BY <1>1, <3>1, <3>2, <3>3, <3>4
  <2> QED
    BY <2>1, <2>2
<1>17. CASE ExhaustList(w)
  <2>1. worker'[w].case = worker[w].case /\ worker'[w].att = ReadActive
    BY <1>0, <1>5, <1>17 DEF ExhaustList, WorkerRecords
  <2>2. PICK c \in CaseRecords : c = worker[w].case
    BY <1>0
  <2>3. PICK a \in AttemptRecords : a = ReadActive
    BY ReadActiveKnown
  <2>4. Live(c) /\ Known(a) /\ Placed(a)
    BY <1>0, <2>2, <2>3, ReadActiveKnown DEF Backed
  <2> QED
    BY <1>1, <2>1, <2>2, <2>3, <2>4
<1>18. CASE ExhaustApply(w)
  <2>1. ASSUME ~ \E out : Done(w, out)
        PROVE  worker'[w].case = NoCase /\ worker'[w].att = NoAttempt
    BY <1>5, <1>18, <2>1 DEF ExhaustApply, IdleWorker
  <2> QED
    BY <1>3, <1>8, <2>1
<1> QED
  BY <1>10, <1>11, <1>12, <1>13, <1>14, <1>15, <1>16, <1>17, <1>18
     DEF DispatchNext, Exhaust

LEMMA HandlerSnapshots ==
  ASSUME DispatchInv, TypeOK', Kind, NEW h \in Handlers, Webhook(h),
         (case.version >= 1)'
  PROVE  \A g \in Handlers : BackedCallback(handler[g])'
<1>0. /\ TypeOK
      /\ \A g \in Handlers : /\ handler[g] \in HandlerRecords
                             /\ BackedCallback(handler[g])
                             /\ handler[g].case \in CaseRecords
                             /\ handler[g].att \in AttemptRecords
  BY DEF DispatchInv, TypeOK, SnapshotInv, HandlerRecords
<1>1. ASSUME NEW g \in Handlers, handler'[g] = handler[g]
      PROVE  BackedCallback(handler[g])'
  <2>1. PICK c \in CaseRecords : c = handler[g].case
    BY <1>0
  <2>2. PICK a \in AttemptRecords : a = handler[g].att
    BY <1>0
  <2>3. /\ Fresh(c) /\ Placed(a)
        /\ handler[g].pc = "apply" => a.sequence <= case.count
    BY <1>0, <2>1, <2>2 DEF BackedCallback
  <2>4. /\ Fresh(c)' /\ Placed(a)'
        /\ handler[g].pc = "apply" => a.sequence <= case'.count
    BY <2>3, CarryFresh, CarryAttempt
  <2> QED
    BY <1>1, <2>1, <2>2, <2>4 DEF BackedCallback, Fresh, Placed
<1>2. ASSUME Respond(h) PROVE \A g \in Handlers : BackedCallback(handler[g])'
  <2>1. handler'[h] = IdleHandler /\ \A g \in Handlers \ {h} : handler'[g] = handler[g]
    BY <1>0, <1>2 DEF Respond, TypeOK
  <2>2. /\ IdleHandler.pc = "idle" /\ IdleHandler.case.version = 0
        /\ IdleHandler.att.ref = 0 /\ IdleHandler.att.sequence = 1
    BY DEF IdleHandler, NoCase, NoAttempt
  <2>3. (case.version \in Nat)' /\ (calls[1] \in Nat)'
    BY DEF TypeOK, RepositoryTypeOK, CaseRecords, Sequences3
  <2>4. BackedCallback(handler[h])'
    BY <2>1, <2>2, <2>3 DEF BackedCallback, Fresh, Placed
  <2> QED
    BY <1>1, <2>1, <2>4
<1>3. CASE RecordCallback(h) \/ HandleCallback(h) \/ RefuseCallback(h)
  BY <1>2, <1>3 DEF RecordCallback, HandleCallback, RefuseCallback
<1>4. ASSUME NEW i \in Sequences3, NEW k \in 1..calls[i], NEW v \in Callbacks,
             Receive(h, i, k, v)
      PROVE  \A g \in Handlers : BackedCallback(handler[g])'
  <2>1. \A g \in Handlers \ {h} : handler'[g] = handler[g]
    BY <1>0, <1>4 DEF Receive, TypeOK
  <2>2. CASE handler' = handler
    BY <1>1, <2>2
  <2>3. CASE handler' # handler
    <3>1. handler'[h] = [pc |-> "apply", value |-> v, now |-> clock, case |-> case',
                         att |-> attempts'[i]]
      BY <1>0, <1>4, <2>3 DEF Receive, TypeOK
    <3>2. /\ handler'[h].case = case' /\ handler'[h].att = attempts'[i]
      BY <3>1
    <3>3. RowInv(i)' /\ (case.count \in 0..3)' /\ i \in 1..3
      BY RowStep DEF TypeOK, RepositoryTypeOK, CaseRecords, Sequences3
    <3>4. (calls[i] \in Nat)' /\ calls'[i] > 0
      <4>1. k \in Nat /\ calls[i] \in Nat /\ calls[i] > 0
        BY <1>0 DEF TypeOK
      <4> QED
        BY <1>4, <4>1 DEF Receive
    <3>5. i <= case'.count
      BY <3>3, <3>4 DEF RowInv
    <3>6. BackedCallback(handler[h])'
      BY <3>2, <3>3, <3>5 DEF BackedCallback, Fresh, Placed, RowInv
    <3> QED
      BY <1>1, <2>1, <3>6
  <2> QED
    BY <2>2, <2>3
<1> QED
  BY <1>3, <1>4 DEF Webhook

LEMMA CancelerSnapshots ==
  ASSUME DispatchInv, TypeOK', Kind, NEW o \in Operators, Cancel(o),
         (case.version >= 1)'
  PROVE  \A p \in Operators : Backed(canceler[p])'
<1>0. /\ TypeOK
      /\ \A p \in Operators : /\ canceler[p] \in CancelerRecords /\ Backed(canceler[p])
                              /\ canceler[p].case \in CaseRecords
                              /\ canceler[p].att \in AttemptRecords
  BY DEF DispatchInv, TypeOK, SnapshotInv, CancelerRecords
<1>1. ASSUME NEW p \in Operators, NEW c \in CaseRecords, NEW a \in AttemptRecords,
             canceler'[p].case = c, canceler'[p].att = a, Live(c), Known(a), Placed(a)
      PROVE  Backed(canceler[p])'
  <2>1. Live(c)' /\ Known(a)' /\ Placed(a)'
    BY <1>1, CarryFresh, CarryAttempt
  <2> QED
    BY <1>1, <2>1 DEF Backed, Live, Fresh, Closed, Known, Placed
<1>2. ASSUME NEW p \in Operators, canceler'[p] = canceler[p]
      PROVE  Backed(canceler[p])'
  <2>1. PICK c \in CaseRecords : c = canceler[p].case
    BY <1>0
  <2>2. PICK a \in AttemptRecords : a = canceler[p].att
    BY <1>0
  <2>3. Live(c) /\ Known(a) /\ Placed(a)
    BY <1>0, <2>1, <2>2 DEF Backed
  <2> QED
    BY <1>1, <1>2, <2>1, <2>2, <2>3
<1>3. ASSUME canceler' = [canceler EXCEPT ![o] = IdleCanceler]
      PROVE  \A p \in Operators : Backed(canceler[p])'
  <2>1. canceler'[o] = IdleCanceler /\ \A p \in Operators \ {o} : canceler'[p] = canceler[p]
    BY <1>0, <1>3 DEF TypeOK
  <2>2. /\ IdleCanceler.case = NoCase /\ IdleCanceler.att = NoAttempt
        /\ NoCase.version = 0 /\ NoCase.status = "queued"
        /\ NoAttempt.ref = 0 /\ NoAttempt.sequence = 1
    BY DEF IdleCanceler, NoCase, NoAttempt
  <2>3. (case.version \in Nat)' /\ (calls[1] \in Nat)'
    BY DEF TypeOK, RepositoryTypeOK, CaseRecords, Sequences3
  <2>4. (Live(canceler[o].case))'
    BY <2>1, <2>2, <2>3 DEF Live, Fresh, Closed, CaseTerminal
  <2>5. Backed(canceler[o])'
    BY <2>1, <2>2, <2>3, <2>4 DEF Backed, Known, Placed
  <2> QED
    BY <1>2, <2>1, <2>5
<1>4. CASE CancelRead(o)
  <2>1. /\ canceler'[o].case = case /\ canceler'[o].att = canceler[o].att
        /\ ~ Closed(case) /\ \A p \in Operators \ {o} : canceler'[p] = canceler[p]
    BY <1>0, <1>4 DEF CancelRead, TypeOK, CancelerRecords
  <2>2. PICK c \in CaseRecords : c = case
    BY <1>0 DEF TypeOK, RepositoryTypeOK
  <2>3. PICK a \in AttemptRecords : a = canceler[o].att
    BY <1>0
  <2>4. Live(c) /\ Known(a) /\ Placed(a)
    BY <1>0, <2>1, <2>2, <2>3 DEF Live, Fresh, Backed
  <2> QED
    BY <1>1, <1>2, <2>1, <2>2, <2>3, <2>4
<1>5. CASE CancelList(o)
  <2>1. CASE canceler' = [canceler EXCEPT ![o] = IdleCanceler]
    BY <1>3, <2>1
  <2>2. CASE canceler' = [canceler EXCEPT ![o].pc = "apply", ![o].att = ReadActive]
    <3>1. /\ canceler'[o].case = canceler[o].case /\ canceler'[o].att = ReadActive
          /\ \A p \in Operators \ {o} : canceler'[p] = canceler[p]
      BY <1>0, <2>2 DEF TypeOK, CancelerRecords
    <3>2. PICK c \in CaseRecords : c = canceler[o].case
      BY <1>0
    <3>3. PICK a \in AttemptRecords : a = ReadActive
      BY ReadActiveKnown
    <3>4. Live(c) /\ Known(a) /\ Placed(a)
      BY <1>0, <3>2, <3>3, ReadActiveKnown DEF Backed
    <3> QED
      BY <1>1, <1>2, <3>1, <3>2, <3>3, <3>4
  <2> QED
    BY <1>5, <2>1, <2>2 DEF CancelList
<1>6. CASE CancelApply(o)
  BY <1>3, <1>6 DEF CancelApply
<1> QED
  BY <1>4, <1>5, <1>6 DEF Cancel

(* A process that does not move keeps what it has read.                    *)
LEMMA IdleSnapshots ==
  ASSUME DispatchInv, TypeOK', Kind
  PROVE  /\ worker' = worker => \A w \in Workers : Backed(worker[w])'
         /\ handler' = handler => \A h \in Handlers : BackedCallback(handler[h])'
         /\ canceler' = canceler => \A o \in Operators : Backed(canceler[o])'
<1>0. /\ \A w \in Workers : /\ Backed(worker[w])
                            /\ worker[w].case \in CaseRecords
                            /\ worker[w].att \in AttemptRecords
      /\ \A h \in Handlers : /\ BackedCallback(handler[h])
                             /\ handler[h].case \in CaseRecords
                             /\ handler[h].att \in AttemptRecords
      /\ \A o \in Operators : /\ Backed(canceler[o])
                              /\ canceler[o].case \in CaseRecords
                              /\ canceler[o].att \in AttemptRecords
  BY DEF DispatchInv, TypeOK, SnapshotInv, WorkerRecords, HandlerRecords, CancelerRecords
<1>1. ASSUME NEW w \in Workers, worker' = worker PROVE Backed(worker[w])'
  <2>1. PICK c \in CaseRecords : c = worker[w].case
    BY <1>0
  <2>2. PICK a \in AttemptRecords : a = worker[w].att
    BY <1>0
  <2>3. Live(c)' /\ Known(a)' /\ Placed(a)'
    BY <1>0, <2>1, <2>2, CarryFresh, CarryAttempt DEF Backed
  <2> QED
    BY <1>1, <2>1, <2>2, <2>3 DEF Backed, Live, Fresh, Closed, Known, Placed
<1>2. ASSUME NEW o \in Operators, canceler' = canceler PROVE Backed(canceler[o])'
  <2>1. PICK c \in CaseRecords : c = canceler[o].case
    BY <1>0
  <2>2. PICK a \in AttemptRecords : a = canceler[o].att
    BY <1>0
  <2>3. Live(c)' /\ Known(a)' /\ Placed(a)'
    BY <1>0, <2>1, <2>2, CarryFresh, CarryAttempt DEF Backed
  <2> QED
    BY <1>2, <2>1, <2>2, <2>3 DEF Backed, Live, Fresh, Closed, Known, Placed
<1>3. ASSUME NEW h \in Handlers, handler' = handler PROVE BackedCallback(handler[h])'
  <2>1. PICK c \in CaseRecords : c = handler[h].case
    BY <1>0
  <2>2. PICK a \in AttemptRecords : a = handler[h].att
    BY <1>0
  <2>3. /\ Fresh(c)' /\ Placed(a)'
        /\ handler[h].pc = "apply" => a.sequence <= case'.count
    BY <1>0, <2>1, <2>2, CarryFresh, CarryAttempt DEF BackedCallback
  <2> QED
    BY <1>3, <2>1, <2>2, <2>3 DEF BackedCallback, Fresh, Placed
<1> QED
  BY <1>1, <1>2, <1>3

LEMMA SnapshotStep == DispatchInv /\ TypeOK' /\ Kind /\ [CoordinatorNext]_vars
                        => SnapshotInv'
<1> SUFFICES ASSUME DispatchInv, TypeOK', Kind, [CoordinatorNext]_vars
             PROVE  SnapshotInv'
  OBVIOUS
<1>1. (case.version >= 1)'
  <2>1. case.version \in Nat /\ case.version >= 1
    BY DEF DispatchInv, SnapshotInv, TypeOK, RepositoryTypeOK, CaseRecords
  <2> QED
    BY <2>1, Growth
<1>2. ASSUME NEW w \in Workers, DispatchNext(w) \/ Exhaust(w) PROVE SnapshotInv'
  <2>1. handler' = handler /\ canceler' = canceler
    BY <1>2 DEF DispatchNext, Exhaust, Start, ReuseAttempt, Reserve, ReserveRefused,
       ContactUnavailable, Claim, ClaimRefused, Expire, PlaceAccepted, PlaceUncertain,
       PlaceRefused, Bind, MarkRetry, MarkUncertain, Return, Crash, ExhaustRead,
       ExhaustList, ExhaustApply
  <2> QED
    BY <1>1, <1>2, <2>1, WorkerSnapshots, IdleSnapshots DEF SnapshotInv
<1>3. ASSUME NEW h \in Handlers, Webhook(h) PROVE SnapshotInv'
  <2>1. worker' = worker /\ canceler' = canceler
    BY <1>3 DEF Webhook, Receive, RecordCallback, HandleCallback, RefuseCallback
  <2> QED
    BY <1>1, <1>3, <2>1, HandlerSnapshots, IdleSnapshots DEF SnapshotInv
<1>4. ASSUME NEW o \in Operators, Cancel(o) PROVE SnapshotInv'
  <2>1. worker' = worker /\ handler' = handler
    BY <1>4 DEF Cancel, CancelRead, CancelList, CancelApply
  <2> QED
    BY <1>1, <1>4, <2>1, CancelerSnapshots, IdleSnapshots DEF SnapshotInv
<1>5. CASE Tick \/ UNCHANGED vars
  <2>1. worker' = worker /\ handler' = handler /\ canceler' = canceler
    BY <1>5 DEF Tick, vars, processVars
  <2> QED
    BY <1>1, <2>1, IdleSnapshots DEF SnapshotInv
<1> QED
  BY <1>2, <1>3, <1>4, <1>5 DEF CoordinatorNext

-----------------------------------------------------------------------------
(* The holders of claims.                                                  *)

(* Only claiming makes a holder, and a holder never moves to another       *)
(* attempt.                                                                *)
LEMMA HolderMoves ==
  ASSUME TypeOK, [CoordinatorNext]_vars, NEW v \in Workers
  PROVE  \/ worker'[v] = worker[v]
         \/ Claim(v) \/ PlaceAccepted(v) \/ PlaceUncertain(v) \/ PlaceRefused(v)
         \/ ~ HoldsClaim(v)'
<1>0. worker \in [Workers -> WorkerRecords] /\ worker[v] \in WorkerRecords
  BY DEF TypeOK
<1>1. ASSUME NEW w \in Workers, DispatchNext(w) \/ Exhaust(w), w # v
      PROVE  worker'[v] = worker[v]
  BY <1>0, <1>1 DEF DispatchNext, Exhaust, Start, ReuseAttempt, Reserve, ReserveRefused,
       ContactUnavailable, Claim, ClaimRefused, Expire, PlaceAccepted, PlaceUncertain,
       PlaceRefused, Bind, MarkRetry, MarkUncertain, Return, Crash, ExhaustRead,
       ExhaustList, ExhaustApply, Done, Goto, Become
<1>2. \A r : Become(v, r) => worker'[v] = r
  BY <1>0 DEF Become
<1>3. ASSUME NEW out, Done(v, out) PROVE ~ HoldsClaim(v)'
  BY <1>2, <1>3 DEF Done, IdleWorker, HoldsClaim
<1>4. CASE \/ ReserveRefused(v) \/ ContactUnavailable(v) \/ Expire(v) \/ Bind(v)
           \/ MarkRetry(v) \/ MarkUncertain(v)
  BY <1>3, <1>4 DEF ReserveRefused, ContactUnavailable, Expire, Bind, MarkRetry,
     MarkUncertain
<1>5. CASE \/ Start(v) \/ ReuseAttempt(v) \/ Reserve(v) \/ ClaimRefused(v)
           \/ Return(v) \/ Crash(v)
  <2> SUFFICES ASSUME ~ \E out : Done(v, out) PROVE ~ HoldsClaim(v)'
    BY <1>3
  <2>1. CASE Start(v) \/ ReuseAttempt(v) \/ Reserve(v)
    <3>1. worker'[v].pc \in {"reserve", "claim"}
      BY <1>0, <1>2, <2>1 DEF Start, ReuseAttempt, Reserve, WorkerRecords
    <3> QED
      BY <3>1 DEF HoldsClaim
  <2>2. CASE ClaimRefused(v)
    <3>1. worker'[v].pc = "expire"
      BY <1>0, <1>2, <2>2 DEF ClaimRefused, WorkerRecords
    <3> QED
      BY <3>1 DEF HoldsClaim
  <2>3. CASE Return(v) \/ Crash(v)
    <3>1. worker'[v] = IdleWorker
      BY <1>2, <2>3 DEF Return, Crash
    <3> QED
      BY <3>1 DEF HoldsClaim, IdleWorker
  <2> QED
    BY <1>5, <2>1, <2>2, <2>3
<1>6. CASE Exhaust(v)
  <2>1. \/ \E out : Done(v, out)
        \/ worker'[v].pc \in {"exhaust", "exhaust_list", "exhaust_apply"}
    BY <1>0, <1>2, <1>6 DEF Exhaust, ExhaustRead, ExhaustList, ExhaustApply,
       IdleWorker, WorkerRecords
  <2> QED
    BY <1>3, <2>1 DEF HoldsClaim
<1>7. ASSUME \/ \E h \in Handlers : Webhook(h)
             \/ \E o \in Operators : Cancel(o)
             \/ Tick \/ UNCHANGED vars
      PROVE  worker'[v] = worker[v]
  BY <1>7 DEF Webhook, Receive, RecordCallback, HandleCallback, RefuseCallback,
     Cancel, CancelRead, CancelList, CancelApply, Tick, processVars, vars
<1>8. CASE DispatchNext(v) \/ Exhaust(v)
  BY <1>4, <1>5, <1>6, <1>8 DEF DispatchNext
<1> QED
  BY <1>1, <1>7, <1>8 DEF CoordinatorNext

(* Where a worker stands after one of its claiming or dialling steps.      *)
LEMMA HolderPlaces ==
  ASSUME TypeOK, NEW v \in Workers
  PROVE  /\ Claim(v) =>
              /\ ClaimSubmission(worker[v].seq, v, worker[v].now,
                                 worker[v].now + ClaimTimeout)
              /\ worker[v].pc = "claim" /\ calls' = calls
              /\ worker'[v].pc = "place" /\ worker'[v].seq = worker[v].seq
              /\ worker'[v].att = attempts'[worker[v].seq]
              /\ \A w \in Workers \ {v} : worker'[w] = worker[w]
         /\ PlaceAccepted(v) \/ PlaceUncertain(v) \/ PlaceRefused(v) =>
              /\ worker[v].pc = "place" /\ submission' = submission
              /\ worker'[v].seq = worker[v].seq /\ worker'[v].att = worker[v].att
              /\ \A w \in Workers \ {v} : worker'[w] = worker[w]
         /\ PlaceAccepted(v) =>
              /\ worker'[v].pc = "bind" /\ worker'[v].ref = calls[worker[v].seq] + 1
              /\ calls' = [calls EXCEPT ![worker[v].seq] = @ + 1]
         /\ PlaceUncertain(v) => worker'[v].pc = "uncertain"
         /\ PlaceRefused(v) => worker'[v].pc = "retry" /\ calls' = calls
<1>0. worker \in [Workers -> WorkerRecords] /\ worker[v] \in WorkerRecords
  BY DEF TypeOK
<1>a. \A r : Become(v, r) => worker'[v] = r
  BY <1>0 DEF Become
<1>b. \A r : Become(v, r) => \A w \in Workers \ {v} : worker'[w] = worker[w]
  BY <1>0 DEF Become
<1>1. ASSUME Claim(v)
      PROVE  /\ ClaimSubmission(worker[v].seq, v, worker[v].now,
                                worker[v].now + ClaimTimeout)
             /\ worker[v].pc = "claim" /\ calls' = calls
             /\ worker'[v].pc = "place" /\ worker'[v].seq = worker[v].seq
             /\ worker'[v].att = attempts'[worker[v].seq]
             /\ \A w \in Workers \ {v} : worker'[w] = worker[w]
  <2>1. Become(v, [worker[v] EXCEPT !.pc = "place", !.case = case',
                                    !.att = attempts'[worker[v].seq]])
    BY <1>1 DEF Claim
  <2>2. /\ worker'[v].pc = "place" /\ worker'[v].seq = worker[v].seq
        /\ worker'[v].att = attempts'[worker[v].seq]
    BY <1>0, <1>a, <2>1 DEF WorkerRecords
  <2>3. \A w \in Workers \ {v} : worker'[w] = worker[w]
    BY <1>b, <2>1
  <2>4. /\ ClaimSubmission(worker[v].seq, v, worker[v].now,
                           worker[v].now + ClaimTimeout)
        /\ worker[v].pc = "claim" /\ calls' = calls
    BY <1>1 DEF Claim, providerVars
  <2> QED
    BY <2>2, <2>3, <2>4
<1>2. ASSUME PlaceAccepted(v)
      PROVE  /\ worker[v].pc = "place" /\ submission' = submission
             /\ worker'[v].seq = worker[v].seq /\ worker'[v].att = worker[v].att
             /\ \A w \in Workers \ {v} : worker'[w] = worker[w]
             /\ worker'[v].pc = "bind" /\ worker'[v].ref = calls[worker[v].seq] + 1
             /\ calls' = [calls EXCEPT ![worker[v].seq] = @ + 1]
  <2>1. /\ Become(v, [worker[v] EXCEPT !.pc = "bind",
                                       !.ref = calls[worker[v].seq] + 1])
        /\ calls' = [calls EXCEPT ![worker[v].seq] = @ + 1]
        /\ worker[v].pc = "place" /\ submission' = submission
    BY <1>2 DEF PlaceAccepted, repositoryVars
  <2>2. /\ worker'[v].pc = "bind" /\ worker'[v].ref = calls[worker[v].seq] + 1
        /\ worker'[v].seq = worker[v].seq /\ worker'[v].att = worker[v].att
    BY <1>0, <1>a, <2>1 DEF WorkerRecords
  <2>3. \A w \in Workers \ {v} : worker'[w] = worker[w]
    BY <1>b, <2>1
  <2> QED
    BY <2>1, <2>2, <2>3
<1>3. ASSUME PlaceUncertain(v)
      PROVE  /\ worker[v].pc = "place" /\ submission' = submission
             /\ worker'[v].seq = worker[v].seq /\ worker'[v].att = worker[v].att
             /\ \A w \in Workers \ {v} : worker'[w] = worker[w]
             /\ worker'[v].pc = "uncertain"
  BY <1>0, <1>a, <1>b, <1>3 DEF PlaceUncertain, Goto, WorkerRecords, repositoryVars
<1>4. ASSUME PlaceRefused(v)
      PROVE  /\ worker[v].pc = "place" /\ submission' = submission
             /\ worker'[v].seq = worker[v].seq /\ worker'[v].att = worker[v].att
             /\ \A w \in Workers \ {v} : worker'[w] = worker[w]
             /\ worker'[v].pc = "retry" /\ calls' = calls
  BY <1>0, <1>a, <1>b, <1>4 DEF PlaceRefused, Goto, WorkerRecords, repositoryVars,
     providerVars
<1> QED
  BY <1>1, <1>2, <1>3, <1>4, Zenon

LEMMA OtherHolders ==
  ASSUME DispatchInv, TypeOK', Kind, NEW v \in Workers, worker'[v] = worker[v]
  PROVE  HolderInv(v)'
<1> DEFINE i == worker[v].seq
<1>0. /\ TypeOK /\ worker[v] \in WorkerRecords /\ i \in Sequences3
      /\ HolderInv(v) /\ calls[i] \in Nat /\ worker[v].ref \in Nat
      /\ calls \in [Sequences3 -> Nat]
      /\ submission \in [Sequences3 -> SubmissionRecords]
  BY DEF DispatchInv, TypeOK, WorkerRecords, RepositoryTypeOK
<1>1. ASSUME HoldsClaim(v) => submission'[i].state # "pending", calls'[i] = calls[i]
      PROVE  HolderInv(v)'
  BY <1>0, <1>1 DEF HolderInv, HoldsClaim
<1>2. CASE Quiet
  BY <1>0, <1>1, <1>2 DEF Quiet, HolderInv
<1>3. ASSUME NEW w \in Workers, Dialled(w) PROVE HolderInv(v)'
  <2>0. v # w
    BY <1>3 DEF Dialled
  <2>1. CASE HoldsClaim(v)
    <3>1. i # worker[w].seq
      BY <1>3, <2>0, <2>1 DEF Dialled, DispatchInv, OneHolder, HoldsClaim
    <3>2. calls'[i] = calls[i]
      BY <1>0, <1>3, <3>1 DEF Dialled
    <3> QED
      BY <1>0, <1>1, <1>3, <3>2 DEF Dialled, HolderInv
  <2>2. CASE ~ HoldsClaim(v)
    BY <2>2 DEF HolderInv, HoldsClaim
  <2> QED
    BY <2>1, <2>2
<1>4. ASSUME NEW w \in Workers, Reserve(w) PROVE HolderInv(v)'
  <2>1. /\ calls' = calls /\ RowInv(case.count + 1)
        /\ submission' = [submission EXCEPT ![case.count + 1] = NoClaim]
        /\ case.count \in 0..3 /\ case.count < 3
    BY <1>0, <1>4 DEF Reserve, ReserveNextAttempt, CanReserve, providerVars,
       DispatchInv, TypeOK, RepositoryTypeOK, CaseRecords, Sequences3
  <2>2. HoldsClaim(v) => i # case.count + 1
    BY <1>0, <2>1 DEF HolderInv, RowInv
  <2>3. HoldsClaim(v) => submission'[i] = submission[i]
    BY <1>0, <2>1, <2>2
  <2> QED
    BY <1>0, <1>1, <2>1, <2>3 DEF HolderInv
<1>5. ASSUME NEW w \in Workers, Claim(w) PROVE HolderInv(v)'
  <2>1. /\ calls' = calls
        /\ \/ submission'[i].state = "claimed"
           \/ submission'[i] = submission[i]
    BY <1>0, <1>5 DEF Claim, ClaimSubmission, providerVars
  <2> QED
    BY <1>0, <1>1, <2>1 DEF HolderInv
<1>6. CASE Swapped /\ ClaimsKept
  BY <1>0, <1>1, <1>6 DEF Swapped, ClaimsKept, HolderInv
<1>7. ASSUME NEW w \in Workers, MarkRetry(w), worker[w].pc = "retry", Swapped,
             GivenBack(worker[w].seq)
      PROVE  HolderInv(v)'
  <2>1. worker'[w].pc = "done"
    BY <1>0, <1>7 DEF MarkRetry, Done, Become, IdleWorker, TypeOK
  <2>2. v # w
    BY <1>7, <2>1
  <2>3. HoldsClaim(v) => i # worker[w].seq
    BY <1>7, <2>2 DEF DispatchInv, OneHolder, HoldsClaim
  <2>4. HoldsClaim(v) => submission'[i] = submission[i]
    BY <1>0, <1>7, <2>3 DEF GivenBack
  <2> QED
    BY <1>0, <1>1, <1>7, <2>4 DEF Swapped, HolderInv
<1> QED
  BY <1>2, <1>3, <1>4, <1>5, <1>6, <1>7 DEF Kind

LEMMA HolderStep ==
  ASSUME DispatchInv, TypeOK', Kind, [CoordinatorNext]_vars, NEW v \in Workers
  PROVE  HolderInv(v)'
<1>0. PICK i \in Sequences3 : i = worker[v].seq
  BY DEF DispatchInv, TypeOK, WorkerRecords
<1>1. /\ TypeOK /\ worker[v] \in WorkerRecords /\ calls[i] \in Nat
      /\ HolderInv(v) /\ RowInv(i)'
      /\ calls \in [Sequences3 -> Nat]
      /\ submission \in [Sequences3 -> SubmissionRecords]
  BY RowStep DEF DispatchInv, TypeOK, RepositoryTypeOK
<1>2. CASE worker'[v] = worker[v]
  BY <1>2, OtherHolders
<1>3. CASE Claim(v)
  <2>1. /\ submission[i].state = "pending" /\ submission'[i].state = "claimed"
        /\ calls' = calls
    BY <1>0, <1>1, <1>3 DEF Claim, ClaimSubmission, CanClaim, providerVars
  <2>2. calls[i] = 0
    BY <2>1 DEF DispatchInv, RowInv
  <2> QED
    BY <1>0, <1>1, <1>3, <2>1, <2>2, HolderPlaces DEF HolderInv, RowInv
<1>4. CASE PlaceAccepted(v)
  <2>1. calls'[i] = calls[i] + 1 /\ worker'[v].ref = calls[i] + 1
    BY <1>0, <1>1, <1>4, HolderPlaces
  <2>2. worker'[v].ref \in 1..calls'[i]
    BY <1>1, <2>1
  <2> QED
    BY <1>0, <1>1, <1>4, <2>2, HolderPlaces DEF HolderInv, HoldsClaim
<1>5. CASE PlaceUncertain(v)
  BY <1>0, <1>1, <1>5, HolderPlaces DEF HolderInv, HoldsClaim
<1>6. CASE PlaceRefused(v)
  BY <1>0, <1>1, <1>6, HolderPlaces DEF HolderInv, HoldsClaim
<1>7. CASE ~ HoldsClaim(v)'
  BY <1>7 DEF HolderInv, HoldsClaim
<1> QED
  BY <1>1, <1>2, <1>3, <1>4, <1>5, <1>6, <1>7, HolderMoves

LEMMA OneHolderStep ==
  ASSUME DispatchInv, TypeOK', Kind, [CoordinatorNext]_vars
  PROVE  OneHolder'
<1> SUFFICES ASSUME NEW v \in Workers, NEW w \in Workers, v # w,
                    HoldsClaim(v)', HoldsClaim(w)', worker'[v].seq = worker'[w].seq
             PROVE  FALSE
  BY DEF OneHolder
<1>0. TypeOK
  BY DEF DispatchInv
<1>1. ASSUME NEW u \in Workers, HoldsClaim(u)', ~ Claim(u)
      PROVE  HoldsClaim(u) /\ worker'[u].seq = worker[u].seq
  BY <1>0, <1>1, HolderMoves, HolderPlaces DEF HoldsClaim
<1>2. ASSUME NEW u \in Workers, NEW x \in Workers, u # x, Claim(u), HoldsClaim(x)',
             worker'[u].seq = worker'[x].seq
      PROVE  FALSE
  <2>1. /\ worker'[x] = worker[x] /\ worker'[u].seq = worker[u].seq
        /\ submission[worker[u].seq].state = "pending"
    <3>1. submission[worker[u].seq].state = "pending"
      BY <1>2 DEF Claim, ClaimSubmission, CanClaim
    <3> QED
      BY <1>0, <1>2, <3>1, HolderPlaces
  <2>2. HoldsClaim(x) /\ worker[x].seq = worker[u].seq
    BY <1>2, <2>1 DEF HoldsClaim
  <2> QED
    BY <2>1, <2>2 DEF DispatchInv, HolderInv
<1> QED
  BY <1>1, <1>2 DEF DispatchInv, OneHolder

-----------------------------------------------------------------------------
LEMMA DispatchInvInit == CoordinatorInit => DispatchInv
<1> SUFFICES ASSUME CoordinatorInit PROVE DispatchInv
  OBVIOUS
<1>1. TypeOK
  BY TypeInit
<1>2. \A i \in Sequences3 : RowInv(i)
  BY DEF CoordinatorInit, RepositoryInit, RowInv, NoClaim
<1>3. Backed(IdleWorker) /\ BackedCallback(IdleHandler) /\ Backed(IdleCanceler)
  BY DEF CoordinatorInit, RepositoryInit, Backed, BackedCallback, Live, Fresh, Known,
     Placed, IdleWorker, IdleHandler, IdleCanceler, NoCase, NoAttempt, Closed,
     CaseTerminal, Sequences3
<1>4. SnapshotInv
  BY <1>3 DEF CoordinatorInit, RepositoryInit, SnapshotInv
<1>5. \A w \in Workers : worker[w].pc = "idle"
  BY DEF CoordinatorInit, IdleWorker
<1> QED
  BY <1>1, <1>2, <1>4, <1>5 DEF DispatchInv, HolderInv, OneHolder, HoldsClaim

LEMMA DispatchInvStep == DispatchInv /\ [CoordinatorNext]_vars => DispatchInv'
<1> SUFFICES ASSUME DispatchInv, [CoordinatorNext]_vars PROVE DispatchInv'
  OBVIOUS
<1>1. TypeOK'
  BY TypeStep DEF DispatchInv
<1>2. Kind
  BY StepKinds
<1> QED
  BY <1>1, <1>2, RowStep, SnapshotStep, HolderStep, OneHolderStep DEF DispatchInv

(* The inductive invariant holds in every reachable state.                 *)
THEOREM DispatchInvariant == Spec => []DispatchInv
  BY DispatchInvInit, DispatchInvStep, PTL DEF Spec

(* For any number of workers, redeliveries, crashes and provider retries,  *)
(* the provider accepts at most one call for each reserved attempt and     *)
(* none for another: claim_provider_submission and its finishers keep a    *)
(* physical call from being placed twice.                                  *)
THEOREM OneCallPerAttempt == Spec => []CallOncePerAttempt
<1>1. DispatchInv => CallOncePerAttempt
  BY DEF DispatchInv, RowInv, CallOncePerAttempt, TypeOK, RepositoryTypeOK, CaseRecords,
     Sequences3
<1> QED
  BY <1>1, DispatchInvariant, PTL

(* No stale reader reopens a closed case or rewrites how it was closed,    *)
(* but for the late press that settles an unacknowledged one.              *)
THEOREM ClosedStaysClosed == Spec => ClosedCaseIsFinal
<1>1. DispatchInv /\ [CoordinatorNext]_vars
        => [Closed(case) => \/ case'.status = case.status
                            \/ /\ case.status = "unacknowledged"
                               /\ case'.status \in {"acknowledged", "manual_follow_up"}]_vars
  <2> SUFFICES ASSUME DispatchInv, [CoordinatorNext]_vars, Closed(case)
               PROVE  \/ case'.status = case.status
                      \/ /\ case.status = "unacknowledged"
                         /\ case'.status \in {"acknowledged", "manual_follow_up"}
    OBVIOUS
  <2>1. Kind
    BY StepKinds
  <2>2. ASSUME NEW w \in Workers PROVE ~ Reserve(w) /\ ~ Claim(w)
    BY DEF Reserve, ReserveNextAttempt, CanReserve, Claim, ClaimSubmission, CanClaim
  <2> QED
    BY <2>1, <2>2 DEF Kind, Quiet, Dialled, Swapped
<1> QED
  BY <1>1, DispatchInvariant, PTL DEF Spec, ClosedCaseIsFinal

(* A claim is handed back only when no call was accepted under it, and     *)
(* nobody takes it from its holder.                                        *)
THEOREM RetriesAreSafe == Spec => RetryOnlyCertainFailure
<1> DEFINE Safe ==
      \A i \in Sequences3 : submission[i].state # "pending" =>
        /\ submission'[i].state = "pending" => calls[i] = 0 /\ ~ Bound(i)
        /\ submission'[i].state = "claimed" => submission'[i] = submission[i]
<1>1. DispatchInv /\ [CoordinatorNext]_vars => Safe
  <2> SUFFICES ASSUME DispatchInv, [CoordinatorNext]_vars, NEW i \in Sequences3,
                      submission[i].state # "pending"
               PROVE  /\ submission'[i].state = "pending" => calls[i] = 0 /\ ~ Bound(i)
                      /\ submission'[i].state = "claimed" => submission'[i] = submission[i]
    OBVIOUS
  <2>0. /\ TypeOK /\ submission \in [Sequences3 -> SubmissionRecords] /\ RowInv(i)
        /\ case.count \in 0..3 /\ calls[i] \in Nat /\ attempts[i].ref \in Nat
    BY DEF DispatchInv, TypeOK, RepositoryTypeOK, CaseRecords, AttemptRecords
  <2>1. Kind
    BY StepKinds
  <2>2. CASE submission'[i] = submission[i]
    BY <2>2
  <2>3. ASSUME NEW w \in Workers, Reserve(w) PROVE submission'[i] = submission[i]
    <3>1. i # case.count + 1
      BY <2>0 DEF RowInv
    <3> QED
      BY <2>0, <2>3, <3>1 DEF Reserve, ReserveNextAttempt
  <2>4. ASSUME NEW w \in Workers, Claim(w) PROVE submission'[i] = submission[i]
    BY <2>0, <2>4 DEF Claim, ClaimSubmission, CanClaim
  <2>5. CASE ClaimsKept
    BY <2>5 DEF ClaimsKept
  <2>6. ASSUME NEW w \in Workers, GivenBack(worker[w].seq)
        PROVE  \/ submission'[i] = submission[i]
               \/ submission'[i].state = "pending" /\ calls[i] = 0 /\ ~ Bound(i)
    BY <2>0, <2>6 DEF GivenBack, NoClaim, RowInv, Bound
  <2> QED
    BY <2>1, <2>2, <2>3, <2>4, <2>5, <2>6 DEF Kind, Quiet, Dialled
<1>2. DispatchInv /\ [CoordinatorNext]_vars => [Safe]_vars
  BY <1>1
<1>3. Spec => [][Safe]_vars
  BY <1>2, DispatchInvariant, PTL DEF Spec
<1> QED
  BY <1>3 DEF RetryOnlyCertainFailure

=============================================================================
