----------------------- MODULE DispatchLadderProofs -----------------------
(***************************************************************************)
(* DispatchCoordinator implements Escalation, and the rows of a case and   *)
(* of its attempts agree and only move forward.                            *)
(*                                                                         *)
(* Beyond the safety invariant the mapping of steps needs to know that the *)
(* rungs below the last one have been dialled and, while the case is open, *)
(* have gone unanswered; and that what a webhook request or an operator    *)
(* has read is still the attempt's row as long as the case has not moved.  *)
(* Agreement of the rows needs as much of the workers, and to know what    *)
(* each kind of step writes (Deed, in the second part).                    *)
(***************************************************************************)
EXTENDS DispatchSafetyProofs

RungInv(i) ==
  /\ attempts[i].status = "unacknowledged" => attempts[i].ref # 0
  /\ i < case.count => /\ calls[i] = 1
                       /\ attempts[i].status \notin AttemptActive
                       /\ ~ Closed(case) => attempts[i].status = "unacknowledged"
  /\ i = case.count /\ ~ Closed(case)
       => attempts[i].status \in AttemptActive \cup {"unacknowledged"}

\* The attempt that was read with, or after, a case that has not moved.
Paired(r) ==
  r.case.version = case.version => r.att = NoAttempt \/ r.att = attempts[r.att.sequence]

ReadInv ==
  /\ \A h \in Handlers : Paired(handler[h])
                         /\ (handler[h].pc = "apply" => handler[h].att.ref # 0)
  /\ \A o \in Operators :
       /\ Paired(canceler[o])
       /\ canceler[o].att = NoAttempt \/ /\ canceler[o].pc = "apply"
                                         /\ canceler[o].att.status \in AttemptActive

LadderInv == /\ DispatchInv
             /\ \A i \in Sequences3 : RungInv(i)
             /\ ReadInv

-----------------------------------------------------------------------------
(* What a step does to the ladder.  Others(i): no row but attempt i's and  *)
(* the case's has changed, and the ladder position has not.                *)

Others(i) == /\ calls' = calls
             /\ case'.count = case.count
             /\ \A j \in Sequences3 \ {i} : attempts'[j] = attempts[j]
GoesOn(i) == /\ Others(i)
             /\ ~ Closed(case) /\ ~ Closed(case')
             /\ attempts[i].status # "unacknowledged"
             /\ attempts'[i].status \in AttemptActive
Missed(i) == /\ Others(i)
             /\ ~ Closed(case)
             /\ case'.status = NextRung[i]
             /\ attempts[i].status # "unacknowledged"
             /\ attempts'[i].status = "unacknowledged"
             /\ attempts'[i].ref # 0
Settled(i) == /\ Others(i)
              /\ Closed(case) => case.status = "unacknowledged" /\ calls[i] = 1
              /\ case'.status \in {"acknowledged", "manual_follow_up"}
              /\ case'.status = "acknowledged" => calls[i] = 1
              /\ attempts'[i].status = case'.status
Withdrawn(i) == /\ Others(i)
                /\ ~ Closed(case)
                /\ case'.status = "canceled"
                /\ attempts[i].status # "unacknowledged"
                /\ attempts'[i].status = "canceled"
GivenUp == /\ ~ Closed(case)
           /\ case'.status \in {"manual_follow_up", "canceled"}
           /\ case'.count = case.count
           /\ UNCHANGED <<attempts, calls>>

Move == \/ Quiet
        \/ \E w \in Workers : Dialled(w) \/ Reserve(w) \/ Claim(w)
        \/ \E i \in Sequences3 : GoesOn(i) \/ Missed(i) \/ Settled(i) \/ Withdrawn(i)
        \/ GivenUp

LEMMA StoreRow ==
  ASSUME TypeOK, NEW nc, NEW na, NEW i \in Sequences3, na.sequence = i, Store(nc, na)
  PROVE  /\ case' = nc
         /\ attempts'[i] = na
         /\ \A j \in Sequences3 \ {i} : attempts'[j] = attempts[j]
  BY DEF Store, TypeOK, RepositoryTypeOK

(* A transition to a human, from rows of an open case, settles it.         *)
LEMMA ManualMove ==
  ASSUME TypeOK, NEW c \in CaseRecords, NEW a \in AttemptRecords,
         Live(c), case.version = c.version,
         Store(ManualCase(c), ManualAttempt(a)), calls' = calls
  PROVE  Move
<1>1. c = case /\ ~ Closed(case)
  BY DEF Live, Fresh, TypeOK, RepositoryTypeOK, CaseRecords
<1>2. PICK i \in Sequences3 : i = a.sequence
  BY DEF AttemptRecords
<1>3. ManualAttempt(a).sequence = i /\ ManualAttempt(a).status = "manual_follow_up"
  BY <1>2 DEF ManualAttempt, AttemptRecords
<1>4. /\ ManualCase(c).count = c.count /\ ManualCase(c).status = "manual_follow_up"
  BY DEF ManualCase, CaseRecords
<1>5. Settled(i)
  BY <1>1, <1>3, <1>4, StoreRow DEF Settled, Others
<1> QED
  BY <1>5 DEF Move

LEMMA CaseMove ==
  ASSUME TypeOK, NEW c \in CaseRecords, Live(c), NEW nc, nc.count = c.count,
         nc.status \in {"manual_follow_up", "canceled"},
         ApplyCaseTransition(c, nc), calls' = calls
  PROVE  Move
<1>1. c = case /\ ~ Closed(case)
  BY DEF Live, Fresh, ApplyCaseTransition, TypeOK, RepositoryTypeOK, CaseRecords
<1> QED
  BY <1>1 DEF GivenUp, Move, ApplyCaseTransition

(* The first reference of a call takes its attempt on.                     *)
LEMMA BindMove ==
  ASSUME LadderInv, NEW i \in Sequences3, NEW k, BindCall(i, k), calls' = calls
  PROVE  Move
<1>1. TypeOK /\ RungInv(i)
  BY DEF LadderInv, DispatchInv
<1>2. /\ case'.status = "dialing" /\ case'.count = case.count
      /\ attempts'[i].status = "initiated"
      /\ \A j \in Sequences3 \ {i} : attempts'[j] = attempts[j]
  BY <1>1 DEF BindCall, TypeOK, RepositoryTypeOK, CaseRecords, AttemptRecords
<1>3. ~ Closed(case) /\ ~ Closed(case') /\ attempts[i].status # "unacknowledged"
  BY <1>1, <1>2 DEF BindCall, CanBind, Bound, RungInv, Closed, CaseTerminal
<1>4. GoesOn(i)
  BY <1>2, <1>3 DEF GoesOn, Others, AttemptActive
<1> QED
  BY <1>4 DEF Move

LEMMA DispatchMoves ==
  ASSUME LadderInv, NEW w \in Workers, DispatchNext(w)
  PROVE  Move
<1> DEFINE c == worker[w].case
           a == worker[w].att
<1>0. /\ worker[w] \in WorkerRecords
      /\ c \in CaseRecords /\ a \in AttemptRecords
      /\ worker[w].seq \in Sequences3
      /\ Live(c) /\ TypeOK /\ DispatchInv
  BY DEF LadderInv, DispatchInv, TypeOK, WorkerRecords, SnapshotInv, Backed
<1>q. ASSUME UNCHANGED repositoryVars, UNCHANGED calls PROVE Move
  BY <1>q DEF repositoryVars, Quiet, Move
<1>2. CASE \/ Start(w) \/ ReuseAttempt(w) \/ ReserveRefused(w) \/ ContactUnavailable(w)
           \/ ClaimRefused(w) \/ PlaceRefused(w) \/ Return(w) \/ Crash(w)
  BY <1>2, <1>q DEF Start, ReuseAttempt, ReserveRefused, ContactUnavailable,
     ClaimRefused, PlaceRefused, Return, Crash, providerVars
<1>3. CASE Reserve(w) \/ Claim(w)
  BY <1>3 DEF Move
<1>4. CASE PlaceAccepted(w)
  <2>1. worker'[w].pc = "bind"
    BY <1>0, <1>4 DEF PlaceAccepted, Become, DispatchInv, TypeOK, WorkerRecords
  <2> QED
    BY <1>4, <2>1 DEF PlaceAccepted, Dialled, Move, repositoryVars
<1>5. CASE PlaceUncertain(w)
  <2>1. worker'[w].pc = "uncertain"
    BY <1>0, <1>5 DEF PlaceUncertain, Goto, Become, DispatchInv, TypeOK, WorkerRecords
  <2> QED
    BY <1>5, <2>1 DEF PlaceUncertain, Dialled, Move, repositoryVars
<1>6. CASE Expire(w)
  <2>1. CASE UNCHANGED repositoryVars
    BY <1>6, <2>1, <1>q DEF Expire, providerVars
  <2>2. CASE ExpireSubmission(c, a, worker[w].now, ManualCase(c), ManualAttempt(a))
    <3>1. /\ Store(ManualCase(c), ManualAttempt(a))
          /\ case.version = c.version /\ calls' = calls
      BY <1>6, <2>2 DEF Expire, ExpireSubmission, CanExpire, Unchanged, providerVars
    <3> QED
      BY <1>0, <3>1, ManualMove
  <2> QED
    BY <1>6, <2>1, <2>2 DEF Expire
<1>7. CASE Bind(w)
  <2>1. CASE UNCHANGED repositoryVars
    BY <1>7, <2>1, <1>q DEF Bind, providerVars
  <2>2. CASE BindCall(worker[w].seq, worker[w].ref)
    BY <1>0, <1>7, <2>2, BindMove DEF Bind, providerVars
  <2> QED
    BY <1>7, <2>1, <2>2 DEF Bind, Resolve
<1>8. CASE MarkRetry(w)
  <2> DEFINE nc == RetryCase(c, worker[w].now)
             na == RetryAttempt(a)
  <2>1. CASE UNCHANGED repositoryVars
    BY <1>8, <2>1, <1>q DEF MarkRetry, providerVars
  <2>2. CASE FinishSubmission(w, c, a, nc, na, NoClaim)
    <3>1. /\ Store(nc, na) /\ case.version = c.version /\ calls' = calls
          /\ worker[w].pc = "retry"
      BY <1>8, <2>2 DEF MarkRetry, FinishSubmission, CanFinish, Unchanged, providerVars
    <3>2. PICK i \in Sequences3 : i = worker[w].seq
      BY <1>0
    <3>3. a.sequence = i /\ calls[i] = 0 /\ RowInv(i) /\ RungInv(i)
      BY <3>1, <3>2 DEF LadderInv, DispatchInv, HolderInv, HoldsClaim
    <3>4. attempts[i].status # "unacknowledged"
      BY <1>0, <3>3 DEF RowInv, RungInv, TypeOK, RepositoryTypeOK, AttemptRecords
    <3>5. c = case /\ ~ Closed(case)
      BY <1>0, <3>1 DEF Live, Fresh, TypeOK, RepositoryTypeOK, CaseRecords
    <3>6. na.sequence = i /\ na.status = "provider_retry"
      BY <1>0, <3>3 DEF RetryAttempt, AttemptRecords
    <3>7. nc.count = c.count /\ nc.status = "provider_retry"
      BY <1>0 DEF RetryCase, CaseRecords
    <3> HIDE DEF nc, na
    <3>8. GoesOn(i)
      BY <1>0, <3>1, <3>4, <3>5, <3>6, <3>7, StoreRow
         DEF GoesOn, Others, AttemptActive, Closed, CaseTerminal
    <3> QED
      BY <3>8 DEF Move
  <2> QED
    BY <1>8, <2>1, <2>2 DEF MarkRetry
<1>9. CASE MarkUncertain(w)
  <2> DEFINE next == [submission[a.sequence] EXCEPT !.state = "uncertain"]
  <2>1. CASE UNCHANGED repositoryVars
    BY <1>9, <2>1, <1>q DEF MarkUncertain, providerVars
  <2>2. CASE FinishSubmission(w, c, a, ManualCase(c), ManualAttempt(a), next)
    <3>1. /\ Store(ManualCase(c), ManualAttempt(a))
          /\ case.version = c.version /\ calls' = calls
      BY <1>9, <2>2
         DEF MarkUncertain, FinishSubmission, CanFinish, Unchanged, providerVars
    <3> QED
      BY <1>0, <3>1, ManualMove
  <2> QED
    BY <1>9, <2>1, <2>2 DEF MarkUncertain
<1> QED
  BY <1>2, <1>3, <1>4, <1>5, <1>6, <1>7, <1>8, <1>9 DEF DispatchNext

LEMMA ExhaustMoves ==
  ASSUME LadderInv, NEW w \in Workers, Exhaust(w)
  PROVE  Move
<1> DEFINE c == worker[w].case
           a == worker[w].att
<1>0. /\ c \in CaseRecords /\ a \in AttemptRecords /\ Live(c) /\ TypeOK
  BY DEF LadderInv, DispatchInv, TypeOK, WorkerRecords, SnapshotInv, Backed
<1>1. CASE UNCHANGED repositoryVars /\ UNCHANGED calls
  BY <1>1 DEF repositoryVars, Quiet, Move
<1>2. CASE ExhaustRead(w) \/ ExhaustList(w)
  BY <1>1, <1>2 DEF ExhaustRead, ExhaustList, providerVars
<1>3. CASE ExhaustApply(w)
  <2>0. calls' = calls
    BY <1>3 DEF ExhaustApply, providerVars
  <2>1. CASE UNCHANGED repositoryVars
    BY <1>1, <2>0, <2>1
  <2>2. CASE ApplyCaseTransition(c, ManualCase(c))
    <3>1. ManualCase(c).count = c.count /\ ManualCase(c).status = "manual_follow_up"
      BY <1>0 DEF ManualCase, CaseRecords
    <3> QED
      BY <1>0, <2>0, <2>2, <3>1, CaseMove
  <2>3. CASE ApplyTransition(c, a, ManualCase(c), ManualAttempt(a))
    BY <1>0, <2>0, <2>3, ManualMove DEF ApplyTransition, Unchanged
  <2> QED
    BY <1>3, <2>1, <2>2, <2>3 DEF ExhaustApply
<1> QED
  BY <1>2, <1>3 DEF Exhaust

(* The row a callback is applied to is the one its request has read.       *)
LEMMA WebhookReads ==
  ASSUME LadderInv, NEW h \in Handlers, handler[h].pc = "apply",
         case.version = handler[h].case.version
  PROVE  /\ handler[h].case = case
         /\ handler[h].att.sequence \in 1..case.count
         /\ handler[h].att = attempts[handler[h].att.sequence]
         /\ handler[h].att.ref # 0
         /\ calls[handler[h].att.sequence] = 1
<1> DEFINE r == handler[h]
<1>0. /\ TypeOK /\ r.case \in CaseRecords /\ r.att \in AttemptRecords
      /\ BackedCallback(r) /\ Paired(r) /\ r.att.ref # 0
  BY DEF LadderInv, DispatchInv, TypeOK, HandlerRecords, SnapshotInv, ReadInv
<1>1. r.case = case
  BY <1>0 DEF BackedCallback, Fresh, TypeOK, RepositoryTypeOK, CaseRecords
<1>2. r.att = attempts[r.att.sequence]
  BY <1>0 DEF Paired, NoAttempt
<1>3. PICK i \in Sequences3 : i = r.att.sequence
  BY <1>0 DEF AttemptRecords
<1>4. i <= case.count /\ r.att.ref <= calls[i] /\ calls[i] <= 1
  BY <1>0, <1>3 DEF BackedCallback, Placed, LadderInv, DispatchInv, RowInv
<1>5. calls[i] \in Nat /\ r.att.ref \in Nat /\ case.count \in Nat /\ i \in 1..3
  BY <1>0, <1>3 DEF TypeOK, RepositoryTypeOK, CaseRecords, AttemptRecords, Sequences3
<1>6. calls[i] = 1 /\ i \in 1..case.count
  BY <1>0, <1>4, <1>5
<1> QED
  BY <1>0, <1>1, <1>2, <1>3, <1>6

LEMMA WebhookMoves ==
  ASSUME LadderInv, NEW h \in Handlers, Webhook(h)
  PROVE  Move
<1> DEFINE c == handler[h].case
           a == handler[h].att
           v == handler[h].value
           nc == CallbackCase(c, a, v, handler[h].now)
           na == CallbackAttempt(a, v)
<1>0. c \in CaseRecords /\ a \in AttemptRecords /\ v \in CallbackValues /\ TypeOK
  BY DEF LadderInv, DispatchInv, TypeOK, HandlerRecords
<1>1. CASE UNCHANGED <<case, attempts, submission, calls>>
  BY <1>1 DEF Quiet, Move
<1>2. ASSUME NEW i \in Sequences3, NEW k \in 1..calls[i], NEW x \in Callbacks,
             Receive(h, i, k, x)
      PROVE  Move
  <2>1. calls' = calls
    BY <1>2 DEF Receive
  <2>2. CASE BindCall(i, k)
    BY <2>1, <2>2, BindMove
  <2>3. CASE UNCHANGED repositoryVars
    BY <1>1, <2>1, <2>3 DEF repositoryVars
  <2> QED
    BY <1>2, <2>2, <2>3 DEF Receive, Resolve
<1>3. CASE RecordCallback(h) \/ RefuseCallback(h)
  BY <1>1, <1>3 DEF RecordCallback, RefuseCallback, AppendEvent, providerVars,
     repositoryVars
<1>4. CASE HandleCallback(h)
  <2>1. /\ Store(nc, na) /\ calls' = calls /\ ~ OnlyRecorded(c, a, v)
        /\ c = case /\ a = attempts[a.sequence] /\ a.ref # 0
        /\ calls[a.sequence] = 1
    BY <1>4, WebhookReads DEF HandleCallback, ApplyCallback, Unchanged, providerVars
  <2>2. PICK i \in Sequences3 : i = a.sequence
    BY <1>0 DEF AttemptRecords
  <2>3. /\ nc.count = case.count /\ na.sequence = i /\ na.ref = a.ref
    BY <1>0, <2>1, <2>2, RowFacts DEF Follows, SameCall
  <2>4. CASE v \in ProgressValues
    <3>1. /\ a.status \notin AttemptTerminal /\ ~ Closed(case)
      BY <2>1, <2>4 DEF OnlyRecorded, ProgressValues, DigitValues
    <3>2. na = ProgressAttempt(a, v) /\ nc = ProgressCase(c, a, v)
      BY <2>4 DEF CallbackAttempt, CallbackCase, ProgressValues, DigitValues
    <3>3. na.status \in AttemptActive
      <4>1. na.status = ProgressStatus(a.status, v)
        BY <1>0, <3>2 DEF ProgressAttempt, AttemptRecords
      <4>2. a.status \in AttemptActive \cup {"unreserved"}
        BY <1>0, <3>1 DEF AttemptRecords, AttemptStatuses
      <4>3. Progressed(v) \in {"initiated", "ringing", "answered"}
        BY <2>4 DEF ProgressValues, Progressed
      <4>4. Rank(a.status) = 0 \/ a.status \in {"initiated", "ringing", "answered"}
        BY DEF Rank
      <4>5. Rank(Progressed(v)) > 0
        BY <4>3 DEF Rank
      <4>6. CASE a.status = "unreserved"
        BY <4>1, <4>3, <4>5, <4>6 DEF ProgressStatus, AttemptActive, Rank
      <4>7. CASE a.status \in AttemptActive
        BY <4>1, <4>3, <4>7 DEF ProgressStatus, AttemptActive
      <4> QED
        BY <4>2, <4>6, <4>7
    <3>4. nc.status \in {"awaiting_acknowledgement", "dialing"}
      BY <1>0, <3>2 DEF ProgressCase, CaseRecords
    <3> HIDE DEF nc, na
    <3>5. GoesOn(i)
      BY <1>0, <2>1, <2>2, <2>3, <3>1, <3>3, <3>4, StoreRow
         DEF GoesOn, Others, AttemptTerminal, Closed, CaseTerminal
    <3> QED
      BY <3>5 DEF Move
  <2>5. CASE v \in DigitValues
    <3>1. Closed(case) => case.status = "unacknowledged"
      BY <2>1, <2>5 DEF OnlyRecorded, Closed
    <3>2. na = GatherAttempt(a, v) /\ nc = GatherCase(c, v)
      BY <2>5 DEF CallbackAttempt, CallbackCase, ProgressValues, DigitValues
    <3>3. na.status = GatherStatus(v) /\ nc.status = GatherStatus(v)
      BY <1>0, <3>2 DEF GatherAttempt, GatherCase, AttemptRecords, CaseRecords
    <3>4. GatherStatus(v) \in {"acknowledged", "manual_follow_up"}
      BY DEF GatherStatus
    <3> HIDE DEF nc, na
    <3>5. Settled(i)
      BY <1>0, <2>1, <2>2, <2>3, <3>1, <3>3, <3>4, StoreRow DEF Settled, Others
    <3> QED
      BY <3>5 DEF Move
  <2>6. CASE v \notin ProgressValues \cup DigitValues
    <3>1. ~ Closed(case) /\ a.status # "unacknowledged"
      BY <2>1, <2>6 DEF OnlyRecorded, AttemptTerminal
    <3>2. na = UnacknowledgedAttempt(a) /\ nc = UnacknowledgedCase(c, a, handler[h].now)
      BY <2>6 DEF CallbackAttempt, CallbackCase
    <3>3. na.status = "unacknowledged" /\ nc.status = NextRung[i]
      BY <1>0, <2>2, <3>2
         DEF UnacknowledgedAttempt, UnacknowledgedCase, AttemptRecords, CaseRecords
    <3> HIDE DEF nc, na
    <3>4. Missed(i)
      BY <1>0, <2>1, <2>2, <2>3, <3>1, <3>3, StoreRow DEF Missed, Others
    <3> QED
      BY <3>4 DEF Move
  <2> QED
    BY <2>4, <2>5, <2>6
<1> QED
  BY <1>2, <1>3, <1>4 DEF Webhook

LEMMA CancelMoves ==
  ASSUME LadderInv, NEW o \in Operators, Cancel(o)
  PROVE  Move
<1> DEFINE c == canceler[o].case
           a == canceler[o].att
<1>0. /\ c \in CaseRecords /\ a \in AttemptRecords /\ Live(c) /\ TypeOK
      /\ Paired(canceler[o])
      /\ a # NoAttempt => a.status \in AttemptActive
  BY DEF LadderInv, DispatchInv, TypeOK, CancelerRecords, SnapshotInv, Backed, ReadInv
<1>1. CASE UNCHANGED repositoryVars /\ UNCHANGED calls
  BY <1>1 DEF repositoryVars, Quiet, Move
<1>2. CASE CancelRead(o) \/ CancelList(o)
  BY <1>1, <1>2 DEF CancelRead, CancelList, providerVars
<1>3. CASE CancelApply(o)
  <2>0. calls' = calls
    BY <1>3 DEF CancelApply, providerVars
  <2>1. CASE UNCHANGED repositoryVars
    BY <1>1, <2>0, <2>1
  <2>2. CASE ApplyCaseTransition(c, CanceledCase(c))
    <3>1. CanceledCase(c).count = c.count /\ CanceledCase(c).status = "canceled"
      BY <1>0 DEF CanceledCase, CaseRecords
    <3> QED
      BY <1>0, <2>0, <2>2, <3>1, CaseMove
  <2>3. CASE a # NoAttempt /\ ApplyTransition(c, a, CanceledCase(c), CanceledAttempt(a))
    <3>1. Store(CanceledCase(c), CanceledAttempt(a)) /\ case.version = c.version
      BY <2>3 DEF ApplyTransition, Unchanged
    <3>2. c = case /\ ~ Closed(case)
      BY <1>0, <3>1 DEF Live, Fresh, TypeOK, RepositoryTypeOK, CaseRecords
    <3>3. PICK i \in Sequences3 : i = a.sequence
      BY <1>0 DEF AttemptRecords
    <3>4. a = attempts[i] /\ attempts[i].status # "unacknowledged"
      BY <1>0, <2>3, <3>1, <3>3 DEF Paired, AttemptActive
    <3>5. CanceledAttempt(a).sequence = i /\ CanceledAttempt(a).status = "canceled"
      BY <1>0, <3>3 DEF CanceledAttempt, AttemptRecords
    <3>6. CanceledCase(c).count = c.count /\ CanceledCase(c).status = "canceled"
      BY <1>0 DEF CanceledCase, CaseRecords
    <3>7. Withdrawn(i)
      BY <1>0, <2>0, <3>1, <3>2, <3>4, <3>5, <3>6, StoreRow DEF Withdrawn, Others
    <3> QED
      BY <3>7 DEF Move
  <2> QED
    BY <1>3, <2>1, <2>2, <2>3 DEF CancelApply
<1> QED
  BY <1>2, <1>3 DEF Cancel

LEMMA StepMoves == LadderInv /\ [CoordinatorNext]_vars => Move
<1> SUFFICES ASSUME LadderInv, [CoordinatorNext]_vars PROVE Move
  OBVIOUS
<1>1. CASE Tick \/ UNCHANGED vars
  BY <1>1 DEF Tick, vars, repositoryVars, providerVars, Quiet, Move
<1> QED
  BY <1>1, DispatchMoves, ExhaustMoves, WebhookMoves, CancelMoves DEF CoordinatorNext

-----------------------------------------------------------------------------
(* The invariant is preserved.                                             *)

LEMMA RungStep ==
  ASSUME LadderInv, DispatchInv', Move, NEW i \in Sequences3
  PROVE  RungInv(i)'
<1>0. /\ TypeOK /\ TypeOK' /\ RungInv(i) /\ RowInv(i) /\ RowInv(i)'
      /\ \A j \in Sequences3 : RungInv(j) /\ RowInv(j)'
      /\ case \in CaseRecords /\ case' \in CaseRecords
      /\ case.count \in 0..3 /\ case'.count \in 0..3 /\ i \in 1..3
      /\ attempts[i] \in AttemptRecords /\ calls[i] \in Nat /\ calls'[i] \in Nat
  BY DEF LadderInv, DispatchInv, TypeOK, RepositoryTypeOK, CaseRecords, Sequences3
<1>1. CASE Quiet
  BY <1>0, <1>1 DEF Quiet, RungInv, Closed
<1>2. ASSUME NEW w \in Workers, Dialled(w) PROVE RungInv(i)'
  <2>1. calls[i] <= calls'[i]
    BY <1>0, <1>2 DEF Dialled, TypeOK
  <2>2. calls'[i] <= 1
    BY <1>0 DEF RowInv
  <2>3. calls[i] = 1 => calls'[i] = 1
    BY <1>0, <2>1, <2>2
  <2> QED
    BY <1>0, <1>2, <2>3 DEF Dialled, RungInv, Closed
<1>3. ASSUME NEW w \in Workers, Reserve(w) PROVE RungInv(i)'
  <2>1. /\ case'.count = case.count + 1 /\ ~ Closed(case) /\ calls' = calls
        /\ Active = {}
    BY <1>0, <1>3 DEF Reserve, ReserveNextAttempt, CanReserve, providerVars
  <2>2. CASE i = case.count + 1
    <3>1. attempts'[i].status = "reserved"
      BY <1>0, <1>3, <2>2 DEF Reserve, ReserveNextAttempt, TypeOK, RepositoryTypeOK
    <3> QED
      BY <1>0, <2>1, <2>2, <3>1 DEF RungInv, AttemptActive
  <2>3. CASE i # case.count + 1
    <3>1. attempts'[i] = attempts[i]
      BY <1>0, <1>3, <2>3 DEF Reserve, ReserveNextAttempt, TypeOK, RepositoryTypeOK
    <3>2. i <= case.count => attempts[i].status = "unacknowledged"
      <4>1. attempts[i].status \notin AttemptActive
        BY <2>1 DEF Active
      <4> QED
        BY <1>0, <2>1, <4>1 DEF RungInv
    <3>3. i <= case.count => calls[i] = 1 /\ attempts[i].status \notin AttemptActive
      BY <1>0, <2>1, <3>2 DEF RungInv, RowInv, AttemptRecords, Active
    <3> QED
      BY <1>0, <2>1, <2>3, <3>1, <3>2, <3>3 DEF RungInv
  <2> QED
    BY <2>2, <2>3
<1>4. ASSUME NEW w \in Workers, Claim(w) PROVE RungInv(i)'
  <2>1. /\ case'.status = case.status /\ case'.count = case.count /\ calls' = calls
    BY <1>0, <1>4 DEF Claim, ClaimSubmission, CaseRecords, providerVars
  <2>2. attempts'[i].status = attempts[i].status /\ attempts'[i].ref = attempts[i].ref
    BY <1>0, <1>4 DEF Claim, ClaimSubmission, TypeOK, RepositoryTypeOK, AttemptRecords
  <2> QED
    BY <1>0, <2>1, <2>2 DEF RungInv, Closed
<1>5. ASSUME NEW k \in Sequences3, GoesOn(k) PROVE RungInv(i)'
  <2>1. ~ (k < case.count)
    BY <1>0, <1>5 DEF GoesOn, RungInv
  <2>2. CASE i = k
    BY <1>0, <1>5, <2>1, <2>2 DEF GoesOn, Others, RungInv, AttemptActive
  <2>3. CASE i # k
    BY <1>0, <1>5, <2>3 DEF GoesOn, Others, RungInv
  <2> QED
    BY <2>2, <2>3
<1>6. ASSUME NEW k \in Sequences3, Missed(k) PROVE RungInv(i)'
  <2>1. CASE i = k
    BY <1>0, <1>6, <2>1 DEF Missed, Others, RungInv, AttemptActive
  <2>2. CASE i # k
    BY <1>0, <1>6, <2>2 DEF Missed, Others, RungInv
  <2> QED
    BY <2>1, <2>2
<1>7. ASSUME NEW k \in Sequences3, Settled(k) \/ Withdrawn(k) PROVE RungInv(i)'
  <2>1. Closed(case)' /\ case'.count = case.count /\ calls' = calls
    BY <1>7 DEF Settled, Withdrawn, Others, Closed, CaseTerminal
  <2>2. \/ attempts'[i] = attempts[i]
        \/ attempts'[i].status \notin AttemptActive \cup {"unacknowledged"}
    BY <1>7 DEF Settled, Withdrawn, Others, AttemptActive
  <2> QED
    BY <1>0, <2>1, <2>2 DEF RungInv
<1>8. CASE GivenUp
  <2>1. Closed(case)'
    BY <1>8 DEF GivenUp, Closed, CaseTerminal
  <2> QED
    BY <1>0, <1>8, <2>1 DEF GivenUp, RungInv
<1> QED
  BY <1>1, <1>2, <1>3, <1>4, <1>5, <1>6, <1>7, <1>8 DEF Move

(* What was read stays paired: the version of the case tells.              *)
LEMMA StillPaired ==
  ASSUME DispatchInv, Kind, NEW c \in CaseRecords, NEW a \in AttemptRecords, Fresh(c),
         c.version = case.version => a = NoAttempt \/ a = attempts[a.sequence]
  PROVE  c.version = case'.version => a = NoAttempt \/ a = attempts'[a.sequence]
<1>0. TypeOK /\ case.version \in Nat /\ c.version \in Nat /\ case.version >= c.version
  BY DEF DispatchInv, TypeOK, RepositoryTypeOK, CaseRecords, Fresh
<1>1. CASE Quiet \/ \E w \in Workers : Dialled(w)
  BY <1>1 DEF Quiet, Dialled
<1>2. CASE case'.version = case.version + 1
  BY <1>0, <1>2
<1>3. ASSUME NEW w \in Workers, Reserve(w) \/ Claim(w)
      PROVE  case'.version = case.version + 1
  BY <1>0, <1>3 DEF Reserve, ReserveNextAttempt, Claim, ClaimSubmission, TypeOK,
     RepositoryTypeOK, CaseRecords
<1> QED
  BY <1>1, <1>2, <1>3 DEF Kind, Swapped, Follows

HandlerReads(h) == Paired(handler[h]) /\ (handler[h].pc = "apply" => handler[h].att.ref # 0)
OperatorReads(o) ==
  /\ Paired(canceler[o])
  /\ canceler[o].att = NoAttempt \/ /\ canceler[o].pc = "apply"
                                    /\ canceler[o].att.status \in AttemptActive

LEMMA KeptReads ==
  ASSUME LadderInv, Kind
  PROVE  /\ \A h \in Handlers : handler'[h] = handler[h] => HandlerReads(h)'
         /\ \A o \in Operators :
              canceler'[o].case = canceler[o].case /\ canceler'[o].att = canceler[o].att
                => Paired(canceler[o])'
<1>1. ASSUME NEW h \in Handlers, handler'[h] = handler[h] PROVE HandlerReads(h)'
  <2>0. /\ Fresh(handler[h].case) /\ Paired(handler[h])
        /\ handler[h].pc = "apply" => handler[h].att.ref # 0
    BY DEF LadderInv, DispatchInv, SnapshotInv, BackedCallback, ReadInv
  <2>1. PICK c \in CaseRecords : c = handler[h].case
    BY DEF LadderInv, DispatchInv, TypeOK, HandlerRecords
  <2>2. PICK a \in AttemptRecords : a = handler[h].att
    BY DEF LadderInv, DispatchInv, TypeOK, HandlerRecords
  <2>3. c.version = case'.version => a = NoAttempt \/ a = attempts'[a.sequence]
    BY <2>0, <2>1, <2>2, StillPaired DEF LadderInv, Paired
  <2> QED
    BY <1>1, <2>0, <2>1, <2>2, <2>3 DEF HandlerReads, Paired
<1>2. ASSUME NEW o \in Operators, canceler'[o].case = canceler[o].case,
             canceler'[o].att = canceler[o].att
      PROVE  Paired(canceler[o])'
  <2>0. Fresh(canceler[o].case) /\ Paired(canceler[o])
    BY DEF LadderInv, DispatchInv, SnapshotInv, Backed, Live, ReadInv
  <2>1. PICK c \in CaseRecords : c = canceler[o].case
    BY DEF LadderInv, DispatchInv, TypeOK, CancelerRecords
  <2>2. PICK a \in AttemptRecords : a = canceler[o].att
    BY DEF LadderInv, DispatchInv, TypeOK, CancelerRecords
  <2>3. c.version = case'.version => a = NoAttempt \/ a = attempts'[a.sequence]
    BY <2>0, <2>1, <2>2, StillPaired DEF LadderInv, Paired
  <2> QED
    BY <1>2, <2>1, <2>2, <2>3 DEF Paired
<1> QED
  BY <1>1, <1>2

LEMMA WebhookReadStep ==
  ASSUME LadderInv, DispatchInv', Kind, NEW g \in Handlers, Webhook(g), NEW h \in Handlers
  PROVE  HandlerReads(h)'
<1>0. handler \in [Handlers -> HandlerRecords] /\ TypeOK'
  BY DEF LadderInv, DispatchInv, TypeOK
<1>1. CASE handler'[h] = handler[h]
  BY <1>1, KeptReads
<1>2. CASE RecordCallback(g) \/ HandleCallback(g) \/ RefuseCallback(g)
  <2>1. h # g => handler'[h] = handler[h]
    BY <1>0, <1>2 DEF RecordCallback, HandleCallback, RefuseCallback, Respond
  <2>2. h = g => handler'[h] = IdleHandler
    BY <1>0, <1>2 DEF RecordCallback, HandleCallback, RefuseCallback, Respond
  <2>3. IdleHandler.pc = "idle" /\ IdleHandler.att = NoAttempt
    BY DEF IdleHandler
  <2> QED
    BY <1>1, <2>1, <2>2, <2>3 DEF HandlerReads, Paired
<1>3. ASSUME NEW i \in Sequences3, NEW k \in 1..calls[i], NEW v \in Callbacks,
             Receive(g, i, k, v), handler'[h] # handler[h]
      PROVE  HandlerReads(h)'
  <2>1. /\ handler'[h] = [pc |-> "apply", value |-> v, now |-> clock, case |-> case',
                          att |-> attempts'[i]]
        /\ Resolve(i, k)
    BY <1>0, <1>3 DEF Receive
  <2>2. handler'[h].case = case' /\ handler'[h].att = attempts'[i]
    BY <2>1
  <2>3. attempts'[i].sequence = i
    BY DEF DispatchInv, RowInv
  <2>4. attempts'[i].ref = k /\ k # 0
    <3>1. attempts \in [Sequences3 -> AttemptRecords] /\ k \in 1..calls[i] /\ calls[i] \in Nat
      BY <1>3 DEF LadderInv, DispatchInv, TypeOK, RepositoryTypeOK
    <3> QED
      BY <2>1, <3>1 DEF Resolve, BindCall, repositoryVars, AttemptRecords
  <2> QED
    BY <2>2, <2>3, <2>4 DEF HandlerReads, Paired
<1> QED
  BY <1>1, <1>2, <1>3 DEF Webhook

LEMMA CancelReadStep ==
  ASSUME LadderInv, DispatchInv', Kind, NEW p \in Operators, Cancel(p), NEW o \in Operators
  PROVE  OperatorReads(o)'
<1>0. /\ canceler \in [Operators -> CancelerRecords] /\ OperatorReads(o)
      /\ TypeOK /\ \A i \in Sequences3 : RowInv(i)
  BY DEF LadderInv, DispatchInv, TypeOK, ReadInv, OperatorReads
<1>1. CASE canceler'[o] = canceler[o]
  BY <1>0, <1>1, KeptReads DEF OperatorReads
<1>2. CASE canceler'[o] = IdleCanceler
  <2>1. IdleCanceler.att = NoAttempt
    BY DEF IdleCanceler
  <2> QED
    BY <1>2, <2>1 DEF OperatorReads, Paired
<1>3. CASE CancelRead(p) /\ o = p
  <2>1. canceler'[o].att = canceler[o].att /\ canceler[o].pc = "idle"
    BY <1>0, <1>3 DEF CancelRead, CancelerRecords
  <2> QED
    BY <1>0, <2>1 DEF OperatorReads, Paired
<1>4. CASE CancelList(p) /\ o = p /\ canceler'[o] # IdleCanceler
  <2>1. /\ canceler'[o].att = ReadActive /\ canceler'[o].pc = "apply"
    BY <1>0, <1>4 DEF CancelList, CancelerRecords
  <2>2. attempts' = attempts
    BY <1>4 DEF CancelList, repositoryVars
  <2>3. CASE Active = {}
    BY <2>1, <2>3 DEF ReadActive, OperatorReads, Paired
  <2>4. CASE Active # {}
    <3>1. LastActive \in Active
      BY <1>0, <2>4, ActiveTypes DEF RepositoryTypeOK, TypeOK
    <3>2. /\ ReadActive = attempts[LastActive] /\ LastActive \in Sequences3
          /\ attempts[LastActive].status \in AttemptActive
          /\ attempts[LastActive].sequence = LastActive
      BY <1>0, <2>4, <3>1 DEF ReadActive, Active, RowInv
    <3> QED
      BY <2>1, <2>2, <3>2 DEF OperatorReads, Paired
  <2> QED
    BY <2>3, <2>4
<1>5. o # p => canceler'[o] = canceler[o]
  BY <1>0 DEF Cancel, CancelRead, CancelList, CancelApply
<1>6. CancelApply(p) /\ o = p => canceler'[o] = IdleCanceler
  BY <1>0 DEF CancelApply
<1> QED
  BY <1>1, <1>2, <1>3, <1>4, <1>5, <1>6 DEF Cancel

LEMMA ReadStep ==
  ASSUME LadderInv, DispatchInv', Kind, [CoordinatorNext]_vars
  PROVE  ReadInv'
<1>1. ASSUME handler' = handler, NEW h \in Handlers PROVE HandlerReads(h)'
  BY <1>1, KeptReads
<1>2. ASSUME canceler' = canceler, NEW o \in Operators PROVE OperatorReads(o)'
  BY <1>2, KeptReads DEF LadderInv, ReadInv, OperatorReads
<1>3. \A h \in Handlers : HandlerReads(h)'
  <2>1. ASSUME NEW g \in Handlers, Webhook(g) PROVE \A h \in Handlers : HandlerReads(h)'
    BY <2>1, WebhookReadStep
  <2>2. \/ handler' = handler
        \/ \E g \in Handlers : Webhook(g)
    BY DEF CoordinatorNext, vars, DispatchNext, Start, ReuseAttempt, Reserve,
       ReserveRefused, ContactUnavailable, Claim, ClaimRefused, Expire, PlaceAccepted,
       PlaceUncertain, PlaceRefused, Bind, MarkRetry, MarkUncertain, Return, Crash,
       Exhaust, ExhaustRead, ExhaustList, ExhaustApply, Cancel, CancelRead, CancelList,
       CancelApply, Tick, processVars
  <2> QED
    BY <1>1, <2>1, <2>2
<1>4. \A o \in Operators : OperatorReads(o)'
  <2>1. ASSUME NEW p \in Operators, Cancel(p) PROVE \A o \in Operators : OperatorReads(o)'
    BY <2>1, CancelReadStep
  <2>2. \/ canceler' = canceler
        \/ \E p \in Operators : Cancel(p)
    BY DEF CoordinatorNext, vars, DispatchNext, Start, ReuseAttempt, Reserve,
       ReserveRefused, ContactUnavailable, Claim, ClaimRefused, Expire, PlaceAccepted,
       PlaceUncertain, PlaceRefused, Bind, MarkRetry, MarkUncertain, Return, Crash,
       Exhaust, ExhaustRead, ExhaustList, ExhaustApply, Webhook, Receive,
       RecordCallback, HandleCallback, RefuseCallback, Tick, processVars
  <2> QED
    BY <1>2, <2>1, <2>2
<1> QED
  BY <1>3, <1>4 DEF ReadInv, HandlerReads, OperatorReads, Paired

LEMMA LadderInvInit == CoordinatorInit => LadderInv
<1> SUFFICES ASSUME CoordinatorInit PROVE LadderInv
  OBVIOUS
<1>1. \A i \in Sequences3 : RungInv(i)
  BY DEF CoordinatorInit, RepositoryInit, RungInv, Sequences3
<1>2. ReadInv
  BY DEF CoordinatorInit, ReadInv, Paired, IdleHandler, IdleCanceler
<1> QED
  BY <1>1, <1>2, DispatchInvInit DEF LadderInv

LEMMA LadderInvStep == LadderInv /\ [CoordinatorNext]_vars => LadderInv'
<1> SUFFICES ASSUME LadderInv, [CoordinatorNext]_vars PROVE LadderInv'
  OBVIOUS
<1>1. DispatchInv'
  BY DispatchInvStep DEF LadderInv
<1>2. Kind /\ Move
  BY StepKinds, StepMoves DEF LadderInv
<1> QED
  BY <1>1, <1>2, RungStep, ReadStep DEF LadderInv

(* While a case is open every rung below its last one has been dialled and *)
(* has gone unanswered, and a request that finds the case as it read it    *)
(* has read the current row of the attempt.                                *)
THEOREM LadderInvariant == Spec => []LadderInv
  BY LadderInvInit, LadderInvStep, PTL DEF Spec

(* At most one attempt is live, and it is the last one: the active[-1] of  *)
(* dispatch_next, cancel and mark_delivery_exhausted is the only one.      *)
THEOREM OneLiveAttempt == Spec => []OneActiveAttempt
<1>1. LadderInv => OneActiveAttempt
  <2> SUFFICES ASSUME LadderInv, NEW i \in Sequences3,
                      attempts[i].status \in AttemptActive
               PROVE  i = case.count
    BY DEF OneActiveAttempt, Active
  <2>1. case.count \in 0..3 /\ i \in 1..3 /\ RowInv(i) /\ RungInv(i)
    BY DEF LadderInv, DispatchInv, TypeOK, RepositoryTypeOK, CaseRecords, Sequences3
  <2> QED
    BY <2>1 DEF RowInv, RungInv, AttemptActive
<1> QED
  BY <1>1, LadderInvariant, PTL

-----------------------------------------------------------------------------
(* The refinement: every step is a step of the ladder or changes none of   *)
(* what the ladder sees.                                                   *)

Outcome == IF Closed(case) THEN case.status ELSE "open"
Missing == {i \in Sequences3 : attempts[i].status = "unacknowledged"}

LEMMA Steps ==
  ASSUME LadderInv, DispatchInv', Move
  PROVE  \/ UNCHANGED <<Outcome, case.count, calls, Missing>>
         \/ Ladder!EscalationNext
<1>0. /\ TypeOK /\ TypeOK' /\ case \in CaseRecords
      /\ case.count \in 0..3 /\ calls \in [Sequences3 -> Nat]
      /\ attempts \in [Sequences3 -> AttemptRecords]
      /\ \A i \in Sequences3 : i \in 1..3 /\ RungInv(i) /\ RowInv(i) /\ RowInv(i)'
  BY DEF LadderInv, DispatchInv, TypeOK, RepositoryTypeOK, CaseRecords, Sequences3
<1> USE DEF Outcome, Missing
<1>1. CASE Quiet
  BY <1>1 DEF Quiet, Closed
<1>2. ASSUME NEW w \in Workers, Dialled(w)
      PROVE  UNCHANGED <<Outcome, case.count, calls, Missing>> \/ Ladder!Dial
  <2>0. PICK i \in Sequences3 : i = worker[w].seq
    BY <1>0 DEF TypeOK, WorkerRecords
  <2>1. /\ calls[i] = 0 /\ submission[i].state # "pending"
        /\ UNCHANGED <<case, attempts>>
    BY <1>2, <2>0 DEF Dialled, LadderInv, DispatchInv, HolderInv, HoldsClaim
  <2>2. i = case.count
    BY <1>0, <2>1 DEF RowInv, RungInv
  <2>3. PICK n \in {0, 1} : calls' = [calls EXCEPT ![i] = @ + n]
    BY <1>2, <2>0 DEF Dialled
  <2>4. CASE n = 0
    <3>1. calls' = calls
      BY <1>0, <2>3, <2>4
    <3>2. case' = case /\ attempts' = attempts
      BY <2>1
    <3> QED
      BY <3>1, <3>2 DEF Closed
  <2>5. CASE n = 1
    <3>1. calls' = [calls EXCEPT ![case.count] = 1] /\ case.count > 0
      <4>1. case.count > 0
        BY <1>0, <2>2
      <4>2. calls[i] + n = 1
        BY <2>1, <2>5
      <4> QED
        BY <2>2, <2>3, <4>1, <4>2
    <3>2. case' = case /\ attempts' = attempts
      BY <2>1
    <3> QED
      BY <2>1, <2>2, <3>1, <3>2 DEF Closed, Ladder!Dial
  <2> QED
    BY <2>3, <2>4, <2>5
<1>3. ASSUME NEW w \in Workers, Reserve(w) PROVE Ladder!Climb
  <2>1. /\ case.count < 3 /\ case'.count = case.count + 1 /\ calls' = calls
        /\ ~ Closed(case) /\ ~ Closed(case') /\ Active = {}
    BY <1>0, <1>3 DEF Reserve, ReserveNextAttempt, CanReserve, providerVars, Closed,
       CaseTerminal
  <2>2. \A i \in Sequences3 : i <= case.count => attempts[i].status = "unacknowledged"
    <3>1. \A i \in Sequences3 : attempts[i].status \notin AttemptActive
      BY <2>1 DEF Active
    <3> QED
      BY <1>0, <2>1, <3>1 DEF RungInv
  <2>3. 1..case.count \subseteq Missing
    BY <1>0, <2>2 DEF Sequences3
  <2>4. Missing' = Missing
    <3>1. \A i \in Sequences3 : \/ attempts'[i] = attempts[i]
                                \/ /\ i = case.count + 1
                                   /\ attempts'[i].status = "reserved"
      BY <1>0, <1>3 DEF Reserve, ReserveNextAttempt
    <3>2. \A i \in Sequences3 : i = case.count + 1 => attempts[i].status = "unreserved"
      BY <1>0 DEF RowInv
    <3> QED
      BY <3>1, <3>2
  <2> QED
    BY <2>1, <2>3, <2>4 DEF Ladder!Climb
<1>4. ASSUME NEW w \in Workers, Claim(w)
      PROVE  UNCHANGED <<Outcome, case.count, calls, Missing>>
  <2>1. /\ case'.status = case.status /\ case'.count = case.count /\ calls' = calls
    BY <1>0, <1>4 DEF Claim, ClaimSubmission, CaseRecords, providerVars
  <2>2. \A i \in Sequences3 : attempts'[i].status = attempts[i].status
    BY <1>0, <1>4 DEF Claim, ClaimSubmission, AttemptRecords
  <2> QED
    BY <2>1, <2>2 DEF Closed
<1>5. ASSUME NEW k \in Sequences3, GoesOn(k)
      PROVE  UNCHANGED <<Outcome, case.count, calls, Missing>>
  <2>1. \A i \in Sequences3 : attempts'[i].status = "unacknowledged"
                                <=> attempts[i].status = "unacknowledged"
    BY <1>5 DEF GoesOn, Others, AttemptActive
  <2> QED
    BY <1>5, <2>1 DEF GoesOn, Others
<1>6. ASSUME NEW k \in Sequences3, Missed(k) PROVE Ladder!Unanswered
  <2>1. /\ attempts'[k].status = "unacknowledged" /\ attempts'[k].ref # 0
        /\ calls' = calls /\ case'.count = case.count /\ ~ Closed(case)
    BY <1>6 DEF Missed, Others
  <2>2. k = case.count
    <3>1. k <= case.count
      BY <1>0, <2>1 DEF RowInv
    <3>2. ~ (k < case.count)
      BY <1>0, <1>6 DEF RungInv, Missed
    <3> QED
      BY <1>0, <3>1, <3>2
  <2>3. calls[k] = 1
    <3>1. attempts'[k].ref \in Nat /\ calls[k] \in Nat
      BY <1>0 DEF TypeOK, RepositoryTypeOK, AttemptRecords
    <3>2. attempts'[k].ref <= calls[k] /\ calls[k] <= 1
      BY <1>0, <2>1 DEF RowInv
    <3> QED
      BY <2>1, <3>1, <3>2
  <2>4. Missing' = Missing \cup {k}
    BY <1>6, <2>1 DEF Missed, Others
  <2>5. Outcome = "open" /\ Outcome' = IF k = 3 THEN "unacknowledged" ELSE "open"
    BY <1>0, <1>6 DEF Missed, NextRung, Closed, CaseTerminal, Sequences3
  <2> QED
    BY <1>0, <2>1, <2>2, <2>3, <2>4, <2>5 DEF Ladder!Unanswered
<1>7. ASSUME NEW k \in Sequences3, Settled(k) PROVE Ladder!GiveUp \/ Ladder!Answer(k)
  <2>1. /\ Outcome \in {"open", "unacknowledged"} /\ Outcome' = case'.status
        /\ case'.status \in {"acknowledged", "manual_follow_up"}
        /\ calls' = calls /\ case'.count = case.count
    BY <1>7 DEF Settled, Others, Closed, CaseTerminal
  <2>2. Missing' = Missing \ {k}
    BY <1>7, <2>1 DEF Settled, Others
  <2>3. CASE calls[k] = 1
    BY <2>1, <2>2, <2>3 DEF Ladder!Answer
  <2>4. CASE calls[k] # 1
    <3>1. Outcome = "open" /\ case'.status = "manual_follow_up"
      BY <1>7, <2>4 DEF Settled
    <3>2. calls[k] \in Nat /\ attempts[k].ref \in Nat
      BY <1>0 DEF AttemptRecords
    <3>3. k \notin Missing
      BY <1>0, <2>4, <3>2 DEF RowInv, RungInv
    <3>4. Missing' = Missing
      BY <2>2, <3>3
    <3> QED
      BY <2>1, <3>1, <3>4 DEF Ladder!GiveUp
  <2> QED
    BY <2>3, <2>4
<1>8. ASSUME NEW k \in Sequences3, Withdrawn(k) PROVE Ladder!GiveUp
  <2>1. Outcome = "open" /\ Outcome' = "canceled"
    BY <1>8 DEF Withdrawn, Closed, CaseTerminal
  <2>2. Missing' = Missing /\ calls' = calls /\ case'.count = case.count
    BY <1>8 DEF Withdrawn, Others
  <2> QED
    BY <2>1, <2>2 DEF Ladder!GiveUp
<1>9. CASE GivenUp
  <2>1. Outcome = "open" /\ Outcome' \in {"manual_follow_up", "canceled"}
    BY <1>9 DEF GivenUp, Closed, CaseTerminal
  <2> QED
    BY <1>9, <2>1 DEF GivenUp, Ladder!GiveUp, Ladder!EscalationNext
<1>10. \A k \in Sequences3 : Ladder!Answer(k) => Ladder!EscalationNext
  BY DEF Ladder!EscalationNext, Ladder!Rungs, Sequences3
<1> HIDE DEF Outcome, Missing
<1> QED
  BY <1>1, <1>2, <1>3, <1>4, <1>5, <1>6, <1>7, <1>8, <1>9, <1>10
     DEF Move, Ladder!EscalationNext

(* The coordinator implements the ladder for any number of workers,        *)
(* webhook requests and operators and any delays: every step of the        *)
(* service is a climb, a call, a missed call, an answer, the end of the    *)
(* case, or nothing the ladder sees.                                       *)
THEOREM ImplementsLadder == Spec => ClimbsTheLadder
<1>1. CoordinatorInit => Ladder!EscalationInit
  BY DEF CoordinatorInit, RepositoryInit, Ladder!EscalationInit, Ladder!Rungs, Closed,
     CaseTerminal, Sequences3
<1>2. LadderInv /\ LadderInv' /\ [CoordinatorNext]_vars
        => [Ladder!EscalationNext]_(Ladder!escalationVars)
  BY StepMoves, Steps DEF LadderInv, Ladder!escalationVars, Outcome, Missing
<1> QED
  BY <1>1, <1>2, LadderInvariant, PTL DEF Spec, ClimbsTheLadder, Ladder!EscalationSpec

-----------------------------------------------------------------------------
(* The case's row and the rows of its attempts.                            *)

OnTheLine == {"initiated", "ringing", "answered"}
\* Where a worker holds the row of the attempt it is about to write.
Writing == {"place", "bind", "retry", "uncertain", "expire", "exhaust_apply"}

CallRow(i) ==
  /\ attempts[i].ref # 0 => submission[i].state # "claimed"
  /\ attempts[i].status \in OnTheLine => attempts[i].ref # 0
WorkerReads(w) == /\ Paired(worker[w])
                  /\ worker[w].pc \notin Writing => worker[w].att = NoAttempt
                  /\ worker[w].pc \in Writing \ {"exhaust_apply"} => worker[w].att # NoAttempt

RowsInv == /\ LadderInv
           /\ \A i \in Sequences3 : CallRow(i)
           /\ \A w \in Workers : WorkerReads(w)
           /\ CaseMatchesAttempts

(* What a step writes: at most one attempt's row, and the case's with it.  *)
OnlyRow(i) == /\ case'.count = case.count
              /\ attempts'[i].ref = attempts[i].ref
              /\ \A j \in Sequences3 \ {i} : attempts'[j] = attempts[j]
Retried(i) == /\ OnlyRow(i) /\ ~ Closed(case)
              /\ i = case.count
              /\ attempts[i].ref = 0
              /\ case'.status = "provider_retry" /\ attempts'[i].status = "provider_retry"
              /\ submission' = [submission EXCEPT ![i] = NoClaim]
Advanced(i) == /\ OnlyRow(i) /\ ~ Closed(case)
               /\ i = case.count
               /\ attempts[i].ref # 0
               /\ Rank(attempts[i].status) <= Rank(attempts'[i].status)
               /\ attempts[i].status \in AttemptActive
               /\ attempts'[i].status \in OnTheLine
               /\ case'.status = IF attempts'[i].status = "answered"
                                 THEN "awaiting_acknowledgement" ELSE "dialing"
               /\ case'.nextAt = case.nextAt
               /\ submission' = submission
Unanswered(i) == /\ OnlyRow(i) /\ ~ Closed(case)
                 /\ i = case.count
                 /\ attempts[i].ref # 0
                 /\ attempts[i].status \in AttemptActive
                 /\ attempts'[i].status = "unacknowledged"
                 /\ case'.status = NextRung[i]
                 /\ submission' = submission
Handed(i) == /\ OnlyRow(i)
             /\ i <= case.count
             /\ attempts'[i].status = case'.status
             /\ case'.status \in {"acknowledged", "manual_follow_up"}
             /\ ClaimsKept
Called(i) == /\ OnlyRow(i)
             /\ attempts[i].status \in AttemptActive
             /\ case'.status = "canceled" /\ attempts'[i].status = "canceled"
             /\ submission' = submission
Dropped == /\ case'.status \in {"canceled", "manual_follow_up"}
           /\ case'.count = case.count
           /\ UNCHANGED <<attempts, submission>>

Deed == \/ UNCHANGED <<case, attempts, submission>>
        \/ \E w \in Workers : Reserve(w) \/ Claim(w)
        \/ \E i \in Sequences3 : \E k \in Nat \ {0} : BindCall(i, k)
        \/ \E i \in Sequences3 : \/ Retried(i) \/ Advanced(i) \/ Unanswered(i)
                                 \/ Handed(i) \/ Called(i)
        \/ Dropped

(* Which rows may be live, bound or claimed.                               *)
LEMMA OpenRows ==
  ASSUME RowsInv, NEW i \in Sequences3
  PROVE  /\ TypeOK /\ case \in CaseRecords /\ attempts[i] \in AttemptRecords
         /\ case.count \in 0..3 /\ i \in 1..3 /\ attempts[i].sequence = i
         /\ attempts[i].status \in AttemptActive => i = case.count
         /\ ~ Closed(case) /\ i <= case.count /\ attempts[i].ref = 0
              => i = case.count /\ attempts[i].status \in AttemptActive
         /\ ~ Closed(case) /\ i <= case.count /\ attempts[i].status \notin AttemptTerminal
              => i = case.count /\ attempts[i].status \in AttemptActive
         /\ i > case.count => /\ attempts[i].status = "unreserved"
                              /\ submission[i].state = "pending"
                              /\ attempts[i].ref = 0
         /\ submission[i].state = "pending" => attempts[i].ref = 0
<1>1. /\ TypeOK /\ RowInv(i) /\ RungInv(i)
      /\ case \in CaseRecords /\ attempts[i] \in AttemptRecords
      /\ case.count \in 0..3 /\ i \in 1..3 /\ calls[i] \in Nat /\ attempts[i].ref \in Nat
  BY DEF RowsInv, LadderInv, DispatchInv, TypeOK, RepositoryTypeOK, CaseRecords, AttemptRecords,
         Sequences3
<1>2. submission[i].state = "pending" => attempts[i].ref = 0
  BY <1>1 DEF RowInv
<1>3. attempts[i].status \in AttemptActive => i = case.count
  BY <1>1 DEF RowInv, RungInv, AttemptActive
<1>4. ~ Closed(case) /\ i <= case.count =>
        \/ attempts[i].status = "unacknowledged" /\ attempts[i].ref # 0
        \/ attempts[i].status \in AttemptActive
  BY <1>1 DEF RungInv
<1> QED
  BY <1>1, <1>2, <1>3, <1>4 DEF RowInv, AttemptTerminal

(* A row is written over the row it was read from.                         *)
LEMMA WrittenRow ==
  ASSUME TypeOK, NEW i \in Sequences3, attempts[i].sequence = i, NEW nc, NEW na, Store(nc, na),
         SameCall(attempts[i], na), nc.count = case.count
  PROVE  OnlyRow(i) /\ case' = nc /\ attempts'[i] = na
<1>1. na.sequence = i /\ na.ref = attempts[i].ref
  BY DEF SameCall
<1> QED
  BY <1>1, StoreRow DEF OnlyRow

(* A hand-over to a human, by a worker that has read the attempt's row.    *)
LEMMA ManualDeed ==
  ASSUME RowsInv, NEW w \in Workers, ClaimsKept,
         LET c == worker[w].case
             a == worker[w].att IN
         /\ Unchanged(c, a)
         /\ a = NoAttempt => FALSE
         /\ Store(ManualCase(c), ManualAttempt(a))
  PROVE  Deed
<1> DEFINE c == worker[w].case
           a == worker[w].att
<1>1. /\ TypeOK /\ c \in CaseRecords /\ a \in AttemptRecords /\ Live(c) /\ Known(a)
      /\ Paired(worker[w])
  BY DEF RowsInv, LadderInv, DispatchInv, SnapshotInv, Backed, TypeOK, WorkerRecords, WorkerReads
<1>2. c = case
  BY <1>1 DEF Live, Fresh, Unchanged, TypeOK, RepositoryTypeOK, CaseRecords
<1>3. PICK i \in Sequences3 : i = a.sequence
  BY <1>1 DEF AttemptRecords
<1>4. a = attempts[i] /\ attempts[i].sequence = i /\ i <= case.count
  BY <1>1, <1>2, <1>3, OpenRows DEF Paired, Known
<1>5. SameCall(a, ManualAttempt(a)) /\ ManualCase(c).count = c.count
  BY <1>1, RowFacts DEF Follows
<1>6. ManualAttempt(a).status = "manual_follow_up" /\ ManualCase(c).status = "manual_follow_up"
  BY <1>1 DEF ManualAttempt, ManualCase, AttemptRecords, CaseRecords
<1>7. OnlyRow(i) /\ case' = ManualCase(c) /\ attempts'[i] = ManualAttempt(a)
  BY <1>1, <1>2, <1>4, <1>5, WrittenRow
<1> QED
  BY <1>4, <1>6, <1>7 DEF Deed, Handed

LEMMA DispatchDeeds ==
  ASSUME RowsInv, NEW w \in Workers, DispatchNext(w)
  PROVE  Deed
<1> DEFINE c == worker[w].case
           a == worker[w].att
<1>0. /\ TypeOK /\ c \in CaseRecords /\ a \in AttemptRecords /\ Live(c) /\ Known(a)
      /\ worker[w].seq \in Sequences3 /\ WorkerReads(w) /\ HolderInv(w)
  BY DEF RowsInv, LadderInv, DispatchInv, SnapshotInv, Backed, TypeOK, WorkerRecords
<1>1. CASE UNCHANGED repositoryVars
  BY <1>1 DEF repositoryVars, Deed
<1>2. CASE \/ Start(w) \/ ReuseAttempt(w) \/ ReserveRefused(w) \/ ContactUnavailable(w)
           \/ ClaimRefused(w) \/ PlaceAccepted(w) \/ PlaceUncertain(w) \/ PlaceRefused(w)
           \/ Return(w) \/ Crash(w)
  BY <1>1, <1>2 DEF Start, ReuseAttempt, ReserveRefused, ContactUnavailable, ClaimRefused,
     PlaceAccepted, PlaceUncertain, PlaceRefused, Return, Crash
<1>3. CASE Reserve(w) \/ Claim(w)
  BY <1>3 DEF Deed
<1>4. CASE Expire(w)
  <2>1. CASE ExpireSubmission(c, a, worker[w].now, ManualCase(c), ManualAttempt(a))
    <3>1. Unchanged(c, a) /\ Store(ManualCase(c), ManualAttempt(a))
      BY <2>1 DEF ExpireSubmission, CanExpire
    <3>2. ClaimsKept
      BY <1>0, <2>1 DEF ExpireSubmission, CanExpire, ClaimsKept, TypeOK, RepositoryTypeOK,
         SubmissionRecords
    <3>3. a # NoAttempt
      BY <1>0, <1>4 DEF Expire, WorkerReads, Writing
    <3> QED
      BY <3>1, <3>2, <3>3, ManualDeed
  <2> QED
    BY <1>1, <1>4, <2>1 DEF Expire
<1>5. CASE Bind(w)
  <2>1. CASE BindCall(worker[w].seq, worker[w].ref)
    <3>1. worker[w].ref \in Nat \ {0}
      BY <1>0, <1>5 DEF Bind, HolderInv, TypeOK
    <3> QED
      BY <1>0, <2>1, <3>1 DEF Deed
  <2> QED
    BY <1>1, <1>5, <2>1 DEF Bind, Resolve
<1>6. CASE MarkRetry(w)
  <2> DEFINE nc == RetryCase(c, worker[w].now)
             na == RetryAttempt(a)
  <2>1. CASE FinishSubmission(w, c, a, nc, na, NoClaim)
    <3>1. PICK i \in Sequences3 : i = worker[w].seq
      BY <1>0
    <3>2. a.sequence = i /\ a # NoAttempt /\ calls[i] = 0
      BY <1>0, <1>6, <3>1 DEF MarkRetry, HolderInv, HoldsClaim, WorkerReads, Writing
    <3>3. Unchanged(c, a) /\ Store(nc, na) /\ submission' = [submission EXCEPT ![i] = NoClaim]
      BY <2>1, <3>2 DEF FinishSubmission, CanFinish
    <3>4. c = case /\ ~ Closed(case)
      BY <1>0, <3>3 DEF Live, Fresh, Unchanged, TypeOK, RepositoryTypeOK, CaseRecords
    <3>5. a = attempts[i] /\ i <= case.count
      BY <1>0, <3>2, <3>4 DEF WorkerReads, Paired, Known
    <3>6. attempts[i].ref = 0
      <4>1. attempts[i].ref <= calls[i] /\ attempts[i].ref \in Nat
        BY <1>0, <3>5 DEF RowsInv, LadderInv, DispatchInv, RowInv, AttemptRecords
      <4> QED
        BY <3>2, <4>1
    <3>7. i = case.count /\ attempts[i].sequence = i
      BY <3>4, <3>5, <3>6, OpenRows
    <3>8. SameCall(a, na) /\ nc.count = c.count
      BY <1>0, RowFacts DEF Follows
    <3>9. nc.status = "provider_retry" /\ na.status = "provider_retry"
      BY <1>0 DEF RetryCase, RetryAttempt, CaseRecords, AttemptRecords
    <3> HIDE DEF nc, na
    <3>10. OnlyRow(i) /\ case' = nc /\ attempts'[i] = na
      BY <1>0, <3>3, <3>4, <3>5, <3>7, <3>8, WrittenRow
    <3>11. Retried(i)
      BY <3>3, <3>4, <3>6, <3>7, <3>9, <3>10 DEF Retried
    <3> QED
      BY <3>11 DEF Deed
  <2> QED
    BY <1>1, <1>6, <2>1 DEF MarkRetry
<1>7. CASE MarkUncertain(w)
  <2> DEFINE next == [submission[a.sequence] EXCEPT !.state = "uncertain"]
  <2>1. CASE FinishSubmission(w, c, a, ManualCase(c), ManualAttempt(a), next)
    <3>1. Unchanged(c, a) /\ Store(ManualCase(c), ManualAttempt(a))
      BY <2>1 DEF FinishSubmission, CanFinish
    <3>2. ClaimsKept
      BY <1>0, <2>1 DEF FinishSubmission, CanFinish, ClaimsKept, TypeOK, RepositoryTypeOK,
         SubmissionRecords
    <3>3. a # NoAttempt
      BY <1>0, <1>7 DEF MarkUncertain, WorkerReads, Writing
    <3> QED
      BY <3>1, <3>2, <3>3, ManualDeed
  <2> QED
    BY <1>1, <1>7, <2>1 DEF MarkUncertain
<1> QED
  BY <1>2, <1>3, <1>4, <1>5, <1>6, <1>7 DEF DispatchNext

LEMMA CaseDeed ==
  ASSUME TypeOK, NEW c \in CaseRecords, Live(c), NEW nc, nc.count = c.count,
         nc.status \in {"manual_follow_up", "canceled"}, ApplyCaseTransition(c, nc)
  PROVE  Deed
<1>1. c = case
  BY DEF Live, Fresh, ApplyCaseTransition, TypeOK, RepositoryTypeOK, CaseRecords
<1> QED
  BY <1>1 DEF Dropped, Deed, ApplyCaseTransition

LEMMA ExhaustDeeds ==
  ASSUME RowsInv, NEW w \in Workers, Exhaust(w)
  PROVE  Deed
<1> DEFINE c == worker[w].case
           a == worker[w].att
<1>0. TypeOK /\ c \in CaseRecords /\ Live(c)
  BY DEF RowsInv, LadderInv, DispatchInv, SnapshotInv, Backed, TypeOK, WorkerRecords
<1>1. CASE UNCHANGED repositoryVars
  BY <1>1 DEF repositoryVars, Deed
<1>2. CASE ExhaustRead(w) \/ ExhaustList(w)
  BY <1>1, <1>2 DEF ExhaustRead, ExhaustList
<1>3. CASE ExhaustApply(w)
  <2>1. CASE ApplyCaseTransition(c, ManualCase(c))
    <3>1. ManualCase(c).count = c.count /\ ManualCase(c).status = "manual_follow_up"
      BY <1>0 DEF ManualCase, CaseRecords
    <3> QED
      BY <1>0, <2>1, <3>1, CaseDeed
  <2>2. CASE a # NoAttempt /\ ApplyTransition(c, a, ManualCase(c), ManualAttempt(a))
    BY <2>2, ManualDeed DEF ApplyTransition, ClaimsKept
  <2> QED
    BY <1>1, <1>3, <2>1, <2>2 DEF ExhaustApply
<1> QED
  BY <1>2, <1>3 DEF Exhaust

LEMMA CancelDeeds ==
  ASSUME RowsInv, NEW o \in Operators, Cancel(o)
  PROVE  Deed
<1> DEFINE c == canceler[o].case
           a == canceler[o].att
<1>0. /\ c \in CaseRecords /\ a \in AttemptRecords /\ Live(c) /\ TypeOK
      /\ Paired(canceler[o])
      /\ a # NoAttempt => a.status \in AttemptActive
  BY DEF RowsInv, LadderInv, DispatchInv, TypeOK, CancelerRecords, SnapshotInv, Backed, ReadInv
<1>1. CASE UNCHANGED repositoryVars
  BY <1>1 DEF repositoryVars, Deed
<1>2. CASE CancelRead(o) \/ CancelList(o)
  BY <1>1, <1>2 DEF CancelRead, CancelList
<1>3. CASE CancelApply(o)
  <2>1. CASE ApplyCaseTransition(c, CanceledCase(c))
    <3>1. CanceledCase(c).count = c.count /\ CanceledCase(c).status = "canceled"
      BY <1>0 DEF CanceledCase, CaseRecords
    <3> QED
      BY <1>0, <2>1, <3>1, CaseDeed
  <2>2. CASE a # NoAttempt /\ ApplyTransition(c, a, CanceledCase(c), CanceledAttempt(a))
    <3>1. /\ Store(CanceledCase(c), CanceledAttempt(a)) /\ case.version = c.version
          /\ submission' = submission
      BY <2>2 DEF ApplyTransition, Unchanged
    <3>2. c = case
      BY <1>0, <3>1 DEF Live, Fresh, TypeOK, RepositoryTypeOK, CaseRecords
    <3>3. PICK i \in Sequences3 : i = a.sequence
      BY <1>0 DEF AttemptRecords
    <3>4. a = attempts[i] /\ attempts[i].sequence = i
      BY <1>0, <2>2, <3>1, <3>3 DEF Paired
    <3>5. SameCall(a, CanceledAttempt(a)) /\ CanceledCase(c).count = c.count
      BY <1>0, RowFacts DEF Follows
    <3>6. CanceledAttempt(a).status = "canceled" /\ CanceledCase(c).status = "canceled"
      BY <1>0 DEF CanceledCase, CanceledAttempt, CaseRecords, AttemptRecords
    <3>7. OnlyRow(i) /\ case' = CanceledCase(c) /\ attempts'[i] = CanceledAttempt(a)
      BY <1>0, <3>1, <3>2, <3>4, <3>5, WrittenRow
    <3>8. Called(i)
      BY <1>0, <2>2, <3>1, <3>4, <3>6, <3>7 DEF Called
    <3> QED
      BY <3>8 DEF Deed
  <2> QED
    BY <1>1, <1>3, <2>1, <2>2 DEF CancelApply
<1> QED
  BY <1>2, <1>3 DEF Cancel

LEMMA WebhookDeeds ==
  ASSUME RowsInv, NEW h \in Handlers, Webhook(h)
  PROVE  Deed
<1> DEFINE c == handler[h].case
           a == handler[h].att
           v == handler[h].value
           nc == CallbackCase(c, a, v, handler[h].now)
           na == CallbackAttempt(a, v)
<1>0. c \in CaseRecords /\ a \in AttemptRecords /\ v \in CallbackValues /\ TypeOK /\ LadderInv
  BY DEF RowsInv, LadderInv, DispatchInv, TypeOK, HandlerRecords
<1>1. CASE UNCHANGED <<case, attempts, submission>>
  BY <1>1 DEF Deed
<1>2. ASSUME NEW i \in Sequences3, NEW k \in 1..calls[i], NEW x \in Callbacks,
             Receive(h, i, k, x)
      PROVE  Deed
  <2>1. k \in Nat \ {0}
    BY <1>0 DEF TypeOK
  <2>2. CASE BindCall(i, k)
    BY <2>1, <2>2 DEF Deed
  <2>3. CASE UNCHANGED repositoryVars
    BY <1>1, <2>3 DEF repositoryVars
  <2> QED
    BY <1>2, <2>2, <2>3 DEF Receive, Resolve
<1>3. CASE RecordCallback(h) \/ RefuseCallback(h)
  BY <1>1, <1>3 DEF RecordCallback, RefuseCallback, AppendEvent, repositoryVars
<1>4. CASE HandleCallback(h)
  <2>1. /\ Store(nc, na) /\ submission' = submission /\ ~ OnlyRecorded(c, a, v)
        /\ c = case /\ a.sequence \in 1..case.count
        /\ a = attempts[a.sequence] /\ a.ref # 0
    BY <1>0, <1>4, WebhookReads DEF HandleCallback, ApplyCallback, Unchanged
  <2>2. PICK i \in Sequences3 : i = a.sequence
    BY <1>0 DEF AttemptRecords
  <2>3. /\ i <= case.count /\ attempts[i].sequence = i /\ a = attempts[i]
        /\ ~ Closed(case) /\ a.status \notin AttemptTerminal
             => i = case.count /\ a.status \in AttemptActive
    BY <2>1, <2>2, OpenRows
  <2>4. SameCall(a, na) /\ nc.count = c.count
    BY <1>0, RowFacts DEF Follows
  <2>5. OnlyRow(i) /\ case' = nc /\ attempts'[i] = na
    <3> HIDE DEF nc, na
    <3> QED
      BY <1>0, <2>1, <2>3, <2>4, WrittenRow
  <2>6. CASE v \in ProgressValues
    <3>1. /\ a.status \notin AttemptTerminal /\ ~ Closed(case)
      BY <2>1, <2>6 DEF OnlyRecorded, ProgressValues, DigitValues
    <3>2. na = ProgressAttempt(a, v) /\ nc = ProgressCase(c, a, v)
      BY <2>6 DEF CallbackAttempt, CallbackCase, ProgressValues, DigitValues
    <3>3. na.status = ProgressStatus(a.status, v)
      BY <1>0, <3>2 DEF ProgressAttempt, AttemptRecords
    <3>4. nc.status = IF ProgressStatus(a.status, v) = "answered"
                      THEN "awaiting_acknowledgement" ELSE "dialing"
      BY <1>0, <3>2 DEF ProgressCase, CaseRecords
    <3>n. nc.nextAt = c.nextAt
      BY <1>0, <3>2 DEF ProgressCase, CaseRecords
    <3>5. Progressed(v) \in OnTheLine
      BY <2>6 DEF ProgressValues, Progressed, OnTheLine
    <3>6. /\ \A s : Rank(s) \in 0..3
          /\ \A s : Rank(s) > 0 => s \in OnTheLine
          /\ Rank(Progressed(v)) > 0
      BY <3>5 DEF Rank, OnTheLine
    <3>7. Rank(a.status) <= Rank(na.status) /\ na.status \in OnTheLine
      BY <3>3, <3>5, <3>6 DEF ProgressStatus
    <3> HIDE DEF nc, na
    <3>8. Advanced(i)
      BY <2>1, <2>3, <2>5, <3>1, <3>3, <3>4, <3>n, <3>7 DEF Advanced
    <3> QED
      BY <3>8 DEF Deed
  <2>7. CASE v \in DigitValues
    <3>1. na = GatherAttempt(a, v) /\ nc = GatherCase(c, v)
      BY <2>7 DEF CallbackAttempt, CallbackCase, ProgressValues, DigitValues
    <3>2. na.status = GatherStatus(v) /\ nc.status = GatherStatus(v)
      BY <1>0, <3>1 DEF GatherAttempt, GatherCase, AttemptRecords, CaseRecords
    <3>3. GatherStatus(v) \in {"acknowledged", "manual_follow_up"}
      BY DEF GatherStatus
    <3> HIDE DEF nc, na
    <3>4. Handed(i)
      BY <2>1, <2>3, <2>5, <3>2, <3>3 DEF Handed, ClaimsKept
    <3> QED
      BY <3>4 DEF Deed
  <2>8. CASE v \notin ProgressValues \cup DigitValues
    <3>1. ~ Closed(case) /\ a.status \notin AttemptTerminal
      BY <2>1, <2>8 DEF OnlyRecorded
    <3>2. na = UnacknowledgedAttempt(a) /\ nc = UnacknowledgedCase(c, a, handler[h].now)
      BY <2>8 DEF CallbackAttempt, CallbackCase
    <3>3. na.status = "unacknowledged" /\ nc.status = NextRung[i]
      BY <1>0, <2>2, <3>2
         DEF UnacknowledgedAttempt, UnacknowledgedCase, AttemptRecords, CaseRecords
    <3> HIDE DEF nc, na
    <3>4. Unanswered(i)
      BY <2>1, <2>3, <2>5, <3>1, <3>3 DEF Unanswered
    <3> QED
      BY <3>4 DEF Deed
  <2> QED
    BY <2>6, <2>7, <2>8
<1> QED
  BY <1>2, <1>3, <1>4 DEF Webhook

LEMMA StepDeeds == RowsInv /\ [CoordinatorNext]_vars => Deed
<1> SUFFICES ASSUME RowsInv, [CoordinatorNext]_vars PROVE Deed
  OBVIOUS
<1>1. CASE Tick \/ UNCHANGED vars
  BY <1>1 DEF Tick, vars, repositoryVars, Deed
<1> QED
  BY <1>1, DispatchDeeds, ExhaustDeeds, WebhookDeeds, CancelDeeds DEF CoordinatorNext

-----------------------------------------------------------------------------
(* The deeds keep the rows in agreement, and take no attempt back.         *)

(* The first reference of a call, and a claim, in the terms of the rows.   *)
LEMMA BoundRow ==
  ASSUME RowsInv, NEW i \in Sequences3, NEW k \in Nat \ {0}, BindCall(i, k)
  PROVE  /\ i = case.count /\ attempts[i].ref = 0 /\ attempts[i].status \in AttemptActive
         /\ ~ Closed(case) /\ attempts[i].status \notin OnTheLine
         /\ case'.status = "dialing" /\ case'.count = case.count
         /\ attempts'[i].ref = k /\ attempts'[i].status = "initiated"
         /\ \A j \in Sequences3 \ {i} : attempts'[j] = attempts[j]
         /\ submission'[i].state = "submitted"
         /\ \A j \in Sequences3 \ {i} : submission'[j] = submission[j]
<1>1. /\ ~ Closed(case) /\ submission[i].state = "claimed" /\ attempts[i].ref = 0
  BY DEF BindCall, CanBind, Bound
<1>2. i <= case.count
  BY <1>1, OpenRows
<1>3. i = case.count /\ attempts[i].status \in AttemptActive
  BY <1>1, <1>2, OpenRows
<1>4. attempts[i].status \notin OnTheLine
  BY <1>1 DEF RowsInv, CallRow
<1>5. TypeOK
  BY DEF RowsInv, LadderInv, DispatchInv
<1>6. /\ case'.status = "dialing" /\ case'.count = case.count
      /\ attempts'[i].ref = k /\ attempts'[i].status = "initiated"
      /\ \A j \in Sequences3 \ {i} : attempts'[j] = attempts[j]
  BY <1>5 DEF BindCall, TypeOK, RepositoryTypeOK, CaseRecords, AttemptRecords
<1>7. /\ submission'[i].state = "submitted"
      /\ \A j \in Sequences3 \ {i} : submission'[j] = submission[j]
  BY <1>5 DEF BindCall, TypeOK, RepositoryTypeOK, SubmissionRecords
<1> QED
  BY <1>1, <1>3, <1>4, <1>6, <1>7

LEMMA ClaimedRow ==
  ASSUME RowsInv, NEW w \in Workers, Claim(w)
  PROVE  LET i == worker[w].seq IN
         /\ i \in Sequences3 /\ i = case.count /\ attempts[i].ref = 0
         /\ attempts[i].status \in {"reserved", "provider_retry"}
         /\ case'.status = case.status /\ case'.count = case.count
         /\ submission'[i].state = "claimed" /\ case'.nextAt = submission'[i].deadline
         /\ \A j \in Sequences3 : /\ attempts'[j].ref = attempts[j].ref
                                 /\ attempts'[j].status = attempts[j].status
         /\ \A j \in Sequences3 \ {i} : submission'[j] = submission[j]
<1> DEFINE i == worker[w].seq
<1>1. TypeOK /\ i \in Sequences3
  BY DEF RowsInv, LadderInv, DispatchInv, TypeOK, WorkerRecords
<1>2. attempts[i].status \in {"reserved", "provider_retry"} /\ submission[i].state = "pending"
  BY DEF Claim, ClaimSubmission, CanClaim
<1>3. i = case.count /\ attempts[i].ref = 0
  BY <1>1, <1>2, OpenRows DEF AttemptActive
<1>4. case'.status = case.status /\ case'.count = case.count
  BY <1>1 DEF Claim, ClaimSubmission, TypeOK, RepositoryTypeOK, CaseRecords
<1>5. \A j \in Sequences3 : /\ attempts'[j].ref = attempts[j].ref
                           /\ attempts'[j].status = attempts[j].status
  BY <1>1 DEF Claim, ClaimSubmission, TypeOK, RepositoryTypeOK, AttemptRecords
<1>6. /\ submission'[i].state = "claimed" /\ case'.nextAt = submission'[i].deadline
      /\ \A j \in Sequences3 \ {i} : submission'[j] = submission[j]
  BY <1>1 DEF Claim, ClaimSubmission, TypeOK, RepositoryTypeOK, CaseRecords, SubmissionRecords
<1> QED
  BY <1>1, <1>2, <1>3, <1>4, <1>5, <1>6

LEMMA ReservedRow ==
  ASSUME RowsInv, NEW w \in Workers, Reserve(w)
  PROVE  LET i == case.count + 1 IN
         /\ i \in Sequences3 /\ attempts[i].status = "unreserved" /\ attempts[i].ref = 0
         /\ case'.status = "dialing" /\ case'.count = i
         /\ attempts'[i].status = "reserved" /\ attempts'[i].ref = 0
         /\ submission'[i].state = "pending"
         /\ \A j \in Sequences3 \ {i} : /\ attempts'[j] = attempts[j]
                                        /\ submission'[j] = submission[j]
<1> DEFINE i == case.count + 1
<1>1. TypeOK /\ case.count \in 0..3 /\ case.count < 3
  BY DEF RowsInv, LadderInv, DispatchInv, TypeOK, RepositoryTypeOK, CaseRecords, Reserve,
         ReserveNextAttempt, CanReserve
<1>2. i \in Sequences3 /\ i > case.count
  BY <1>1 DEF Sequences3
<1>3. attempts[i].status = "unreserved" /\ attempts[i].ref = 0
  BY <1>2, OpenRows
<1> QED
  BY <1>1, <1>2, <1>3
     DEF Reserve, ReserveNextAttempt, TypeOK, RepositoryTypeOK, CaseRecords, NoClaim

LEMMA CallRowStep ==
  ASSUME RowsInv, Deed, NEW i \in Sequences3
  PROVE  CallRow(i)'
<1>0. CallRow(i) /\ TypeOK
  BY DEF RowsInv, LadderInv, DispatchInv
<1>1. CASE UNCHANGED <<case, attempts, submission>>
  BY <1>0, <1>1 DEF CallRow
<1>2. ASSUME NEW w \in Workers, Reserve(w) PROVE CallRow(i)'
  BY <1>0, <1>2, ReservedRow DEF CallRow, OnTheLine
<1>3. ASSUME NEW w \in Workers, Claim(w) PROVE CallRow(i)'
  BY <1>0, <1>3, ClaimedRow DEF CallRow
<1>4. ASSUME NEW j \in Sequences3, NEW k \in Nat \ {0}, BindCall(j, k) PROVE CallRow(i)'
  BY <1>0, <1>4, BoundRow DEF CallRow
<1>5. ASSUME NEW j \in Sequences3, Retried(j) PROVE CallRow(i)'
  <2>1. submission'[j].state = "pending"
        /\ \A n \in Sequences3 \ {j} : submission'[n] = submission[n]
    BY <1>0, <1>5 DEF Retried, TypeOK, RepositoryTypeOK, NoClaim
  <2> QED
    BY <1>0, <1>5, <2>1 DEF Retried, OnlyRow, CallRow, OnTheLine
<1>6. ASSUME NEW j \in Sequences3, Advanced(j) \/ Unanswered(j) \/ Called(j) PROVE CallRow(i)'
  BY <1>0, <1>6 DEF Advanced, Unanswered, Called, OnlyRow, CallRow, OnTheLine
<1>7. ASSUME NEW j \in Sequences3, Handed(j) PROVE CallRow(i)'
  BY <1>0, <1>7 DEF Handed, ClaimsKept, OnlyRow, CallRow, OnTheLine
<1>8. CASE Dropped
  BY <1>0, <1>8 DEF Dropped, CallRow
<1> QED
  BY <1>1, <1>2, <1>3, <1>4, <1>5, <1>6, <1>7, <1>8 DEF Deed

(* The part of CaseMatchesAttempts that is about the last attempt.         *)
LEMMA MatchStep ==
  ASSUME RowsInv, LadderInv', Deed
  PROVE  CaseMatchesAttempts'
<1>0. /\ TypeOK /\ TypeOK' /\ case.count \in 0..3 /\ case'.count \in 0..3
      /\ CaseMatchesAttempts
      /\ \A i \in Sequences3 : CallRow(i)
  BY DEF RowsInv, LadderInv, DispatchInv, TypeOK, RepositoryTypeOK, CaseRecords
<1>1. \A i \in Sequences3 : attempts'[i].status \in AttemptActive => i = case'.count
  <2> SUFFICES ASSUME NEW i \in Sequences3, attempts'[i].status \in AttemptActive
               PROVE  i = case'.count
    OBVIOUS
  <2>1. RowInv(i)' /\ RungInv(i)' /\ i \in 1..3
    BY DEF LadderInv, DispatchInv, Sequences3
  <2> QED
    BY <1>0, <2>1 DEF RowInv, RungInv, AttemptActive
<1>2. CASE UNCHANGED <<case, attempts, submission>>
  BY <1>0, <1>2 DEF CaseMatchesAttempts, Active, Closed
<1>3. ASSUME NEW w \in Workers, Reserve(w) PROVE CaseMatchesAttempts'
  <2>1. case'.status = "dialing" /\ case'.count \in Sequences3 /\ case'.count # 0
    BY <1>0, <1>3, ReservedRow DEF Sequences3
  <2>2. /\ attempts'[case'.count].status = "reserved"
        /\ submission'[case'.count].state = "pending"
    BY <1>3, ReservedRow
  <2> QED
    BY <2>1, <2>2 DEF CaseMatchesAttempts
<1>4. ASSUME NEW w \in Workers, Claim(w) PROVE CaseMatchesAttempts'
  <2> DEFINE i == worker[w].seq
  <2>1. /\ i \in Sequences3 /\ i = case.count
        /\ case'.status = case.status /\ case'.count = case.count
        /\ case'.nextAt = submission'[i].deadline
        /\ \A j \in Sequences3 : attempts'[j].status = attempts[j].status
    BY <1>4, ClaimedRow
  <2>2. Active' = Active
    BY <2>1 DEF Active
  <2>3. 1..case.count \subseteq Sequences3
    BY <1>0 DEF Sequences3
  <2> QED
    BY <1>0, <2>1, <2>2, <2>3 DEF CaseMatchesAttempts
<1>5. ASSUME NEW i \in Sequences3, NEW k \in Nat \ {0}, BindCall(i, k)
      PROVE  CaseMatchesAttempts'
  <2>1. /\ case'.status = "dialing" /\ case'.count = i /\ i # 0
        /\ attempts'[i].status = "initiated" /\ submission'[i].state = "submitted"
    BY <1>5, BoundRow DEF Sequences3
  <2> QED
    BY <2>1 DEF CaseMatchesAttempts
<1>6. ASSUME NEW i \in Sequences3, Retried(i) PROVE CaseMatchesAttempts'
  <2>1. /\ case'.status = "provider_retry" /\ case'.count = i /\ i # 0
        /\ attempts'[i].status = "provider_retry"
    BY <1>6 DEF Retried, OnlyRow, Sequences3
  <2>2. submission'[i].state = "pending"
    BY <1>0, <1>6 DEF Retried, NoClaim, TypeOK, RepositoryTypeOK
  <2> QED
    BY <2>1, <2>2 DEF CaseMatchesAttempts
<1>7. ASSUME NEW i \in Sequences3, Advanced(i) PROVE CaseMatchesAttempts'
  <2>1. /\ case'.count = i /\ i # 0 /\ attempts'[i].status \in OnTheLine
        /\ case'.status = IF attempts'[i].status = "answered"
                          THEN "awaiting_acknowledgement" ELSE "dialing"
        /\ submission'[i].state # "claimed"
    BY <1>0, <1>7 DEF Advanced, OnlyRow, Sequences3, CallRow
  <2> QED
    BY <2>1 DEF CaseMatchesAttempts, OnTheLine
<1>8. ASSUME NEW i \in Sequences3, Unanswered(i) PROVE CaseMatchesAttempts'
  <2>1. /\ case'.count = i /\ i \in 1..3 /\ attempts'[i].status = "unacknowledged"
        /\ case'.status = NextRung[i] /\ submission'[i].state # "claimed"
    BY <1>0, <1>8 DEF Unanswered, OnlyRow, Sequences3, CallRow
  <2>2. Active' = {}
    BY <1>1, <2>1 DEF Active, AttemptActive
  <2>3. \/ i = 1 /\ case'.status = "retry_scheduled"
        \/ i = 2 /\ case'.status = "supervisor_scheduled"
        \/ i = 3 /\ case'.status = "unacknowledged"
    BY <2>1 DEF NextRung
  <2> QED
    BY <2>1, <2>2, <2>3 DEF CaseMatchesAttempts
<1>9. ASSUME NEW i \in Sequences3, Handed(i) PROVE CaseMatchesAttempts'
  <2>1. /\ i \in 1..case'.count /\ case'.count # 0 /\ attempts'[i].status = case'.status
        /\ case'.status \in {"acknowledged", "manual_follow_up"}
    BY <1>0, <1>9 DEF Handed, OnlyRow, Sequences3
  <2>2. Closed(case)'
    BY <2>1 DEF Closed, CaseTerminal
  <2> QED
    BY <2>1, <2>2 DEF CaseMatchesAttempts
<1>10. ASSUME case'.status \in {"canceled", "manual_follow_up"} PROVE CaseMatchesAttempts'
  <2>1. Closed(case)'
    BY <1>10 DEF Closed, CaseTerminal
  <2> QED
    BY <1>10, <2>1 DEF CaseMatchesAttempts
<1> QED
  BY <1>2, <1>3, <1>4, <1>5, <1>6, <1>7, <1>8, <1>9, <1>10 DEF Deed, Called, Dropped

Forward(i) ==
  LET old == attempts[i].status
      new == attempts'[i].status
  IN /\ attempts[i].ref # 0 => attempts'[i].ref = attempts[i].ref
     /\ old \in AttemptActive /\ new \in AttemptActive => Rank(old) <= Rank(new)
     /\ old \in AttemptTerminal => new \in {old, "acknowledged", "manual_follow_up"}

LEMMA ForwardStep ==
  ASSUME RowsInv, Deed, NEW i \in Sequences3
  PROVE  Forward(i)
<1>0. /\ CallRow(i) /\ case.count \in 0..3
      /\ \A s : Rank(s) \in 0..3 /\ (s \notin OnTheLine => Rank(s) = 0)
  BY DEF RowsInv, LadderInv, DispatchInv, TypeOK, RepositoryTypeOK, CaseRecords, Rank, OnTheLine
<1>1. ASSUME attempts'[i].status = attempts[i].status, attempts'[i].ref = attempts[i].ref
      PROVE  Forward(i)
  BY <1>0, <1>1 DEF Forward
<1>2. CASE UNCHANGED <<case, attempts, submission>>
  BY <1>1, <1>2
<1>3. ASSUME NEW w \in Workers, Reserve(w) PROVE Forward(i)
  BY <1>1, <1>3, ReservedRow DEF Forward, AttemptActive, AttemptTerminal
<1>4. ASSUME NEW w \in Workers, Claim(w) PROVE Forward(i)
  BY <1>1, <1>4, ClaimedRow
<1>5. ASSUME NEW j \in Sequences3, NEW k \in Nat \ {0}, BindCall(j, k) PROVE Forward(i)
  <2>1. CASE i = j
    BY <1>0, <1>5, <2>1, BoundRow DEF Forward, AttemptActive, AttemptTerminal
  <2> QED
    BY <1>1, <1>5, <2>1, BoundRow
<1>6. ASSUME NEW j \in Sequences3, Retried(j) PROVE Forward(i)
  <2>1. CASE i = j
    <3>1. attempts[i].ref = 0 /\ attempts'[i].status = "provider_retry"
      BY <1>6, <2>1 DEF Retried
    <3>2. Rank(attempts[i].status) = 0
      BY <1>0, <3>1 DEF CallRow
    <3>3. attempts[i].status \in AttemptActive
      BY <1>0, <1>6, <2>1, <3>1, OpenRows DEF Retried
    <3> QED
      BY <1>0, <3>1, <3>2, <3>3 DEF Forward, AttemptActive, AttemptTerminal
  <2> QED
    BY <1>1, <1>6, <2>1 DEF Retried, OnlyRow
<1>7. ASSUME NEW j \in Sequences3,
             Advanced(j) \/ Unanswered(j) \/ Handed(j) \/ Called(j)
      PROVE  Forward(i)
  BY <1>1, <1>7 DEF Advanced, Unanswered, Handed, Called, OnlyRow, Forward, AttemptActive,
     AttemptTerminal
<1>8. CASE Dropped
  BY <1>1, <1>8 DEF Dropped
<1> QED
  BY <1>2, <1>3, <1>4, <1>5, <1>6, <1>7, <1>8 DEF Deed

-----------------------------------------------------------------------------
(* What a worker has read stays the row, as long as the case does not move.*)

LEMMA KeptWorkerReads ==
  ASSUME RowsInv, Kind, NEW w \in Workers,
         worker'[w].case = worker[w].case, worker'[w].att = worker[w].att
  PROVE  Paired(worker[w])'
<1>0. Fresh(worker[w].case) /\ Paired(worker[w])
  BY DEF RowsInv, LadderInv, DispatchInv, SnapshotInv, Backed, Live, WorkerReads
<1>1. PICK c \in CaseRecords : c = worker[w].case
  BY DEF RowsInv, LadderInv, DispatchInv, TypeOK, WorkerRecords
<1>2. PICK a \in AttemptRecords : a = worker[w].att
  BY DEF RowsInv, LadderInv, DispatchInv, TypeOK, WorkerRecords
<1>3. c.version = case'.version => a = NoAttempt \/ a = attempts'[a.sequence]
  BY <1>0, <1>1, <1>2, StillPaired DEF RowsInv, LadderInv, Paired
<1> QED
  BY <1>1, <1>2, <1>3 DEF Paired

(* What Done and Become leave of a worker's reading.                       *)
LEMMA DoneReads ==
  ASSUME NEW out, NEW pc, NEW b \in BOOLEAN
  PROVE  /\ [IdleWorker EXCEPT !.pc = "done", !.out = out].att = NoAttempt
         /\ [IdleWorker EXCEPT !.pc = "exhaust", !.retried = TRUE].att = NoAttempt
         /\ IdleWorker.att = NoAttempt /\ IdleWorker.pc = "idle"
         /\ [IdleWorker EXCEPT !.pc = "done", !.out = out].pc = "done"
         /\ [IdleWorker EXCEPT !.pc = "exhaust", !.retried = TRUE].pc = "exhaust"
  BY DEF IdleWorker

LEMMA WorkerReadStep ==
  ASSUME RowsInv, Kind, NEW w \in Workers, DispatchNext(w) \/ Exhaust(w)
  PROVE  WorkerReads(w)'
<1>0. /\ worker \in [Workers -> WorkerRecords] /\ TypeOK /\ worker[w].seq \in Sequences3
      /\ WorkerReads(w)
      /\ \A i \in Sequences3 : RowInv(i)
  BY DEF RowsInv, LadderInv, DispatchInv, TypeOK, WorkerRecords
<1>1. ASSUME NEW r, worker' = [worker EXCEPT ![w] = r], r.att = NoAttempt,
             r.pc \notin Writing \ {"exhaust_apply"}
      PROVE  WorkerReads(w)'
  BY <1>0, <1>1 DEF WorkerReads, Paired
<1>2. ASSUME NEW out, Done(w, out) PROVE WorkerReads(w)'
  <2> DEFINE r == [IdleWorker EXCEPT !.pc = "done", !.out = out]
  <2>1. r.att = NoAttempt /\ r.pc = "done"
    BY DoneReads
  <2>2. worker' = [worker EXCEPT ![w] = r]
    BY <1>2 DEF Done, Become
  <2> HIDE DEF r
  <2> QED
    BY <1>1, <2>1, <2>2 DEF Writing
<1>3. ASSUME NEW pc, worker'[w].pc = pc, worker'[w].case = worker[w].case,
             worker'[w].att = worker[w].att,
             pc \in Writing \ {"exhaust_apply"} /\ worker[w].pc \in Writing \ {"exhaust_apply"}
      PROVE  WorkerReads(w)'
  BY <1>0, <1>3, KeptWorkerReads DEF WorkerReads
<1>4. CASE Return(w) \/ Crash(w)
  <2>1. worker' = [worker EXCEPT ![w] = IdleWorker]
    BY <1>4 DEF Return, Crash, Become
  <2> QED
    BY <1>1, <2>1, DoneReads DEF Writing
<1>5. CASE Start(w) \/ ReuseAttempt(w) \/ Reserve(w) \/ ExhaustRead(w)
  <2>1. worker[w].att = NoAttempt
    BY <1>0, <1>5 DEF Start, ReuseAttempt, Reserve, ExhaustRead, WorkerReads, Writing
  <2>2. ASSUME NEW pc, worker'[w].pc = pc, worker'[w].att = worker[w].att,
               pc \in {"reserve", "claim", "exhaust_list"}
        PROVE  WorkerReads(w)'
    BY <2>1, <2>2 DEF WorkerReads, Paired, Writing
  <2>3. CASE Start(w)
    <3>1. \/ Done(w, "ok")
          \/ Become(w, [worker[w] EXCEPT !.pc = "reserve", !.now = clock])
      BY <2>3 DEF Start
    <3>2. CASE Become(w, [worker[w] EXCEPT !.pc = "reserve", !.now = clock])
      <4>1. worker'[w].pc = "reserve" /\ worker'[w].att = worker[w].att
        BY <1>0, <3>2 DEF Become, WorkerRecords
      <4> QED
        BY <2>2, <4>1
    <3> QED
      BY <1>2, <3>1, <3>2
  <2>4. CASE ReuseAttempt(w)
    <3>1. \/ Done(w, "ok")
          \/ Become(w, [worker[w] EXCEPT !.pc = "claim", !.seq = LastActive])
      BY <2>4 DEF ReuseAttempt
    <3>2. CASE Become(w, [worker[w] EXCEPT !.pc = "claim", !.seq = LastActive])
      <4>1. worker'[w].pc = "claim" /\ worker'[w].att = worker[w].att
        BY <1>0, <3>2 DEF Become, WorkerRecords
      <4> QED
        BY <2>2, <4>1
    <3> QED
      BY <1>2, <3>1, <3>2
  <2>5. CASE Reserve(w)
    <3>1. worker'[w].pc = "claim" /\ worker'[w].att = worker[w].att
      BY <1>0, <2>5 DEF Reserve, Become, WorkerRecords
    <3> QED
      BY <2>2, <3>1
  <2>6. CASE ExhaustRead(w)
    <3>1. \/ Done(w, "ok")
          \/ Become(w, [worker[w] EXCEPT !.pc = "exhaust_list", !.case = case])
      BY <2>6 DEF ExhaustRead
    <3>2. CASE Become(w, [worker[w] EXCEPT !.pc = "exhaust_list", !.case = case])
      <4>1. worker'[w].pc = "exhaust_list" /\ worker'[w].att = worker[w].att
        BY <1>0, <3>2 DEF Become, WorkerRecords
      <4> QED
        BY <2>2, <4>1
    <3> QED
      BY <1>2, <3>1, <3>2
  <2> QED
    BY <1>5, <2>3, <2>4, <2>5, <2>6
<1>6. CASE Claim(w)
  <2> DEFINE i == worker[w].seq
  <2>1. /\ worker'[w].pc = "place" /\ worker'[w].case = case' /\ worker'[w].att = attempts'[i]
    BY <1>0, <1>6 DEF Claim, Become, WorkerRecords
  <2>2. /\ attempts'[i].sequence = attempts[i].sequence /\ attempts[i].sequence = i
        /\ attempts'[i].status \in {"reserved", "provider_retry"}
    BY <1>0, <1>6 DEF Claim, ClaimSubmission, CanClaim, TypeOK, RepositoryTypeOK, AttemptRecords,
       RowInv
  <2>3. attempts'[i] # NoAttempt
    BY <2>2 DEF NoAttempt
  <2> QED
    BY <2>1, <2>2, <2>3 DEF WorkerReads, Paired, Writing
<1>7. CASE ClaimRefused(w) /\ ~ \E out : Done(w, out)
  <2> DEFINE i == worker[w].seq
  <2>1. /\ worker'[w].pc = "expire" /\ worker'[w].case = case /\ worker'[w].att = attempts[i]
        /\ submission[i].state = "claimed" /\ UNCHANGED repositoryVars
    <3>1. /\ worker' = [worker EXCEPT ![w] = [worker[w] EXCEPT !.pc = "expire", !.case = case,
                                                               !.att = attempts[i]]]
          /\ submission[i].state = "claimed" /\ UNCHANGED repositoryVars
      BY <1>7 DEF ClaimRefused, Become
    <3> QED
      BY <1>0, <3>1 DEF WorkerRecords
  <2>2. attempts[i].sequence = i /\ ~ (i > case.count) /\ ~ Closed(case)
    BY <1>0, <1>7, <2>1 DEF RowInv, ClaimRefused
  <2>3. attempts[i].status # "unreserved"
    <3>1. RungInv(i) /\ case.count \in 0..3 /\ i \in 1..3
      BY <1>0 DEF RowsInv, LadderInv, TypeOK, RepositoryTypeOK, CaseRecords, Sequences3
    <3> QED
      BY <2>2, <3>1 DEF RungInv, AttemptActive
  <2>4. attempts[i] # NoAttempt
    BY <2>3 DEF NoAttempt
  <2> QED
    BY <2>1, <2>2, <2>4 DEF WorkerReads, Paired, Writing, repositoryVars
<1>8. CASE PlaceAccepted(w) \/ PlaceUncertain(w) \/ PlaceRefused(w)
  <2>1. worker[w].pc = "place"
    BY <1>8 DEF PlaceAccepted, PlaceUncertain, PlaceRefused
  <2>2. CASE PlaceAccepted(w)
    <3>1. /\ worker'[w].pc = "bind" /\ worker'[w].case = worker[w].case
          /\ worker'[w].att = worker[w].att
      BY <1>0, <2>2 DEF PlaceAccepted, Become, WorkerRecords
    <3> QED
      BY <1>3, <2>1, <3>1 DEF Writing
  <2>3. CASE PlaceUncertain(w)
    <3>1. /\ worker'[w].pc = "uncertain" /\ worker'[w].case = worker[w].case
          /\ worker'[w].att = worker[w].att
      BY <1>0, <2>3 DEF PlaceUncertain, Goto, Become, WorkerRecords
    <3> QED
      BY <1>3, <2>1, <3>1 DEF Writing
  <2>4. CASE PlaceRefused(w)
    <3>1. /\ worker'[w].pc = "retry" /\ worker'[w].case = worker[w].case
          /\ worker'[w].att = worker[w].att
      BY <1>0, <2>4 DEF PlaceRefused, Goto, Become, WorkerRecords
    <3> QED
      BY <1>3, <2>1, <3>1 DEF Writing
  <2> QED
    BY <1>8, <2>2, <2>3, <2>4
<1>9. CASE ReserveRefused(w) \/ ContactUnavailable(w) \/ Expire(w) \/ Bind(w)
           \/ MarkRetry(w) \/ MarkUncertain(w)
  BY <1>2, <1>9 DEF ReserveRefused, ContactUnavailable, Expire, Bind, MarkRetry, MarkUncertain
<1>10. CASE ExhaustList(w)
  <2>1. /\ worker'[w].pc = "exhaust_apply" /\ worker'[w].att = ReadActive
        /\ UNCHANGED repositoryVars
    BY <1>0, <1>10 DEF ExhaustList, Become, WorkerRecords
  <2>2. ReadActive = NoAttempt \/ ReadActive = attempts[ReadActive.sequence]
    <3>1. CASE Active = {}
      BY <3>1 DEF ReadActive
    <3>2. CASE Active # {}
      <4>1. LastActive \in Active
        BY <1>0, <3>2, ActiveTypes DEF TypeOK
      <4> QED
        BY <1>0, <3>2, <4>1 DEF ReadActive, Active, RowInv
    <3> QED
      BY <3>1, <3>2
  <2> QED
    BY <2>1, <2>2 DEF WorkerReads, Paired, Writing, repositoryVars
<1>11. CASE ExhaustApply(w)
  <2>1. \/ \E out : Done(w, out)
        \/ Become(w, [IdleWorker EXCEPT !.pc = "exhaust", !.retried = TRUE])
    BY <1>11 DEF ExhaustApply
  <2> QED
    BY <1>1, <1>2, <2>1, DoneReads DEF Become, Writing
<1> QED
  BY <1>2, <1>4, <1>5, <1>6, <1>7, <1>8, <1>9, <1>10, <1>11 DEF DispatchNext, Exhaust

LEMMA OtherWorkerReads ==
  ASSUME RowsInv, Kind, NEW w \in Workers, worker'[w] = worker[w]
  PROVE  WorkerReads(w)'
<1>1. Paired(worker[w])'
  BY KeptWorkerReads
<1> QED
  BY <1>1 DEF RowsInv, WorkerReads

LEMMA WorkersReadStep ==
  ASSUME RowsInv, LadderInv', Kind, [CoordinatorNext]_vars, NEW w \in Workers
  PROVE  WorkerReads(w)'
<1>1. worker \in [Workers -> WorkerRecords]
  BY DEF RowsInv, LadderInv, DispatchInv, TypeOK
<1>2. CASE worker'[w] = worker[w]
  BY <1>2, OtherWorkerReads
<1>3. ASSUME NEW v \in Workers, DispatchNext(v) \/ Exhaust(v), v # w
      PROVE  worker'[w] = worker[w]
  BY <1>1, <1>3 DEF DispatchNext, Start, ReuseAttempt, Reserve,
       ReserveRefused, ContactUnavailable, Claim, ClaimRefused, Expire, PlaceAccepted,
       PlaceUncertain, PlaceRefused, Bind, MarkRetry, MarkUncertain, Return, Crash,
       Exhaust, ExhaustRead, ExhaustList, ExhaustApply, Become, Done, Goto
<1>4. \/ worker' = worker
      \/ \E v \in Workers : DispatchNext(v) \/ Exhaust(v)
  BY DEF CoordinatorNext, vars, Webhook, Receive, RecordCallback, HandleCallback, RefuseCallback,
     Cancel, CancelRead, CancelList, CancelApply, Tick, processVars
<1> QED
  BY <1>2, <1>3, <1>4, WorkerReadStep

LEMMA RowsInvInit == CoordinatorInit => RowsInv
<1> SUFFICES ASSUME CoordinatorInit PROVE RowsInv
  OBVIOUS
<1>1. \A i \in Sequences3 : CallRow(i)
  BY DEF CoordinatorInit, RepositoryInit, CallRow, OnTheLine
<1>2. \A w \in Workers : WorkerReads(w)
  BY DEF CoordinatorInit, WorkerReads, Paired, Writing, IdleWorker
<1>3. CaseMatchesAttempts
  BY DEF CoordinatorInit, RepositoryInit, CaseMatchesAttempts
<1> QED
  BY <1>1, <1>2, <1>3, LadderInvInit DEF RowsInv

LEMMA RowsInvStep == RowsInv /\ [CoordinatorNext]_vars => RowsInv'
<1> SUFFICES ASSUME RowsInv, [CoordinatorNext]_vars PROVE RowsInv'
  OBVIOUS
<1>1. LadderInv' /\ Kind /\ Deed
  BY LadderInvStep, StepKinds, StepDeeds DEF RowsInv, LadderInv
<1> QED
  BY <1>1, CallRowStep, WorkersReadStep, MatchStep DEF RowsInv

(* Every process holds rows as they are or has lost its compare-and-swap,  *)
(* a bound attempt is no longer claimed, and the rows agree.               *)
THEOREM RowsInvariant == Spec => []RowsInv
  BY RowsInvInit, RowsInvStep, PTL DEF Spec

(* The case's row and the rows of its attempts never disagree, whoever     *)
(* writes them: the state shown to the operator is that of the last call,  *)
(* and while a call may be under way the case is due again only when its   *)
(* claim ends.                                                             *)
THEOREM CaseAlwaysMatchesAttempts == Spec => []CaseMatchesAttempts
<1>1. RowsInv => CaseMatchesAttempts
  BY DEF RowsInv
<1> QED
  BY <1>1, RowsInvariant, PTL

(* No callback, retry, expiry or cancellation takes an attempt back: its   *)
(* call stays bound, a live attempt keeps its stage or goes on, and an     *)
(* ended one ends otherwise only by a press or by a human's taking over.   *)
THEOREM AttemptsMoveForward == Spec => AttemptMovesForward
<1> DEFINE Step == \A i \in Sequences3 :
       LET old == attempts[i].status
           new == attempts'[i].status
       IN /\ attempts[i].ref # 0 => attempts'[i].ref = attempts[i].ref
          /\ old \in AttemptActive /\ new \in AttemptActive => Rank(old) <= Rank(new)
          /\ old \in AttemptTerminal
               => new \in {old, "acknowledged", "manual_follow_up"}
<1>1. RowsInv /\ [CoordinatorNext]_vars => [Step]_vars
  <2> SUFFICES ASSUME RowsInv, [CoordinatorNext]_vars, NEW i \in Sequences3 PROVE Forward(i)
    BY DEF Forward
  <2> QED
    BY StepDeeds, ForwardStep
<1>2. Spec => [][Step]_vars
  BY <1>1, RowsInvariant, PTL DEF Spec
<1> QED
  BY <1>2 DEF AttemptMovesForward

=============================================================================
