-------------------------- MODULE CandidateReview --------------------------
(***************************************************************************)
(* The review of one candidate detection: the API handler review_candidate *)
(* (src/api/app.py) inside its idempotency reservation, the service's      *)
(* review_candidate (src/data/video/service.py) and the transactions of    *)
(* the PostgreSQL store, against the steps that touch the same candidate:  *)
(* an analysis that stores it (again), the demo session's clean-up, and    *)
(* the sweep that lets candidates expire.                                  *)
(*                                                                         *)
(* Bodies are valid: what the handler refuses with 422, and what the       *)
(* service refuses for a role or a category, changes nothing.              *)
(***************************************************************************)
EXTENDS Idempotency

CONSTANTS
  Reviews,         \* the requests that review the candidate
  Decision,        \* body -> "confirmed" or "rejected"
  ExpiresAt,       \* the candidate's expires_at
  MaxTime,         \* bound: the clock
  MaxAnalyses,     \* bound: analyses of the clip
  MaxSessions      \* bound: demo sessions and expiry sweeps

ASSUME ReviewAssumption ==
  /\ Reviews \subseteq Requests
  /\ \A r \in Reviews : Decision[BodyOf[r]] \in {"confirmed", "rejected"}
  /\ {ExpiresAt, MaxTime, MaxAnalyses, MaxSessions} \subseteq Nat

VARIABLES
  simulated,   \* is the candidate's source the simulated road?
  candidate,   \* the candidate's status, or "absent"
  review,      \* the request whose review is stored
  event,       \* the request whose review was promoted to an event
  seen,        \* request -> the time its review is given (reviewed_at)
  audited,     \* requests with an entry in the API's audit log
  sweep,       \* the expiry sweep holds a copy of the candidate
  now, left    \* the clock, and what is left of the bounds

reviewVars == <<simulated, candidate, review, event, seen, audited, sweep, now, left>>
allVars == <<idempotencyVars, reviewVars>>

Verdict(r) == Decision[BodyOf[r]]

ReviewInit ==
  /\ IdempotencyInit
  /\ simulated \in BOOLEAN
  /\ candidate = "absent"
  /\ review = NoRequest
  /\ event = NoRequest
  /\ seen = [r \in Reviews |-> 0]
  /\ audited = {}
  /\ sweep = FALSE
  /\ now = 0
  /\ left = [analyses |-> MaxAnalyses, sessions |-> MaxSessions]

-----------------------------------------------------------------------------
(* The request.                                                            *)

(* The candidate is looked up before the reservation.                      *)
Find(r) ==
  /\ At(r, "new")
  /\ IF candidate = "absent" THEN Answer(r, "not_found", NoRequest)
                             ELSE Become(r, "reserve")
  /\ UNCHANGED <<records, trouble, reviewVars>>

(* The service looks for a review: the same again is its answer.           *)
Look(r) ==
  /\ At(r, "act")
  /\ IF review = NoRequest THEN Become(r, "decide")
     ELSE IF BodyOf[review] = BodyOf[r]
          THEN calls' = [calls EXCEPT ![r].pc = "audit", ![r].result = review]
          ELSE Fail(r, "already_final")
  /\ UNCHANGED <<records, trouble, reviewVars>>

Refused(r) ==
  IF candidate = "absent" THEN "not_found"
  ELSE IF candidate = "expired" \/ now >= ExpiresAt THEN "expired"
  ELSE IF simulated /\ Verdict(r) = "confirmed" THEN "prohibited" ELSE "none"

Decide(r) ==
  /\ At(r, "decide")
  /\ IF Refused(r) = "none" THEN Become(r, "write") /\ seen' = [seen EXCEPT ![r] = now]
                            ELSE Fail(r, Refused(r)) /\ UNCHANGED seen
  /\ UNCHANGED <<records, trouble, simulated, candidate, review, event, audited, sweep, now, left>>

(* Mutant of Write: the event is stored although the review was too late.  *)
WriteEventFirst(r) ==
  /\ At(r, "write")
  /\ event' = IF Verdict(r) = "confirmed" /\ event = NoRequest THEN r ELSE event
  /\ IF review # NoRequest \/ candidate = "absent"
     THEN /\ Fail(r, IF review # NoRequest THEN "already_final" ELSE "error")
          /\ UNCHANGED <<candidate, review>>
     ELSE /\ review' = r
          /\ candidate' = Verdict(r)
          /\ Become(r, "log")
  /\ UNCHANGED <<records, trouble, simulated, seen, audited, sweep, now, left>>

(* put_review, put_review_and_event: one transaction.  A review that is    *)
(* there, or (the foreign key) a candidate that is not, undoes all of it.  *)
Write(r) ==
  /\ At(r, "write")
  /\ IF review # NoRequest \/ candidate = "absent"
     THEN /\ Fail(r, IF review # NoRequest THEN "already_final" ELSE "error")
          /\ UNCHANGED <<candidate, review, event>>
     ELSE /\ review' = r
          /\ candidate' = Verdict(r)
          /\ event' = IF Verdict(r) = "confirmed" THEN r ELSE event
          /\ Become(r, "log")
  /\ UNCHANGED <<records, trouble, simulated, seen, audited, sweep, now, left>>

(* The service's own audit entry, and then the API's.                      *)
Log(r) ==
  /\ At(r, "log")
  /\ calls' = [calls EXCEPT ![r].pc = "audit", ![r].result = r]
  /\ UNCHANGED <<records, trouble, reviewVars>>

Audit(r) ==
  /\ At(r, "audit")
  /\ audited' = audited \cup {r}
  /\ Succeed(r, calls[r].result)
  /\ UNCHANGED <<records, trouble, simulated, candidate, review, event, seen, sweep, now, left>>

InAction == {"act", "decide", "write", "log", "audit"}

Reviewing(r) ==
  \/ Find(r) \/ Look(r) \/ Decide(r) \/ Write(r) \/ Log(r) \/ Audit(r)
  \/ Execute(r) /\ UNCHANGED reviewVars
ReviewFault(r) ==
  (DatabaseFails(r, InAction) \/ ProcessDies(r)) /\ UNCHANGED reviewVars

-----------------------------------------------------------------------------
(* The others.                                                             *)

(* put_candidate: what is there stays.                                     *)
PutCandidate ==
  /\ left.analyses > 0
  /\ left' = [left EXCEPT !.analyses = @ - 1]
  /\ candidate' = IF candidate = "absent" THEN "awaiting_review" ELSE candidate
  /\ UNCHANGED <<idempotencyVars, simulated, review, event, seen, audited, sweep, now>>

(* start_demo_session deletes what still awaits a review.                  *)
DeletePendingCandidates ==
  /\ left.sessions > 0
  /\ left' = [left EXCEPT !.sessions = @ - 1]
  /\ candidate' = IF candidate = "awaiting_review" /\ review = NoRequest
                  THEN "absent" ELSE candidate
  /\ UNCHANGED <<idempotencyVars, simulated, review, event, seen, audited, sweep, now>>

(* expire_due_candidates lists the candidates, and then writes each copy   *)
(* it made back as a whole, whatever became of the row.                    *)
ListDue ==
  /\ left.sessions > 0 /\ ~ sweep
  /\ candidate = "awaiting_review" /\ ExpiresAt <= now
  /\ left' = [left EXCEPT !.sessions = @ - 1]
  /\ sweep' = TRUE
  /\ UNCHANGED <<idempotencyVars, simulated, candidate, review, event, seen, audited, now>>
WriteExpired ==
  /\ sweep
  /\ sweep' = FALSE
  /\ candidate' = IF candidate = "absent" THEN candidate ELSE "expired"
  /\ UNCHANGED <<idempotencyVars, simulated, review, event, seen, audited, now, left>>

Tick ==
  /\ now < MaxTime
  /\ now' = now + 1
  /\ UNCHANGED <<idempotencyVars, simulated, candidate, review, event, seen, audited, sweep, left>>

ReviewNext ==
  \/ \E r \in Reviews : Reviewing(r) \/ ReviewFault(r)
  \/ PutCandidate \/ DeletePendingCandidates \/ ListDue \/ WriteExpired \/ Tick

ReviewSpec == ReviewInit /\ [][ReviewNext]_allVars

-----------------------------------------------------------------------------
(* Properties                                                              *)

(* The shape of the state.                                                 *)
ReviewTypeOK ==
  /\ records \in [Keys -> [state: {"none", "running", "completed"},
                           by: Requests \cup {NoRequest}, result: Requests \cup {NoRequest}]]
  /\ calls \in [Requests ->
       [pc: InAction \cup {"new", "reserve", "inspect", "complete", "undo", "done", "dead"},
        inserted: BOOLEAN,
        answer: {"none", "ok", "error", "conflict", "in_progress", "not_found",
                 "already_final", "expired", "prohibited"},
        result: Requests \cup {NoRequest}]]
  /\ trouble \in 0..MaxTrouble
  /\ simulated \in BOOLEAN
  /\ candidate \in {"absent", "awaiting_review", "confirmed", "rejected", "expired"}
  /\ {review, event} \subseteq Reviews \cup {NoRequest}
  /\ seen \in [Reviews -> 0..MaxTime]
  /\ audited \subseteq Reviews
  /\ sweep \in BOOLEAN /\ now \in 0..MaxTime
  /\ left \in [analyses: 0..MaxAnalyses, sessions: 0..MaxSessions]

(* What a review leaves behind is what it decided: the incident history    *)
(* holds an event exactly when the final review confirms, and then that    *)
(* review's (the one transaction of put_review_and_event); the simulated   *)
(* source has none, and no review is dated after the expiry.  A candidate  *)
(* with a review is kept, under its decision or, when the sweep held a     *)
(* copy of it, as expired (delete_pending_candidates, update_candidate).   *)
OutcomeFollowsReview ==
  /\ event = IF review # NoRequest /\ Verdict(review) = "confirmed" THEN review ELSE NoRequest
  /\ simulated => event = NoRequest
  /\ review # NoRequest => seen[review] < ExpiresAt
  /\ IF review = NoRequest THEN candidate \in {"absent", "awaiting_review", "expired"}
                           ELSE candidate \in {Verdict(review), "expired"}

(* Whoever is told of success has asked for just the decision that is      *)
(* stored, and it stays ("Candidate already has an immutable final review",*)
(* put_review): no racing reviewer, repetition, clean-up or sweep replaces *)
(* it.  The audit log shows it under his or an identical request.          *)
AnsweredReviewStands ==
  \A r \in Reviews :
    calls[r].answer = "ok" /\ At(r, "done") =>
      /\ calls[r].result = review /\ BodyOf[review] = BodyOf[r]
      /\ \E s \in audited : KeyOf[s] = KeyOf[r]

=============================================================================
