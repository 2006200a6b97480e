---------------------------- MODULE Escalation ----------------------------
(***************************************************************************)
(* What the dispatcher promises, without queues, claims, versions or       *)
(* callbacks: an authorized case climbs a ladder of at most three rungs    *)
(* (the primary contact twice, then the supervisor), dials once on each,   *)
(* climbs only when the call on the last rung has gone unanswered, and has *)
(* one outcome, which only a human's late answer may still change.         *)
(***************************************************************************)
EXTENDS Naturals

VARIABLES
  outcome,      \* "open", or how the case was closed
  rung,         \* the last rung climbed, 0 at the start
  dialled,      \* rung -> calls placed there
  unanswered    \* the rungs whose call has gone unanswered

escalationVars == <<outcome, rung, dialled, unanswered>>

Rungs == 1..3

EscalationInit ==
  /\ outcome = "open"
  /\ rung = 0
  /\ dialled = [i \in Rungs |-> 0]
  /\ unanswered = {}

Climb ==
  /\ outcome = "open"
  /\ rung < 3
  /\ 1..rung \subseteq unanswered
  /\ rung' = rung + 1
  /\ UNCHANGED <<outcome, dialled, unanswered>>

(* One call on the last rung.  A dispatcher that had decided to call may   *)
(* still do so after the case was closed.                                  *)
Dial ==
  /\ rung > 0
  /\ dialled[rung] = 0
  /\ dialled' = [dialled EXCEPT ![rung] = 1]
  /\ UNCHANGED <<outcome, rung, unanswered>>

Unanswered ==
  /\ outcome = "open"
  /\ rung > 0 /\ dialled[rung] = 1
  /\ unanswered' = unanswered \cup {rung}
  /\ outcome' = IF rung = 3 THEN "unacknowledged" ELSE "open"
  /\ UNCHANGED <<rung, dialled>>

(* Somebody who was called presses a key, be it late.                      *)
Answer(i) ==
  /\ outcome \in {"open", "unacknowledged"}
  /\ dialled[i] = 1
  /\ outcome' \in {"acknowledged", "manual_follow_up"}
  /\ unanswered' = unanswered \ {i}
  /\ UNCHANGED <<rung, dialled>>

(* The dispatcher hands the case to a human, or the operator cancels it.   *)
GiveUp ==
  /\ outcome = "open"
  /\ outcome' \in {"manual_follow_up", "canceled"}
  /\ UNCHANGED <<rung, dialled, unanswered>>

EscalationNext ==
  \/ Climb \/ Dial \/ Unanswered \/ GiveUp
  \/ \E i \in Rungs : Answer(i)

EscalationSpec == EscalationInit /\ [][EscalationNext]_escalationVars

=============================================================================
