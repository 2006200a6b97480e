----------------------------- MODULE JobChain -----------------------------
(***************************************************************************)
(* What the durable jobs promise of a clip, without rows, messages, leases *)
(* or several workers: three stages, each opened once and in order, each   *)
(* begun a limited number of times and by one executor at a time.  At most *)
(* one copy of the clip is sent for each attempt, and none once one is     *)
(* recorded.  A stage that failed and that nobody executes is over; one    *)
(* that is completed is at most declared failed.                           *)
(***************************************************************************)
EXTENDS Naturals

CONSTANT Limit     \* stage -> how often it may be begun

VARIABLES
  stage,           \* stage -> "none", "waiting", "running", "completed", "failed"
  begun,           \* stage -> its attempts
  busy,            \* the stages somebody executes
  copies,          \* the copies of the clip that were sent
  recorded,        \* is one of them known?
  indexed          \* has its index been seen complete?

chainVars == <<stage, begun, busy, copies, recorded, indexed>>

Stages == {"upload", "index", "analyze"}
Before == [index |-> "upload", analyze |-> "index"]
Ended(s) == stage[s] \in {"completed", "failed"} /\ s \notin busy

ChainInit ==
  /\ stage = [s \in Stages |-> "none"] /\ begun = [s \in Stages |-> 0]
  /\ busy = {} /\ copies = 0
  /\ recorded = FALSE /\ indexed = FALSE

Open(s) ==
  /\ stage[s] = "none"
  /\ s \in DOMAIN Before => Ended(Before[s])
  /\ s = "index" => recorded
  /\ s = "analyze" => indexed
  /\ stage' = [stage EXCEPT ![s] = "waiting"]
  /\ UNCHANGED <<begun, busy, copies, recorded, indexed>>

Begin(s) ==
  /\ stage[s] = "waiting" /\ s \notin busy
  /\ begun[s] < Limit[s]
  /\ stage' = [stage EXCEPT ![s] = "running"]
  /\ begun' = [begun EXCEPT ![s] = @ + 1]
  /\ busy' = busy \cup {s}
  /\ UNCHANGED <<copies, recorded, indexed>>

SendCopy ==
  /\ "upload" \in busy /\ ~ recorded
  /\ copies < begun["upload"]
  /\ copies' = copies + 1
  /\ UNCHANGED <<stage, begun, busy, recorded, indexed>>

RecordCopy ==
  /\ "upload" \in busy /\ ~ recorded
  /\ copies > 0
  /\ recorded' = TRUE
  /\ UNCHANGED <<stage, begun, busy, copies, indexed>>

LookAtIndex ==
  /\ "index" \in busy
  /\ indexed' \in BOOLEAN
  /\ UNCHANGED <<stage, begun, busy, copies, recorded>>

(* Whoever executes a stage lets go of it: with its result, for another    *)
(* attempt, or because it dies or finds that somebody failed the stage.    *)
LetGo(s) ==
  /\ s \in busy
  /\ busy' = busy \ {s}
  /\ \/ stage' = [stage EXCEPT ![s] = "failed"]
     \/ begun[s] < Limit[s] /\ stage' = [stage EXCEPT ![s] = "waiting"]
     \/ /\ s = "upload" => recorded
        /\ s = "index" => indexed
        /\ stage' = [stage EXCEPT ![s] = "completed"]
     \/ UNCHANGED stage
  /\ UNCHANGED <<begun, copies, recorded, indexed>>

(* An unexpected error of anybody who handles a message of the stage.      *)
Break(s) ==
  /\ stage[s] # "none"
  /\ stage' = [stage EXCEPT ![s] = "failed"]
  /\ UNCHANGED <<begun, busy, copies, recorded, indexed>>

ChainNext ==
  \/ \E s \in Stages : Open(s) \/ Begin(s) \/ LetGo(s) \/ Break(s)
  \/ SendCopy \/ RecordCopy \/ LookAtIndex

ChainSpec == ChainInit /\ [][ChainNext]_chainVars

=============================================================================
