---------------------------- MODULE DataProofs ----------------------------
(***************************************************************************)
(* Two parts of the data plane that share no variable, each with its       *)
(* inductive invariant.                                                    *)
(*                                                                         *)
(* IncidentHistory keeps its promises for any source, any number of runs   *)
(* and any failures, on either store.  That no line is skipped is not      *)
(* inductive: a run sets the checkpoint to the line it is at, so what that *)
(* run has behind it must be covered, from whatever checkpoint it started. *)
(* That a good event is in quarantine for a reason depends on why a run is *)
(* about to put its line there, and that the records add up on which lines *)
(* a run has counted at each step, and on a run counting nothing more once *)
(* its record has the counts.                                              *)
(*                                                                         *)
(* ModelRegistry keeps its own for any processes, requests and versions.   *)
(* What an approval file holds after a step is not inductive either: it is *)
(* what a request has prepared before, so the invariant follows a change   *)
(* from the version it chose to the entry in the audit log.                *)
(*                                                                         *)
(* Everything is proved of the parts' own specifications.  MCData, whose   *)
(* constants are as free here as the parts' are, puts them side by side,   *)
(* and its specification implies both.                                     *)
(***************************************************************************)
EXTENDS MCData, IdempotencyProofs, TLAPS

-----------------------------------------------------------------------------
(* The incidents.                                                          *)

Broken == {"failing", "raised", "dead"}
Counted(r) == inserted[r] \cup repeated[r] \cup refused[r]
Diverted(n) == \/ \E m \in accepted : Same(m, n) /\ ~ Twin(m, n)
               \/ sqlite /\ n \in gaveUp

(* What the steps of one run rely on.                                      *)
Placed(r) ==
  /\ from[r] <= at[r]
  /\ pc[r] \in {"insert", "quarantine"} => from[r] < at[r]
  /\ pc[r] = "insert" => tries[r] < MaxAttempts
  /\ pc[r] = "finish" => at[r] = Last
  /\ pc[r] \in {"new", "resume"} => at[r] = 0
  /\ status[r] = "completed" => pc[r] \in Broken \cup {"done"}
  /\ status[r] = "failed" => pc[r] = "raised"
  /\ status[r] = "none" => pc[r] = "new" /\ from[r] = 0
Behind(r) ==
  /\ pc[r] \in {"read", "commit", "finish"} => \A n \in 1..at[r] : Covered(n)
  /\ pc[r] \in {"insert", "quarantine"} => \A n \in 1..(at[r] - 1) : Covered(n)
  /\ status[r] = "completed" => \A n \in Lines : Covered(n)
Reason(r) == pc[r] = "quarantine" /\ Good(at[r]) => Diverted(at[r])
Tally(r) ==
  /\ Counted(r) \subseteq (from[r] + 1)..at[r]
  /\ pc[r] = "insert" => Counted(r) = (from[r] + 1)..(at[r] - 1)
  /\ pc[r] \in {"quarantine", "read", "commit", "finish"} => Counted(r) = (from[r] + 1)..at[r]
  /\ pc[r] \in Broken => (from[r] + 1)..(at[r] - 1) \subseteq Counted(r)
  /\ status[r] = "completed" => Counted(r) = (from[r] + 1)..Last
  /\ inserted[r] \cap repeated[r] = {} /\ inserted[r] \cap refused[r] = {}
  /\ repeated[r] \cap refused[r] = {}

\* The record has what the run has counted, or the run is not recorded yet.
Reported(r) ==
  report[r] = IF status[r] \in {"completed", "failed"} THEN Counts(r) ELSE NoCounts

(* What the history and its counts keep.                                   *)
Unique == \A m, n \in accepted : Same(m, n) => m = n
Owned ==
  /\ \A r \in Runs : inserted[r] \subseteq accepted
  /\ \A r, s \in Runs : r # s => inserted[r] \cap inserted[s] = {}
Told ==
  \A n \in accepted : \/ \E r \in Runs : n \in inserted[r]
                      \/ \E r \in Runs : at[r] = n /\ pc[r] \in Broken

HistoryInv ==
  /\ HistoryTypeOK
  /\ \A r \in Runs : Placed(r) /\ Behind(r) /\ Reason(r) /\ Tally(r) /\ Reported(r)
  /\ \A n \in 1..checkpoint : Covered(n)
  /\ \A n \in quarantined : Good(n) => Diverted(n)
  /\ Unique /\ Owned /\ Told

-----------------------------------------------------------------------------
(* A step of a run touches nothing of another one.                         *)
Apart(s) ==
  /\ pc'[s] = pc[s] /\ from'[s] = from[s] /\ at'[s] = at[s] /\ tries'[s] = tries[s]
  /\ status'[s] = status[s] /\ report'[s] = report[s]
  /\ inserted'[s] = inserted[s] /\ repeated'[s] = repeated[s] /\ refused'[s] = refused[s]

LEMMA OthersStay ==
  ASSUME HistoryTypeOK, NEW r \in Runs, Ingest(r), NEW s \in Runs \ {r}
  PROVE  Apart(s)
  BY DEF HistoryTypeOK, Apart, Goes, Count, counts, storeVars, recordVars, PutAside, Advance, Conclude, Ingest,
      StartRun, Resume,
     ReadLine, ReadEnd, InsertNew, InsertDuplicate, InsertConflict, Quarantine, Commit,
     Finish, FinishFailed, InsertRetried, InsertFails, RunFails, RunRaises, RunDies

(* The history, the quarantine and the record of what SQLite could not     *)
(* take only grow, so a line stays covered and a reason a reason.          *)
LEMMA StoresGrow ==
  ASSUME HistoryTypeOK, NEW r \in Runs, Ingest(r)
  PROVE  /\ sqlite' = sqlite
         /\ accepted \subseteq accepted' /\ quarantined \subseteq quarantined'
         /\ gaveUp \subseteq gaveUp'
  BY DEF HistoryTypeOK, Goes, Count, counts, storeVars, recordVars, PutAside, Advance, Conclude, Ingest, StartRun, Resume,
     ReadLine, ReadEnd, InsertNew, InsertDuplicate, InsertConflict, Quarantine, Commit,
     Finish, FinishFailed, InsertRetried, InsertFails, RunFails, RunRaises, RunDies, Failure

LEMMA StaysCovered ==
  ASSUME HistoryTypeOK, NEW r \in Runs, Ingest(r), NEW n
  PROVE  (Covered(n) => Covered(n)') /\ (Diverted(n) => Diverted(n)')
  BY StoresGrow DEF Covered, Diverted, Same, Twin

LEMMA OthersKeep ==
  ASSUME HistoryInv, NEW r \in Runs, Ingest(r), NEW s \in Runs \ {r}
  PROVE  Placed(s)' /\ Behind(s)' /\ Reason(s)' /\ Tally(s)' /\ Reported(s)'
<1>1. Apart(s) /\ Placed(s) /\ Behind(s) /\ Reason(s) /\ Tally(s) /\ Reported(s)
  BY OthersStay DEF HistoryInv
<1>2. \A n : (Covered(n) => Covered(n)') /\ (Diverted(n) => Diverted(n)')
  BY StaysCovered DEF HistoryInv
<1>3. Placed(s)'
  BY <1>1 DEF Apart, Placed
<1>4. Behind(s)'
  BY <1>1, <1>2 DEF Apart, Behind
<1>5. Reason(s)'
  BY <1>1, <1>2 DEF Apart, Reason, Good, Normalizes
<1>6. Tally(s)'
  BY <1>1 DEF Apart, Tally, Counted
<1>7. Reported(s)'
  BY <1>1 DEF Apart, Reported, Counts
<1> QED
  BY <1>3, <1>4, <1>5, <1>6, <1>7

-----------------------------------------------------------------------------
(* The run itself, one step after the other.                               *)

LEMMA TypePreserved ==
  ASSUME HistoryTypeOK, NEW r \in Runs, Placed(r), Ingest(r)
  PROVE  HistoryTypeOK'
<1> DEFINE Reports == [inserted: SUBSET Lines, repeated: SUBSET Lines, refused: SUBSET Lines]
<1> USE FeedAssumption DEF HistoryTypeOK, Goes, Count, counts, storeVars, recordVars, PutAside, Advance, Conclude, Lines, Ended
<1>1. CASE StartRun(r)  BY <1>1 DEF StartRun
<1>2. CASE Resume(r)  BY <1>2 DEF Resume
<1>3. CASE ReadLine(r)  BY <1>3 DEF ReadLine
<1>4. CASE ReadEnd(r)  BY <1>4 DEF ReadEnd
<1>5. CASE InsertNew(r)
  <2>1. at[r] \in Lines  BY <1>5 DEF InsertNew, Placed
  <2> QED  BY <1>5, <2>1 DEF InsertNew
<1>6. CASE InsertDuplicate(r)
  <2>1. at[r] \in Lines  BY <1>6 DEF InsertDuplicate, Placed
  <2> QED  BY <1>6, <2>1 DEF InsertDuplicate
<1>7. CASE InsertConflict(r)
  <2>1. at[r] \in Lines  BY <1>7 DEF InsertConflict, Placed
  <2> QED  BY <1>7, <2>1 DEF InsertConflict
<1>8. CASE Quarantine(r)
  <2>1. at[r] \in Lines  BY <1>8 DEF Quarantine, Placed
  <2> QED  BY <1>8, <2>1 DEF Quarantine
<1>9. CASE Commit(r)  BY <1>9 DEF Commit
<1>0. ASSUME NEW verdict \in {"completed", "failed"}, Conclude(r, verdict)
      PROVE  /\ status' \in [Runs -> {"none", "running", "completed", "failed"}]
             /\ report' \in [Runs -> Reports]
  <2>1. Counts(r) \in Reports
    BY DEF Counts
  <2>2. report' = [report EXCEPT ![r] = Counts(r)] /\ status' = [status EXCEPT ![r] = verdict]
    BY <1>0
  <2>3. report' \in [Runs -> Reports]
    BY <2>1, <2>2
  <2> QED
    BY <1>0, <2>2, <2>3
<1>10. CASE Finish(r)
  <2>1. Conclude(r, "completed")  BY <1>10 DEF Finish
  <2> QED  BY <1>10, <1>0, <2>1 DEF Finish
<1>11. CASE FinishFailed(r)
  <2>1. Conclude(r, "failed")  BY <1>11 DEF FinishFailed
  <2> QED  BY <1>11, <1>0, <2>1 DEF FinishFailed
<1>12. CASE InsertRetried(r)
  <2>1. at[r] \in Lines /\ tries[r] + 1 \in 0..MaxAttempts
    BY <1>12 DEF InsertRetried, Placed
  <2>2. tries' \in [Runs -> 0..MaxAttempts] /\ failures' \in Nat
    BY <1>12, <2>1 DEF InsertRetried, Failure
  <2>3. gaveUp' = gaveUp \/ gaveUp' = gaveUp \cup {at[r]}
    BY <1>12 DEF InsertRetried
  <2>4. refused' = refused \/ refused' = [refused EXCEPT ![r] = @ \cup {at[r]}]
    BY <1>12 DEF InsertRetried
  <2>5. gaveUp' \subseteq Lines
    BY <2>1, <2>3
  <2>6. refused' \in [Runs -> SUBSET Lines]
    <3>1. refused[r] \cup {at[r]} \in SUBSET Lines
      BY <2>1
    <3> QED  BY <2>4, <3>1
  <2>7. pc' \in [Runs -> {"resume", "read", "insert", "quarantine", "commit", "finish",
                       "failing"} \cup Ended]
    BY <1>12 DEF InsertRetried
  <2>8. UNCHANGED <<sqlite, accepted, quarantined, checkpoint, from, at, recordVars,
                    inserted, repeated>>
    BY <1>12 DEF InsertRetried
  <2> QED  BY <2>2, <2>5, <2>6, <2>7, <2>8
<1>13. CASE InsertFails(r)
  <2>1. at[r] \in Lines  BY <1>13 DEF InsertFails, Placed
  <2>2. failures' \in Nat /\ (accepted' = accepted \/ accepted' = accepted \cup {at[r]})
    BY <1>13 DEF InsertFails, Failure
  <2>3. accepted' \subseteq Lines
    BY <2>1, <2>2
  <2>4. pc' \in [Runs -> {"resume", "read", "insert", "quarantine", "commit", "finish",
                       "failing"} \cup Ended]
    BY <1>13 DEF InsertFails
  <2>5. UNCHANGED <<sqlite, quarantined, checkpoint, from, at, tries, recordVars, inserted,
                    repeated, refused, gaveUp>>
    BY <1>13 DEF InsertFails
  <2> QED  BY <2>2, <2>3, <2>4, <2>5
<1>14. CASE RunFails(r)
  <2>1. CASE pc[r] = "finish" /\ Conclude(r, "completed")
    BY <1>14, <1>0, <2>1 DEF RunFails, Failure
  <2>2. CASE pc[r] = "quarantine" /\ PutAside(r)
    <3>1. at[r] \in Lines  BY <2>2 DEF Placed
    <3>2. quarantined' \subseteq Lines /\ UNCHANGED <<accepted, checkpoint, recordVars>>
      BY <2>2, <3>1
    <3> QED  BY <1>14, <3>2 DEF RunFails, Failure
  <2>3. CASE pc[r] = "commit" /\ Advance(r)
    BY <1>14, <2>3 DEF RunFails, Failure
  <2>4. CASE UNCHANGED <<storeVars, recordVars>>
    BY <1>14, <2>4 DEF RunFails, Failure
  <2> QED  BY <1>14, <2>1, <2>2, <2>3, <2>4 DEF RunFails
<1>15. CASE RunRaises(r)
  <2>1. CASE Conclude(r, "failed")
    BY <1>15, <1>0, <2>1 DEF RunRaises, Failure
  <2>2. CASE UNCHANGED <<storeVars, recordVars>>
    BY <1>15, <2>2 DEF RunRaises, Failure
  <2> QED  BY <1>15, <2>1, <2>2 DEF RunRaises
<1>16. CASE RunDies(r)  BY <1>16 DEF RunDies, Failure
<1> QED
  BY <1>1, <1>2, <1>3, <1>4, <1>5, <1>6, <1>7, <1>8, <1>9, <1>10, <1>11, <1>12, <1>13,
     <1>14, <1>15, <1>16 DEF Ingest

LEMMA PlacedKept ==
  ASSUME HistoryTypeOK, NEW r \in Runs, Placed(r), Ingest(r)
  PROVE  Placed(r)'
  BY FeedAssumption DEF HistoryTypeOK, Placed, Goes, Count, counts, storeVars, recordVars, PutAside, Advance, Conclude, Broken, Ended,
     Ingest, StartRun, Resume, ReadLine, ReadEnd, InsertNew, InsertDuplicate, InsertConflict,
     Quarantine, Commit, Finish, FinishFailed, InsertRetried, InsertFails, RunFails,
     RunRaises, RunDies

LEMMA ReasonKept ==
  ASSUME HistoryTypeOK, NEW r \in Runs, Reason(r), Ingest(r)
  PROVE  Reason(r)'
  BY StaysCovered DEF HistoryTypeOK, Reason, Diverted, Goes, Count, counts, storeVars, recordVars, PutAside, Advance, Conclude, Ended,
     Good, Normalizes,
     Ingest, StartRun, Resume, ReadLine, ReadEnd, InsertNew, InsertDuplicate, InsertConflict,
     Quarantine, Commit, Finish, FinishFailed, InsertRetried, InsertFails, RunFails,
     RunRaises, RunDies

(* What a run counts, it counts at the line it reaches or finishes.        *)
LEMMA TallyKept ==
  ASSUME HistoryTypeOK, NEW r \in Runs, Placed(r), Tally(r), Ingest(r)
  PROVE  Tally(r)'
<1>0. \A a, b \in Nat : a < b => ((a + 1)..(b - 1)) \cup {b} = (a + 1)..b
  OBVIOUS
<1> USE FeedAssumption DEF HistoryTypeOK, Placed, Goes, counts, storeVars, recordVars, PutAside, Advance, Conclude, Ended
<1>1. CASE StartRun(r) \/ ReadEnd(r) \/ Quarantine(r) \/ Commit(r) \/ Finish(r)
           \/ FinishFailed(r) \/ InsertFails(r) \/ RunFails(r) \/ RunRaises(r) \/ RunDies(r)
  <2>1. UNCHANGED <<from[r], at[r], inserted[r], repeated[r], refused[r]>>
    BY <1>1 DEF StartRun, ReadEnd, Quarantine, Commit, Finish, FinishFailed, InsertFails,
       RunFails, RunRaises, RunDies
  <2>2. /\ pc'[r] # "insert"
        /\ pc'[r] \in {"quarantine", "read", "commit", "finish"} =>
             pc[r] \in {"quarantine", "read", "commit", "finish"}
        /\ status'[r] = "completed" => status[r] = "completed" \/ (pc[r] = "finish" /\ at[r] = Last)
    BY <1>1 DEF StartRun, ReadEnd, Quarantine, Commit, Finish, FinishFailed, InsertFails,
       RunFails, RunRaises, RunDies
  <2>3. pc'[r] \in Broken => (from[r] + 1)..(at[r] - 1) \subseteq Counted(r)
    <3>1. \/ pc'[r] \notin Broken
          \/ pc[r] \in {"insert", "quarantine", "read", "commit", "finish", "resume"} \cup Broken
      BY <1>1 DEF Broken, StartRun, ReadEnd, Quarantine, Commit, Finish, FinishFailed,
         InsertFails, RunFails, RunRaises, RunDies
    <3>2. from[r] \in Nat /\ at[r] \in Nat
      OBVIOUS
    <3>3. pc[r] = "resume" => at[r] = 0
      OBVIOUS
    <3> QED
      BY <3>1, <3>2, <3>3 DEF Tally
  <2> QED  BY <2>1, <2>2, <2>3 DEF Tally, Counted
<1>2. CASE Resume(r)
  BY <1>2 DEF Resume, Tally, Counted, Broken
<1>3. CASE ReadLine(r)
  <2>1. /\ from[r] \in Nat /\ at[r] \in Nat /\ from[r] <= at[r] /\ at'[r] = at[r] + 1
        /\ Counted(r) = (from[r] + 1)..at[r] /\ status'[r] # "completed"
        /\ UNCHANGED <<from, inserted, repeated>>
    BY <1>3 DEF ReadLine, Tally, Broken
  <2>2. \/ pc'[r] = "insert" /\ refused'[r] = refused[r]
        \/ pc'[r] = "quarantine" /\ refused'[r] = refused[r] \cup {at[r] + 1}
    BY <1>3 DEF ReadLine
  <2>3. ((from[r] + 1)..at[r]) \cup {at[r] + 1} = (from[r] + 1)..(at[r] + 1)
    BY <2>1
  <2>4. at[r] + 1 \notin (from[r] + 1)..at[r] /\ (at[r] + 1) - 1 = at[r]
    BY <2>1
  <2> QED  BY <1>3, <2>1, <2>2, <2>3, <2>4 DEF Tally, Counted, Broken
<1>4. CASE InsertNew(r) \/ InsertDuplicate(r) \/ InsertConflict(r) \/ InsertRetried(r)
  <2>1. /\ pc[r] = "insert" /\ UNCHANGED <<from, at, status>>
        /\ from[r] \in Nat /\ at[r] \in Nat /\ from[r] < at[r]
        /\ at[r] \notin Counted(r) /\ status[r] # "completed"
    BY <1>4 DEF InsertNew, InsertDuplicate, InsertConflict, InsertRetried, Tally, Broken
  <2>2. \/ /\ pc'[r] = "insert"
           /\ UNCHANGED <<inserted[r], repeated[r], refused[r]>>
        \/ /\ pc'[r] \in {"commit", "quarantine"}
           /\ \/ /\ inserted'[r] = inserted[r] \cup {at[r]}
                 /\ UNCHANGED <<repeated[r], refused[r]>>
              \/ /\ repeated'[r] = repeated[r] \cup {at[r]}
                 /\ UNCHANGED <<inserted[r], refused[r]>>
              \/ /\ refused'[r] = refused[r] \cup {at[r]}
                 /\ UNCHANGED <<inserted[r], repeated[r]>>
    BY <1>4 DEF InsertNew, InsertDuplicate, InsertConflict, InsertRetried, Count
  <2>3. ((from[r] + 1)..(at[r] - 1)) \cup {at[r]} = (from[r] + 1)..at[r]
    BY <1>0, <2>1
  <2> QED  BY <2>1, <2>2, <2>3 DEF Tally, Counted
<1> QED
  BY <1>1, <1>2, <1>3, <1>4 DEF Ingest

(* The record is written from the counts, after which the run counts       *)
(* nothing more.                                                           *)
LEMMA ReportKept ==
  ASSUME HistoryTypeOK, NEW r \in Runs, Placed(r), Reported(r), Ingest(r)
  PROVE  Reported(r)'
<1> USE DEF HistoryTypeOK, Goes, counts, storeVars, recordVars, PutAside, Advance
<1>1. CASE \/ Finish(r) \/ FinishFailed(r) \/ InsertFails(r) \/ ReadEnd(r) \/ Resume(r)
           \/ Quarantine(r) \/ Commit(r) \/ RunFails(r) \/ RunRaises(r) \/ RunDies(r)
  <2>1. UNCHANGED <<inserted, repeated, refused>>
    BY <1>1 DEF Finish, FinishFailed, InsertFails, ReadEnd, Resume, Quarantine, Commit,
       RunFails, RunRaises, RunDies
  <2>2. \/ status'[r] = status[r] /\ report'[r] = report[r]
        \/ status'[r] \in {"completed", "failed"} /\ report'[r] = Counts(r)
    BY <1>1 DEF Conclude, Finish, FinishFailed, InsertFails, ReadEnd, Resume, Quarantine, Commit,
       RunFails, RunRaises, RunDies
  <2> QED
    BY <2>1, <2>2 DEF Reported, Counts
<1>2. CASE \/ StartRun(r) \/ ReadLine(r) \/ InsertNew(r) \/ InsertDuplicate(r)
           \/ InsertConflict(r) \/ InsertRetried(r)
  <2>1. pc[r] \in {"new", "read", "insert"}
    BY <1>2 DEF StartRun, ReadLine, InsertNew, InsertDuplicate, InsertConflict, InsertRetried
  <2>2. status[r] \notin {"completed", "failed"}
    BY <2>1 DEF Placed, Broken
  <2>3. status'[r] \in {status[r], "running"} /\ report'[r] = report[r]
    BY <1>2 DEF StartRun, ReadLine, InsertNew, InsertDuplicate, InsertConflict, InsertRetried
  <2> QED
    BY <2>2, <2>3 DEF Reported
<1> QED
  BY <1>1, <1>2 DEF Ingest

(* A line is behind a run only after the history or the quarantine has it. *)
LEMMA BehindKept ==
  ASSUME HistoryInv, NEW r \in Runs, Ingest(r)
  PROVE  Behind(r)'
<1>1. \A n : Covered(n) => Covered(n)'
  BY StaysCovered DEF HistoryInv
<1>2. HistoryTypeOK /\ Placed(r) /\ Behind(r) /\ at[r] \in Nat
  BY DEF HistoryInv, HistoryTypeOK
<1> USE FeedAssumption DEF HistoryTypeOK, Placed, Goes, counts, storeVars, recordVars, PutAside, Advance, Conclude, Ended, Lines
<1>3. CASE StartRun(r) \/ ReadEnd(r) \/ Commit(r) \/ Finish(r)
           \/ FinishFailed(r) \/ InsertFails(r) \/ RunFails(r) \/ RunRaises(r) \/ RunDies(r)
  <2>1. at'[r] = at[r]
    BY <1>2, <1>3 DEF StartRun, ReadEnd, Commit, Finish, FinishFailed, InsertFails,
       RunFails, RunRaises, RunDies
  <2>2. /\ pc'[r] \notin {"insert", "quarantine"}
        /\ pc'[r] \in {"read", "commit", "finish"} => pc[r] \in {"read", "commit", "finish"}
        /\ status'[r] = "completed" => status[r] = "completed" \/ (pc[r] = "finish" /\ at[r] = Last)
    BY <1>2, <1>3 DEF StartRun, ReadEnd, Commit, Finish, FinishFailed, InsertFails,
       RunFails, RunRaises, RunDies
  <2> QED  BY <1>1, <1>2, <2>1, <2>2 DEF Behind
<1>4. CASE Resume(r)
  <2>1. /\ pc'[r] = "read" /\ at'[r] = checkpoint /\ status' = status
        /\ status[r] # "completed"
    BY <1>2, <1>4 DEF Resume, Broken
  <2> QED  BY <1>1, <2>1 DEF Behind, HistoryInv
<1>5. CASE ReadLine(r)
  <2>1. /\ pc'[r] \in {"insert", "quarantine"} /\ at'[r] = at[r] + 1 /\ status' = status
        /\ status[r] # "completed" /\ pc[r] = "read"
    BY <1>2, <1>5 DEF ReadLine, Broken
  <2> QED  BY <1>1, <1>2, <2>1 DEF Behind
<1>6. CASE InsertNew(r) \/ InsertDuplicate(r) \/ InsertConflict(r) \/ Quarantine(r)
           \/ InsertRetried(r)
  <2>1. /\ pc[r] \in {"insert", "quarantine"} /\ UNCHANGED <<at, status>>
        /\ status[r] # "completed"
    BY <1>2, <1>6 DEF InsertNew, InsertDuplicate, InsertConflict, Quarantine, InsertRetried,
       Broken
  <2>2. \/ pc'[r] \in {"insert", "quarantine"}
        \/ pc'[r] = "commit" /\ Covered(at[r])'
    BY <1>2, <1>6 DEF InsertNew, InsertDuplicate, InsertConflict, Quarantine, InsertRetried,
       Covered, Same, Twin
  <2>3. \A n \in 1..(at[r] - 1) : Covered(n)'
    BY <1>1, <1>2, <2>1 DEF Behind
  <2>4. \A k \in Nat : \A n \in 1..k : n \in 1..(k - 1) \/ n = k
    OBVIOUS
  <2> QED  BY <1>2, <2>1, <2>2, <2>3, <2>4 DEF Behind
<1> QED
  BY <1>3, <1>4, <1>5, <1>6 DEF Ingest

-----------------------------------------------------------------------------
(* The stores.                                                             *)

(* A checkpoint is set only to the line a run has got behind it, or by     *)
(* nobody.                                                                 *)
LEMMA CheckpointCovered ==
  ASSUME HistoryInv, NEW r \in Runs, Ingest(r)
  PROVE  \A n \in 1..checkpoint' : Covered(n)'
<1>1. \A n : Covered(n) => Covered(n)'
  BY StaysCovered DEF HistoryInv
<1>2. checkpoint' = checkpoint \/ (pc[r] = "commit" /\ checkpoint' = at[r])
  BY DEF counts, storeVars, recordVars, PutAside, Advance, Conclude, Ingest, StartRun, Resume,
     ReadLine, ReadEnd, InsertNew, InsertDuplicate, InsertConflict, Quarantine, Commit,
     Finish, FinishFailed, InsertRetried, InsertFails, RunFails, RunRaises, RunDies
<1> QED
  BY <1>1, <1>2 DEF HistoryInv, Behind

LEMMA DiversionsKept ==
  ASSUME HistoryInv, NEW r \in Runs, Ingest(r)
  PROVE  \A n \in quarantined' : Good(n) => Diverted(n)'
<1>1. \A n : Diverted(n) => Diverted(n)'
  BY StaysCovered DEF HistoryInv
<1>2. \/ quarantined' = quarantined
      \/ pc[r] = "quarantine" /\ quarantined' = quarantined \cup {at[r]}
  BY DEF counts, storeVars, recordVars, PutAside, Advance, Conclude, Ingest, StartRun, Resume,
     ReadLine, ReadEnd, InsertNew, InsertDuplicate, InsertConflict, Quarantine, Commit,
     Finish, FinishFailed, InsertRetried, InsertFails, RunFails, RunRaises, RunDies
<1> QED
  BY <1>1, <1>2 DEF HistoryInv, Reason

(* An event comes in only under an identity that nobody has, and is the    *)
(* run's own or the last it saw.                                           *)
LEMMA EventsOwned ==
  ASSUME HistoryInv, NEW r \in Runs, Ingest(r)
  PROVE  Unique' /\ Owned' /\ Told'
<1> USE DEF HistoryInv
<1>1. \A s \in Runs \ {r} : Apart(s)
  BY OthersStay
<1>2. \/ /\ UNCHANGED accepted
         /\ inserted'[r] = inserted[r]
         /\ pc[r] \in Broken => pc'[r] \in Broken /\ at'[r] = at[r]
      \/ /\ at[r] \notin accepted
         /\ \A m \in accepted : ~ Same(m, at[r])
         /\ accepted' = accepted \cup {at[r]}
         /\ pc[r] = "insert"
         /\ \/ inserted'[r] = inserted[r] \cup {at[r]}
            \/ inserted'[r] = inserted[r] /\ pc'[r] \in Broken /\ at'[r] = at[r]
  BY DEF HistoryTypeOK, Broken, Ended, Goes, Count, Same, counts, storeVars, recordVars, PutAside, Advance, Conclude, Ingest,
     StartRun, Resume, ReadLine, ReadEnd, InsertNew, InsertDuplicate, InsertConflict, Quarantine,
     Commit, Finish, FinishFailed, InsertRetried, InsertFails, RunFails, RunRaises, RunDies
<1>3. Unique'
  BY <1>2 DEF Unique, Same
<1>4. Owned'
  BY <1>1, <1>2 DEF Owned, Apart
<1>5. Told'
  BY <1>1, <1>2 DEF Told, Apart, Broken
<1> QED
  BY <1>3, <1>4, <1>5

-----------------------------------------------------------------------------
LEMMA InvariantStarts == HistoryInit => HistoryInv
  BY FeedAssumption DEF HistoryInit, HistoryInv, HistoryTypeOK, Placed, Behind, Reason, Tally,
     Counted, Reported, Counts, NoCounts, Unique, Owned, Told, Broken, Ended, Lines

LEMMA InvariantKept == HistoryInv /\ [HistoryNext]_historyVars => HistoryInv'
<1> SUFFICES ASSUME HistoryInv, [HistoryNext]_historyVars PROVE HistoryInv'
  OBVIOUS
<1>1. ASSUME NEW r \in Runs, Ingest(r) PROVE HistoryInv'
  <2>1. HistoryTypeOK'
    BY <1>1, TypePreserved DEF HistoryInv
  <2>2. Placed(r)' /\ Behind(r)' /\ Reason(r)' /\ Tally(r)' /\ Reported(r)'
    BY <1>1, PlacedKept, BehindKept, ReasonKept, TallyKept, ReportKept DEF HistoryInv
  <2>3. \A s \in Runs : Placed(s)' /\ Behind(s)' /\ Reason(s)' /\ Tally(s)' /\ Reported(s)'
    BY <1>1, <2>2, OthersKeep
  <2>4. (\A n \in 1..checkpoint : Covered(n))'
    BY <1>1, CheckpointCovered
  <2>5. (\A n \in quarantined : Good(n) => Diverted(n))'
    BY <1>1, DiversionsKept
  <2>6. Unique' /\ Owned' /\ Told'
    BY <1>1, EventsOwned
  <2> QED
    BY <2>1, <2>3, <2>4, <2>5, <2>6 DEF HistoryInv
<1>2. CASE UNCHANGED historyVars
  BY <1>2 DEF historyVars, storeVars, runVars, counts, recordVars, HistoryInv, HistoryTypeOK,
     Placed, Behind, Reason, Tally, Reported, Counts, Counted, Unique, Owned, Told, Covered, Diverted
<1> QED
  BY <1>1, <1>2 DEF HistoryNext

(* HistoryInv holds in every reachable state.                              *)
THEOREM HistoryInvariant == HistorySpec => []HistoryInv
  BY InvariantStarts, InvariantKept, PTL DEF HistorySpec

(* Every reachable state of an ingestion is well typed: the checkpoint is  *)
(* a line of the source and no insertion is tried more often than allowed. *)
THEOREM HistoryTypeCorrect == HistorySpec => []HistoryTypeOK
<1>1. HistoryInv => HistoryTypeOK
  BY DEF HistoryInv
<1> QED
  BY <1>1, HistoryInvariant, PTL

(* No line before the checkpoint is lost, and a completed run has covered  *)
(* the source, for any source and any number of overlapping runs of        *)
(* ingest_replay, wherever they fail or die.                               *)
THEOREM NoLineLost == HistorySpec => []NothingSkipped
<1>1. HistoryInv => NothingSkipped
  BY DEF HistoryInv, Behind, NothingSkipped
<1> QED
  BY <1>1, HistoryInvariant, PTL

(* A good event is in quarantine only for a conflict of its identity, or   *)
(* because SQLite could not take it.                                       *)
THEOREM GoodEventsNotDiverted == HistorySpec => []GoodEventsKept
<1>1. HistoryInv => GoodEventsKept
  BY DEF HistoryInv, Diverted, GoodEventsKept
<1> QED
  BY <1>1, HistoryInvariant, PTL

(* The runs' records agree with the history, for any source, any number of *)
(* overlapping runs and any failures: no event is reported twice as        *)
(* accepted, completed and failed runs report what they have passed, and   *)
(* only a run without a finished record leaves events unreported, but for  *)
(* the line at which one broke off.                                        *)
THEOREM CountsTellTheTruth == HistorySpec => []CountsAgree
<1>1. HistoryInv => CountsAgree
  <2> SUFFICES ASSUME HistoryInv PROVE CountsAgree
    OBVIOUS
  <2>1. ASSUME NEW r \in Runs
        PROVE  \/ /\ status[r] \in {"completed", "failed"}
                  /\ report[r].inserted = inserted[r] /\ report[r].repeated = repeated[r]
                  /\ report[r].refused = refused[r]
               \/ /\ status[r] \in {"none", "running"} /\ report[r].inserted = {}
                  /\ report[r].repeated = {} /\ report[r].refused = {}
    BY DEF HistoryInv, HistoryTypeOK, Reported, Counts, NoCounts
  <2>2. \A r \in Runs : status[r] = "none" => inserted[r] = {}
    BY DEF HistoryInv, HistoryTypeOK, Placed, Tally, Counted
  <2>3. ASSUME NEW r \in Runs, status[r] = "failed"
        PROVE  Counted(r) \in {(from[r] + 1)..at[r], (from[r] + 1)..(at[r] - 1)}
    <3>1. /\ (from[r] + 1)..(at[r] - 1) \subseteq Counted(r) /\ Counted(r) \subseteq (from[r] + 1)..at[r]
          /\ from[r] \in Nat /\ at[r] \in Nat
      BY <2>3 DEF HistoryInv, HistoryTypeOK, Placed, Tally, Broken
    <3>2. \A n \in (from[r] + 1)..at[r] : n \in (from[r] + 1)..(at[r] - 1) \/ n = at[r]
      BY <3>1
    <3>3. \A n \in (from[r] + 1)..(at[r] - 1) : n \in (from[r] + 1)..at[r] /\ n # at[r]
      BY <3>1
    <3>4. CASE at[r] \in Counted(r)
      BY <3>1, <3>2, <3>4
    <3>5. CASE at[r] \notin Counted(r)
      BY <3>1, <3>2, <3>3, <3>5
    <3> QED
      BY <3>4, <3>5
  <2>4. \A m, n \in accepted : Same(m, n) => m = n
    BY DEF HistoryInv, Unique
  <2>5. ASSUME NEW r \in Runs
        PROVE  /\ report[r].inserted \subseteq accepted
               /\ \A s \in Runs \ {r} : report[r].inserted \cap report[s].inserted = {}
    BY <2>1 DEF HistoryInv, Owned
  <2>6. ASSUME NEW r \in Runs
        PROVE  LET own == report[r]
                   lines == own.inserted \cup own.repeated \cup own.refused
               IN  /\ own.inserted \cap own.repeated = {} /\ own.inserted \cap own.refused = {}
                   /\ own.repeated \cap own.refused = {}
                   /\ status[r] = "completed" => lines = (from[r] + 1)..Last
                   /\ status[r] = "failed" =>
                        lines \in {(from[r] + 1)..at[r], (from[r] + 1)..(at[r] - 1)}
    BY <2>1, <2>3 DEF HistoryInv, Tally, Counted
  <2>7. ASSUME NEW n \in accepted
        PROVE  \E r \in Runs :
                 \/ n \in report[r].inserted
                 \/ n \in inserted[r] /\ status[r] = "running"
                 \/ at[r] = n /\ pc[r] \in {"failing", "raised", "dead"}
    BY <2>1, <2>2 DEF HistoryInv, Told, Broken
  <2> QED
    BY <2>4, <2>5, <2>6, <2>7 DEF CountsAgree
<1> QED
  BY <1>1, HistoryInvariant, PTL

-----------------------------------------------------------------------------
(* The approvals of models.                                                *)

RegistryPcs ==
  {"new", "reserve", "inspect", "act", "promote", "log", "complete", "undo", "done", "dead"}
    \cup Locked
Answers == {"none", "ok", "error", "conflict", "in_progress", "refused"}
RegistryCalls ==
  [pc: RegistryPcs, inserted: BOOLEAN, answer: Answers, result: Requests \cup {NoRequest}]
KeyRecords ==
  [state: {"none", "running", "completed"}, by: Requests \cup {NoRequest},
   result: Requests \cup {NoRequest}]
ChangeRecords ==
  [version: Versions \cup {NoVersion}, seen: Nat, new: Seq(ApprovalRecords),
   handle: {"none", "temp", "main"}]
Models == [version: Versions \cup {NoVersion}, frozen: Nat, raced: BOOLEAN]
Forecasts == [version: Versions, frozen: Nat, loaded: Nat, raced: BOOLEAN]
Written(content) == content = Torn \/ (content \in Seq(ApprovalRecords) /\ Linked(content))

\* The batch has a place for the forecast that the model is loaded for.
ReadingFits(p) ==
  /\ Len(batch[p]) <= BatchSize
  /\ reading[p] = NoModel \/ (reading[p].version \in Versions /\ Len(batch[p]) < BatchSize)

RegistryTypes ==
  /\ calls \in [Requests -> RegistryCalls] /\ records \in [Keys -> KeyRecords]
  /\ Written(main) /\ (temp = NoFile \/ Written(temp))
  /\ disk \in [Versions -> [artifacts: Nat, manifest: Nat]]
  /\ cache \in [Processes -> [Versions -> Nat]]
  /\ change \in [Approvers -> ChangeRecords]
  /\ reading \in [Processes -> Models]
  /\ batch \in [Schedulers -> Seq(Forecasts)] /\ published \in Seq(Forecasts)
  /\ \A p \in Schedulers : ReadingFits(p)
  /\ Len(published) \in {0, BatchSize}
  /\ logged \subseteq Approvers
  /\ crossed \in BOOLEAN

\* What a change holds, at once or alone.
ChangeInv(r) ==
  /\ calls[r].pc \in {"promote", "load", "read", "freeze"} => change[r].version \in Versions
  /\ Linked(change[r].new)
  /\ calls[r].answer = "ok" => calls[r].pc = "done"

\* The approvals are locked: within a process, and everywhere while none crossed.
Changing == {r \in Approvers : calls[r].pc \in Locked}
LockInv ==
  \A r, s \in Changing : (ProcessOf[r] = ProcessOf[s] \/ ~ crossed) => r = s

RollsBack(r) == Wanted[BodyOf[r]] = Rollback
\* A roll-back has found the version before the approval it saw.
Found(r) == change[r].seen \in 1..Len(main) /\ change[r].version = main[change[r].seen].previous
\* An approval by r that may follow the approvals of the file.
Follows(r, approval) ==
  /\ approval.by = r
  /\ RollsBack(r) =>
       /\ approval.seen # 0
       /\ approval.seen = Len(main) => approval.version = main[Len(main)].previous
Continues(r) ==
  LET new == change[r].new IN
  /\ Len(new) = Len(main) + 1 /\ \A k \in DOMAIN main : new[k] = main[k]
  /\ Follows(r, new[Len(new)])
Approved(r) == \E k \in DOMAIN main : main[k].by = r
ApprovedOf(forecast) ==
  \E j \in DOMAIN main : main[j].version = forecast.version /\ main[j].manifest = forecast.frozen
Answered(r) == Approved(r) /\ r \in logged

\* While no two processes wrote at once.
StepInv(r) ==
  /\ calls[r].pc \in {"promote", "load", "read", "freeze"} /\ RollsBack(r) => Found(r)
  /\ calls[r].pc \in {"open", "fill", "replace"} => Continues(r)
  /\ calls[r].pc = "fill" => change[r].handle = "temp"
  /\ calls[r].pc = "replace" => temp = change[r].new
  /\ calls[r].pc = "log" => Approved(r)
  /\ calls[r].pc = "complete" \/ calls[r].answer = "ok" => Answered(calls[r].result)
AloneInv ==
  /\ main # Torn
  /\ \A r \in Approvers : StepInv(r)
  /\ \A k \in Keys : records[k].state = "completed" => Answered(records[k].result)
  /\ \A k \in DOMAIN main : \A r \in Approvers :
       main[k].by = r /\ RollsBack(r) =>
         /\ main[k].seen # 0
         /\ main[k].seen = k - 1 => main[k].version = main[k - 1].previous
  /\ \A k \in DOMAIN published : ApprovedOf(published[k])
  /\ \A p \in Schedulers : \A k \in DOMAIN batch[p] : ApprovedOf(batch[p][k])
  /\ \A p \in Schedulers : reading[p] = NoModel \/ ApprovedOf(reading[p])

\* What was verified is what is loaded, unless training wrote in between.
Fresh(forecast) == forecast.raced \/ forecast.loaded = forecast.frozen
FreshInv ==
  /\ \A k \in DOMAIN published : Fresh(published[k])
  /\ \A p \in Schedulers : \A k \in DOMAIN batch[p] : Fresh(batch[p][k])
  /\ \A p \in Schedulers :
       \/ reading[p] = NoModel \/ reading[p].raced
       \/ disk[reading[p].version].artifacts = reading[p].frozen

RegistryInv ==
  /\ RegistryTypes
  /\ \A r \in Approvers : ChangeInv(r)
  /\ LockInv
  /\ ~ crossed => AloneInv
  /\ FreshInv

-----------------------------------------------------------------------------
(* What a step does to the approvals and to the request that takes it.     *)

LEMMA RegistryFacts ==
  ASSUME RegistryTypes
  PROVE  /\ calls \in [Requests -> RegistryCalls] /\ records \in [Keys -> KeyRecords]
         /\ \A r \in Approvers : r \in Requests /\ KeyOf[r] \in Keys /\ ProcessOf[r] \in Processes
         /\ change \in [Approvers -> ChangeRecords] /\ NoRequest \notin Requests
         /\ main = Torn \/ main \in Seq(ApprovalRecords)
  BY IdempotencyAssumption, RegistryAssumption DEF RegistryTypes, Written, Keys

\* Request r alone takes a step.
Turned(r, next, answer, result) ==
  /\ calls' \in [Requests -> RegistryCalls]
  /\ \A s \in Requests \ {r} : calls'[s] = calls[s]
  /\ calls'[r].pc = next /\ calls'[r].answer = answer /\ calls'[r].result = result
Proceeds(r, next) == Turned(r, next, calls[r].answer, calls[r].result)

LEMMA Becoming ==
  ASSUME RegistryTypes, NEW r \in Approvers, NEW next \in RegistryPcs, Become(r, next)
  PROVE  Proceeds(r, next)
<1>1. calls \in [Requests -> RegistryCalls] /\ r \in Requests
  BY RegistryFacts
<1> QED
  BY <1>1 DEF Become, Proceeds, Turned, RegistryCalls

LEMMA Answering ==
  ASSUME RegistryTypes, NEW r \in Approvers, NEW answer \in Answers,
         NEW result \in Requests \cup {NoRequest}, Answer(r, answer, result)
  PROVE  Turned(r, "done", answer, result)
<1>1. calls \in [Requests -> RegistryCalls] /\ r \in Requests /\ "done" \in RegistryPcs
  BY RegistryFacts DEF RegistryPcs
<1> QED
  BY <1>1 DEF Answer, Turned, RegistryCalls, Answers

LEMMA Failing ==
  ASSUME RegistryTypes, NEW r \in Approvers, NEW answer \in Answers, Fail(r, answer)
  PROVE  Turned(r, "undo", answer, NoRequest)
<1>1. calls \in [Requests -> RegistryCalls] /\ r \in Requests /\ "undo" \in RegistryPcs
  BY RegistryFacts DEF RegistryPcs
<1> QED
  BY <1>1 DEF Fail, Turned, RegistryCalls, Answers

\* The steps of the reservation, with no effect on the approvals.
Files == <<main, temp, disk, cache, change, inferenceVars, logged, crossed>>
NoneCompleted ==
  /\ records' \in [Keys -> KeyRecords]
  /\ \A k \in Keys : records'[k].state = "completed" => records'[k] = records[k]
Aside(r) == \* without what the request holds from the approvals
  \E next \in {"reserve", "inspect", "act", "undo", "done", "dead"}, answer \in Answers \ {"ok"},
     result \in Requests \cup {NoRequest} : Turned(r, next, answer, result)
Reserves(r) == Aside(r) /\ NoneCompleted /\ UNCHANGED Files
Repeats(r) ==
  /\ records[KeyOf[r]].state = "completed"
  /\ Turned(r, "done", "ok", records[KeyOf[r]].result) /\ UNCHANGED <<records, Files>>
Completes(r) ==
  /\ At(r, "complete") /\ UNCHANGED Files
  /\ \/ Turned(r, "done", "ok", calls[r].result)
     \/ Turned(r, "undo", "error", NoRequest)
  /\ records' \in [Keys -> KeyRecords] /\ records'[KeyOf[r]].result = calls[r].result
  /\ \A k \in Keys \ {KeyOf[r]} : records'[k] = records[k]

\* The steps of a change.
Shared == <<records, disk, inferenceVars>>
Quits(r) ==
  /\ Aside(r) /\ change' = [change EXCEPT ![r] = NoChange]
  /\ UNCHANGED <<Shared, main, temp, cache, logged, crossed>>
Looks(r) ==
  /\ At(r, "act") /\ RollsBack(r) /\ Proceeds(r, "promote")
  /\ main # Torn /\ Len(main) >= 2 /\ Latest.previous # NoVersion
  /\ change' = [change EXCEPT ![r] = [NoChange EXCEPT !.version = Latest.previous,
                                                      !.seen = Len(main)]]
  /\ UNCHANGED <<Shared, main, temp, cache, logged, crossed>>
Promotes(r) ==
  /\ Free(ProcessOf[r]) /\ Proceeds(r, "load")
  /\ \/ /\ At(r, "act") /\ ~ RollsBack(r)
        /\ change' = [change EXCEPT ![r] = [NoChange EXCEPT !.version = Wanted[BodyOf[r]]]]
     \/ At(r, "promote") /\ change' = change
  /\ crossed' = (crossed \/ \E p \in Processes : Changes(p))
  /\ UNCHANGED <<Shared, main, temp, cache, logged>>
Verifies(r) ==
  /\ At(r, "load") /\ (Proceeds(r, "read") \/ Proceeds(r, "freeze"))
  /\ UNCHANGED <<Shared, main, temp, cache, change, logged, crossed>>
Loads(r) ==
  /\ At(r, "read") /\ Proceeds(r, "freeze") /\ Load(ProcessOf[r], change[r].version)
  /\ UNCHANGED <<Shared, main, temp, change, logged, crossed>>
Added(r) == \* the approval r adds
  Approval(change[r].version, disk[change[r].version].manifest,
           IF main = <<>> THEN NoVersion ELSE Latest.version, r, change[r].seen)
Freezes(r) ==
  /\ At(r, "freeze") /\ Proceeds(r, "open") /\ main # Torn
  /\ change' = [change EXCEPT ![r].new = Append(main, Added(r))]
  /\ UNCHANGED <<Shared, main, temp, cache, logged, crossed>>
Opens(r) ==
  /\ At(r, "open") /\ Proceeds(r, "fill") /\ temp' = Torn
  /\ change' = [change EXCEPT ![r].handle = "temp"]
  /\ UNCHANGED <<Shared, main, cache, logged, crossed>>
Fills(r) ==
  /\ At(r, "fill") /\ Proceeds(r, "replace")
  /\ temp' = IF change[r].handle = "temp" THEN change[r].new ELSE temp
  /\ main' = IF change[r].handle = "main" THEN change[r].new ELSE main
  /\ UNCHANGED <<Shared, cache, change, logged, crossed>>
Replaces(r) ==
  /\ At(r, "replace") /\ Proceeds(r, "log") /\ temp # NoFile
  /\ main' = temp /\ temp' = NoFile
  /\ change' = [s \in Approvers |->
       IF s = r THEN NoChange ELSE [change[s] EXCEPT !.handle = Moved(@)]]
  /\ UNCHANGED <<Shared, cache, logged, crossed>>
Logs(r) ==
  /\ At(r, "log") /\ logged' = logged \cup {r} /\ Turned(r, "complete", calls[r].answer, r)
  /\ UNCHANGED <<Shared, main, temp, cache, change, crossed>>

\* The other processes, and training.
Falls(p) ==
  /\ calls' \in [Requests -> RegistryCalls] /\ change' \in [Approvers -> ChangeRecords]
  /\ \A r \in Requests :
       \/ calls'[r] = calls[r] /\ (r \in Approvers => change'[r] = change[r])
       \/ /\ r \in Approvers /\ calls[r].pc \notin {"new", "done"} /\ change'[r] = NoChange
          /\ calls'[r].pc = "dead" /\ calls'[r].answer = calls[r].answer
  /\ cache' = [cache EXCEPT ![p] = [v \in Versions |-> 0]]
  /\ reading' = [reading EXCEPT ![p] = NoModel]
  /\ batch' = [q \in Schedulers |-> IF q = p THEN <<>> ELSE batch[q]]
  /\ UNCHANGED <<records, main, temp, disk, published, logged, crossed>>
Trains ==
  /\ disk' \in [Versions -> [artifacts: Nat, manifest: Nat]]
  /\ reading' \in [Processes -> Models]
  /\ \A p \in Schedulers :
       LET model == reading[p] IN
       \/ reading'[p] = NoModel
       \/ /\ model # NoModel
          /\ reading'[p].version = model.version /\ reading'[p].frozen = model.frozen
          /\ \/ reading'[p].raced
             \/ ~ model.raced /\ disk'[model.version].artifacts = disk[model.version].artifacts
  /\ UNCHANGED <<calls, records, main, temp, cache, change, batch, published, logged, crossed>>
Chooses(p) ==
  /\ main \in Seq(ApprovalRecords) /\ main # <<>> /\ Len(batch[p]) < BatchSize
  /\ StillApproved(Latest.version)
  /\ reading' = [reading EXCEPT ![p] = Active(FALSE)]
  /\ UNCHANGED <<cache, batch, published>>
Infers(p, forecast) ==
  /\ Len(batch[p]) < BatchSize
  /\ batch' = [batch EXCEPT ![p] = Append(@, forecast)]
  /\ cache' \in [Processes -> [Versions -> Nat]]
  /\ \/ /\ main \in Seq(ApprovalRecords) /\ main # <<>>
        /\ forecast.version = Latest.version /\ forecast.frozen = Latest.manifest
        /\ Fresh(forecast)
     \/ /\ reading[p] # NoModel /\ forecast.version = reading[p].version
        /\ forecast.frozen = reading[p].frozen /\ forecast.raced = reading[p].raced
        /\ forecast.loaded = disk[reading[p].version].artifacts
  /\ \/ reading' = [reading EXCEPT ![p] = NoModel]
     \/ reading' = reading /\ reading[p] = NoModel
  /\ UNCHANGED published
EndsBatch(p) ==
  /\ batch' = [batch EXCEPT ![p] = <<>>]
  /\ reading' = reading \/ reading' = [reading EXCEPT ![p] = NoModel]
  /\ published' = published \/ (Len(batch[p]) = BatchSize /\ published' = batch[p])
  /\ UNCHANGED cache
Computes(p) ==
  /\ Chooses(p) \/ (\E forecast \in Forecasts : Infers(p, forecast)) \/ EndsBatch(p)
  /\ UNCHANGED <<calls, records, main, temp, disk, change, logged, crossed>>

ChangeKind(r) ==
  \/ Quits(r) \/ Looks(r) \/ Promotes(r) \/ Verifies(r) \/ Loads(r) \/ Freezes(r)
  \/ Opens(r) \/ Fills(r) \/ Replaces(r) \/ Logs(r)
RequestKind(r) == Reserves(r) \/ Repeats(r) \/ Completes(r) \/ ChangeKind(r)

LEMMA GoingAside ==
  ASSUME RegistryTypes, NEW r \in Approvers,
         calls[r].answer # "ok",
         \/ \E next \in {"reserve", "inspect", "act", "dead"} : Become(r, next)
         \/ \E answer \in Answers \ {"ok"} : Fail(r, answer)
         \/ \E answer \in Answers \ {"ok"} : Answer(r, answer, NoRequest)
  PROVE  Aside(r)
<1>1. CASE \E next \in {"reserve", "inspect", "act", "dead"} : Become(r, next)
  <2>1. PICK next \in {"reserve", "inspect", "act", "dead"} : Become(r, next)
    BY <1>1
  <2>2. calls[r].answer \in Answers \ {"ok"} /\ calls[r].result \in Requests \cup {NoRequest}
    BY RegistryFacts DEF RegistryCalls, Answers
  <2>3. Turned(r, next, calls[r].answer, calls[r].result)
    BY <2>1, Becoming DEF RegistryPcs, Proceeds
  <2> QED
    BY <2>2, <2>3 DEF Aside
<1>2. CASE \E answer \in Answers \ {"ok"} : Fail(r, answer)
  BY <1>2, Failing DEF Aside
<1>3. CASE \E answer \in Answers \ {"ok"} : Answer(r, answer, NoRequest)
  BY <1>3, Answering DEF Aside
<1> QED
  BY <1>1, <1>2, <1>3

LEMMA Quitting ==
  ASSUME RegistryTypes, NEW r \in Approvers, calls[r].answer # "ok",
         NEW answer \in {"error", "refused"}, Quit(r, answer)
  PROVE  Aside(r) /\ change' = [change EXCEPT ![r] = NoChange]
  BY GoingAside DEF Quit, Answers

LEMMA ReservationSteps ==
  ASSUME RegistryTypes, NEW r \in Approvers, calls[r].answer = "ok" => calls[r].pc = "done",
         Arriving(r) \/ Execute(r) \/ DatabaseFails(r, {"log"}), UNCHANGED registryVars
  PROVE  RequestKind(r)
<1>0. /\ calls \in [Requests -> RegistryCalls] /\ records \in [Keys -> KeyRecords]
      /\ r \in Requests /\ KeyOf[r] \in Keys /\ UNCHANGED Files
      /\ {"error", "conflict", "in_progress"} \subseteq Answers \ {"ok"} /\ "ok" \in Answers
  BY RegistryFacts DEF registryVars, Files, Answers
<1>k. records' = records => NoneCompleted
  BY <1>0 DEF NoneCompleted
<1>r. ASSUME RecordResult(r)
      PROVE  /\ records' \in [Keys -> KeyRecords]
             /\ \A k \in Keys \ {KeyOf[r]} : records'[k] = records[k]
             /\ records'[KeyOf[r]].result = calls[r].result
  <2>1. calls[r].result \in Requests \cup {NoRequest}
    BY <1>0 DEF RegistryCalls
  <2> QED
    BY <1>0, <1>r, <2>1 DEF RecordResult, KeyRecords
<1>1. CASE Arriving(r)
  BY <1>0, <1>1, <1>k, GoingAside DEF Arriving, At, Reserves, RequestKind
<1>2. CASE Reserve(r)
  <2>1. NoneCompleted
    BY <1>0, <1>2 DEF Reserve, Record, NoneCompleted, KeyRecords
  <2>2. Proceeds(r, "inspect")
    BY <1>0, <1>2 DEF Reserve, Proceeds, Turned, RegistryCalls, RegistryPcs
  <2>3. calls[r].answer \in Answers \ {"ok"} /\ calls[r].result \in Requests \cup {NoRequest}
    BY <1>0, <1>2 DEF Reserve, At, RegistryCalls, Answers
  <2> QED
    BY <1>0, <2>1, <2>2, <2>3 DEF Reserves, RequestKind, Aside, Proceeds
<1>3. CASE Inspect(r)
  <2>0. records' = records /\ calls[r].answer # "ok"
    BY <1>3 DEF Inspect, At
  <2>1. CASE Answer(r, "ok", Record(r).result) /\ Record(r).state = "completed"
    <3>1. Record(r).result \in Requests \cup {NoRequest}
      BY <1>0 DEF Record, KeyRecords
    <3>2. Turned(r, "done", "ok", Record(r).result)
      BY <1>0, <2>1, <3>1, Answering
    <3> QED
      BY <1>0, <2>0, <2>1, <3>2 DEF Repeats, Record, RequestKind
  <2>2. CASE ~ (Answer(r, "ok", Record(r).result) /\ Record(r).state = "completed")
    <3>1. \/ Become(r, "act")
          \/ \E answer \in {"error", "conflict", "in_progress"} : Answer(r, answer, NoRequest)
      BY <1>3, <2>2 DEF Inspect
    <3> QED
      BY <1>0, <1>k, <2>0, <3>1, GoingAside DEF Reserves, RequestKind
  <2> QED
    BY <2>1, <2>2
<1>4. CASE Complete(r)
  <2>0. calls[r].answer # "ok" /\ At(r, "complete")
    BY <1>4 DEF Complete, At
  <2>1. CASE Owns(r)
    <3>1. calls[r].result \in Requests \cup {NoRequest}
      BY <1>0 DEF RegistryCalls
    <3>2. Turned(r, "done", "ok", calls[r].result)
      BY <1>0, <1>4, <2>1, <3>1, Answering DEF Complete
    <3> QED
      BY <1>0, <1>4, <1>r, <2>0, <2>1, <3>2 DEF Complete, Completes, RequestKind
  <2>2. CASE ~ Owns(r)
    BY <1>0, <1>4, <1>k, <2>0, <2>2, GoingAside DEF Complete, Reserves, RequestKind
  <2> QED
    BY <2>1, <2>2
<1>5. CASE Undo(r)
  <2>1. NoneCompleted
    BY <1>0, <1>5, RegistryFacts DEF Undo, NoneCompleted, KeyRecords, NoRecord
  <2>2. calls[r].answer \in Answers \ {"ok"}
    BY <1>0, <1>5 DEF Undo, At, RegistryCalls, Answers
  <2>3. Aside(r)
    BY <1>5, <2>2, GoingAside DEF Undo
  <2> QED
    BY <1>0, <2>1, <2>3 DEF Reserves, RequestKind
<1>6. CASE DatabaseFails(r, {"log"})
  <2>1. calls[r].answer # "ok"
    BY <1>6 DEF DatabaseFails, At
  <2>2. CASE records' = records
    <3>1. Aside(r)
      BY <1>0, <1>6, <2>1, GoingAside DEF DatabaseFails
    <3> QED
      BY <1>0, <1>k, <2>2, <3>1 DEF Reserves, RequestKind
  <2>3. CASE At(r, "complete") /\ RecordResult(r) /\ Fail(r, "error")
    <3>1. Turned(r, "undo", "error", NoRequest)
      BY <1>0, <2>3, Failing
    <3> QED
      BY <1>0, <1>r, <2>3, <3>1 DEF Completes, RequestKind
  <2> QED
    BY <1>6, <2>2, <2>3 DEF DatabaseFails
<1> QED
  BY <1>1, <1>2, <1>3, <1>4, <1>5, <1>6 DEF Execute

LEMMA ChangeSteps ==
  ASSUME RegistryTypes, NEW r \in Approvers, calls[r].answer = "ok" => calls[r].pc = "done",
         \/ LookBack(r) \/ Promote(r) \/ VerifyModel(r) \/ LoadModel(r) \/ Freeze(r)
         \/ OpenTemp(r) \/ FillTemp(r) \/ Replace(r) \/ LogApproval(r) \/ StorageFails(r)
  PROVE  ChangeKind(r)
<1> USE DEF Shared
<1>p. {"promote", "load", "read", "freeze", "open", "fill", "replace", "log", "complete"}
        \subseteq RegistryPcs
  BY DEF RegistryPcs, Locked
<1>a. calls[r].pc # "done" => calls[r].answer # "ok"
  OBVIOUS
<1>1. CASE LookBack(r)
  <2>0. calls[r].answer # "ok" /\ At(r, "act") /\ RollsBack(r)
    BY <1>1 DEF LookBack, At, RollsBack
  <2>1. CASE main # Torn /\ Len(main) >= 2 /\ Latest.previous # NoVersion
    <3>1. /\ change' = [change EXCEPT ![r] = [NoChange EXCEPT !.version = Latest.previous,
                                                              !.seen = Len(main)]]
          /\ Become(r, "promote")
      <4>1. ~ (Len(main) < 2 \/ Latest.previous = NoVersion) /\ main # Torn
        <5>1. main \in Seq(ApprovalRecords)
          BY <2>1, RegistryFacts
        <5> QED
          BY <2>1, <5>1
      <4> QED
        BY <1>1, <4>1 DEF LookBack
    <3>2. Proceeds(r, "promote")
      BY <1>p, <3>1, Becoming
    <3> QED
      BY <1>1, <2>0, <2>1, <3>1, <3>2 DEF LookBack, Looks, ChangeKind
  <2>2. CASE ~ (main # Torn /\ Len(main) >= 2 /\ Latest.previous # NoVersion)
    <3>1. main = Torn \/ Len(main) < 2 \/ Latest.previous = NoVersion
      <4>1. CASE main # Torn
        <5>1. main \in Seq(ApprovalRecords)
          BY <4>1, RegistryFacts
        <5> QED
          BY <2>2, <4>1, <5>1
      <4> QED
        BY <4>1
    <3>2. Quit(r, "error") \/ Quit(r, "refused")
      BY <1>1, <3>1 DEF LookBack
    <3> QED
      BY <1>1, <2>0, <3>2, Quitting DEF LookBack, Quits, ChangeKind
  <2> QED
    BY <2>1, <2>2
<1>2. CASE Promote(r)
  <2>1. Proceeds(r, "load")
    BY <1>2, <1>p, Becoming DEF Promote
  <2> QED
    BY <1>2, <2>1 DEF Promote, Promotes, RollsBack, ChangeKind
<1>v. CASE VerifyModel(r)
  <2>1. CASE Verified(change[r].version)
    <3>1. Proceeds(r, "read") \/ Proceeds(r, "freeze")
      BY <1>v, <1>p, <2>1, Becoming DEF VerifyModel
    <3> QED
      BY <1>v, <2>1, <3>1 DEF VerifyModel, Verifies, ChangeKind
  <2>2. CASE ~ Verified(change[r].version)
    <3>1. Quit(r, "refused") /\ calls[r].answer # "ok"
      BY <1>v, <1>a, <2>2 DEF VerifyModel, At
    <3> QED
      BY <1>v, <2>2, <3>1, Quitting DEF VerifyModel, Quits, ChangeKind
  <2> QED
    BY <2>1, <2>2
<1>3. CASE LoadModel(r)
  <2>1. CASE Load(ProcessOf[r], change[r].version) /\ Become(r, "freeze") /\ UNCHANGED change
    <3>1. Proceeds(r, "freeze")
      BY <1>p, <2>1, Becoming
    <3> QED
      BY <1>3, <2>1, <3>1 DEF LoadModel, Loads, ChangeKind
  <2>2. CASE Quit(r, "refused") /\ UNCHANGED cache
    <3>1. calls[r].answer # "ok"
      BY <1>3, <1>a DEF LoadModel, At
    <3> QED
      BY <1>3, <2>2, <3>1, Quitting DEF LoadModel, Quits, ChangeKind
  <2> QED
    BY <1>3, <2>1, <2>2 DEF LoadModel
<1>4. CASE Freeze(r)
  <2>1. CASE main # Torn
    <3>1. Proceeds(r, "open")
      BY <1>4, <1>p, <2>1, Becoming DEF Freeze
    <3> QED
      BY <1>4, <2>1, <3>1 DEF Freeze, Freezes, Added, ChangeKind
  <2>2. CASE main = Torn
    <3>1. Quit(r, "error") /\ calls[r].answer # "ok"
      BY <1>4, <1>a, <2>2 DEF Freeze, At
    <3> QED
      BY <1>4, <2>2, <3>1, Quitting DEF Freeze, Quits, ChangeKind
  <2> QED
    BY <2>1, <2>2
<1>5. CASE OpenTemp(r)
  <2>1. Proceeds(r, "fill")
    BY <1>5, <1>p, Becoming DEF OpenTemp
  <2> QED
    BY <1>5, <2>1 DEF OpenTemp, Opens, ChangeKind
<1>6. CASE FillTemp(r)
  <2>1. Proceeds(r, "replace")
    BY <1>6, <1>p, Becoming DEF FillTemp
  <2> QED
    BY <1>6, <2>1 DEF FillTemp, Fills, ChangeKind
<1>7. CASE Replace(r)
  <2>1. CASE temp # NoFile
    <3>1. Proceeds(r, "log")
      BY <1>7, <1>p, <2>1, Becoming DEF Replace
    <3> QED
      BY <1>7, <2>1, <3>1 DEF Replace, Replaces, ChangeKind
  <2>2. CASE temp = NoFile
    <3>1. Quit(r, "error") /\ calls[r].answer # "ok"
      BY <1>7, <1>a, <2>2 DEF Replace, At
    <3> QED
      BY <1>7, <2>2, <3>1, Quitting DEF Replace, Quits, ChangeKind
  <2> QED
    BY <2>1, <2>2
<1>8. CASE LogApproval(r)
  <2>1. calls \in [Requests -> RegistryCalls] /\ r \in Requests
    BY RegistryFacts
  <2>2. Turned(r, "complete", calls[r].answer, r)
    BY <1>8, <1>p, <2>1 DEF LogApproval, Succeed, Turned, RegistryCalls
  <2> QED
    BY <1>8, <2>2 DEF LogApproval, Logs, ChangeKind
<1>9. CASE StorageFails(r)
  <2>1. Quit(r, "error") /\ calls[r].answer # "ok"
    BY <1>9, <1>a DEF StorageFails
  <2> QED
    BY <1>9, <2>1, Quitting DEF StorageFails, Quits, ChangeKind
<1> QED
  BY <1>1, <1>2, <1>v, <1>3, <1>4, <1>5, <1>6, <1>7, <1>8, <1>9

(* What inference does, and what training does to it.                      *)
LEMMA Inferring ==
  ASSUME RegistryTypes, NEW p \in Schedulers,
         InferCached(p) \/ Choose(p) \/ Infer(p) \/ InferFails(p) \/ PublishBatch(p)
  PROVE  Computes(p)
<1>0. /\ cache \in [Processes -> [Versions -> Nat]] /\ reading \in [Processes -> Models]
      /\ disk \in [Versions -> [artifacts: Nat, manifest: Nat]] /\ p \in Processes
      /\ ReadingFits(p)
  BY RegistryAssumption DEF RegistryTypes
<1>l. ASSUME MayInfer(p)
      PROVE  /\ main \in Seq(ApprovalRecords) /\ main # <<>> /\ Len(batch[p]) < BatchSize
             /\ Latest.version \in Versions /\ Latest.manifest \in Nat /\ reading[p] = NoModel
  <2>1. main \in Seq(ApprovalRecords) /\ main # <<>>
    BY <1>l, RegistryFacts DEF MayInfer
  <2>2. Latest \in ApprovalRecords
    BY <2>1 DEF Latest
  <2> QED
    BY <1>l, <2>1, <2>2 DEF MayInfer, Free, ApprovalRecords
<1>1. CASE InferCached(p)
  <2> DEFINE v == Latest.version
             raced == cache[p][v] # disk[v].artifacts
             forecast == [version |-> v, frozen |-> Latest.manifest, loaded |-> cache[p][v],
                          raced |-> raced]
  <2>1. MayInfer(p) /\ StillApproved(v)
    BY <1>1 DEF InferCached
  <2>2. /\ batch' = [batch EXCEPT ![p] = Append(batch[p], forecast)]
        /\ UNCHANGED <<reading, cache, published>>
        /\ UNCHANGED <<calls, records, main, temp, disk, change, logged, crossed>>
    BY <1>1 DEF InferCached, Forecast, Active, idempotencyVars
  <2>3. forecast \in Forecasts
    BY <1>0, <1>l, <2>1 DEF Forecasts
  <2>4. Fresh(forecast)
    BY <2>1 DEF Fresh, StillApproved, Verified
  <2>5. forecast.version = Latest.version /\ forecast.frozen = Latest.manifest
    OBVIOUS
  <2> HIDE DEF forecast, raced, v
  <2> QED
    BY <1>0, <1>l, <2>1, <2>2, <2>3, <2>4, <2>5 DEF Computes, Infers
<1>2. CASE Choose(p)
  BY <1>l, <1>2 DEF Choose, Chooses, Computes, idempotencyVars
<1>3. CASE Infer(p)
  <2> DEFINE v == reading[p].version
             forecast == [version |-> v, frozen |-> reading[p].frozen,
                          loaded |-> disk[v].artifacts, raced |-> reading[p].raced]
  <2>1. /\ reading[p] # NoModel /\ v \in Versions /\ Len(batch[p]) < BatchSize
        /\ cache' = [cache EXCEPT ![p][v] = disk[v].artifacts]
    BY <1>0, <1>3 DEF Infer, Load, ReadingFits
  <2>2. /\ batch' = [batch EXCEPT ![p] = Append(batch[p], forecast)]
        /\ reading' = [reading EXCEPT ![p] = NoModel] /\ UNCHANGED published
        /\ UNCHANGED <<calls, records, main, temp, disk, change, logged, crossed>>
    BY <1>3 DEF Infer, Forecast, idempotencyVars
  <2>3. forecast \in Forecasts /\ cache' \in [Processes -> [Versions -> Nat]]
    BY <1>0, <2>1 DEF Forecasts, Models
  <2>4. /\ forecast.version = reading[p].version /\ forecast.frozen = reading[p].frozen
        /\ forecast.raced = reading[p].raced
        /\ forecast.loaded = disk[reading[p].version].artifacts
    OBVIOUS
  <2> HIDE DEF forecast, v
  <2> QED
    BY <2>1, <2>2, <2>3, <2>4 DEF Computes, Infers
<1>4. CASE InferFails(p)
  BY <1>4 DEF InferFails, EndsBatch, Computes, idempotencyVars
<1>5. CASE PublishBatch(p)
  BY <1>5 DEF PublishBatch, EndsBatch, Computes, idempotencyVars
<1> QED
  BY <1>1, <1>2, <1>3, <1>4, <1>5

LEMMA Training ==
  ASSUME RegistryTypes, NEW v \in Versions, Train(v) \/ WriteManifest(v)
  PROVE  Trains
<1>0. /\ disk \in [Versions -> [artifacts: Nat, manifest: Nat]]
      /\ reading \in [Processes -> Models] /\ NoVersion \notin Versions
      /\ Schedulers \subseteq Processes /\ \A p \in Schedulers : ReadingFits(p)
  BY RegistryAssumption DEF RegistryTypes
<1>1. disk' \in [Versions -> [artifacts: Nat, manifest: Nat]]
  BY <1>0 DEF Train, WriteManifest
<1>2. UNCHANGED <<calls, records, main, temp, cache, change, batch, published, logged, crossed>>
  BY DEF Train, WriteManifest, idempotencyVars, inferenceVars
<1>3. /\ reading' \in [Processes -> Models]
      /\ \A p \in Processes :
           reading'[p] = [reading[p] EXCEPT !.raced = TRUE] \/ reading'[p] = reading[p]
  <2>1. \A p \in Processes : [reading[p] EXCEPT !.raced = TRUE] \in Models
    BY <1>0 DEF Models
  <2>2. CASE Train(v)
    BY <1>0, <2>1, <2>2 DEF Train
  <2>3. CASE WriteManifest(v)
    BY <1>0, <2>3 DEF WriteManifest, inferenceVars
  <2> QED
    BY <2>2, <2>3
<1>4. ASSUME NEW p \in Schedulers, reading'[p] # NoModel
      PROVE  /\ reading[p] # NoModel
             /\ reading'[p].version = reading[p].version /\ reading'[p].frozen = reading[p].frozen
             /\ \/ reading'[p].raced
                \/ /\ ~ reading[p].raced
                   /\ disk'[reading[p].version].artifacts = disk[reading[p].version].artifacts
  <2>1. reading[p] # NoModel
    BY <1>0, <1>4 DEF Train, WriteManifest, inferenceVars, NoModel
  <2>2. reading[p].version \in Versions /\ reading[p] \in Models /\ reading'[p] \in Models
    BY <1>0, <1>3, <2>1 DEF ReadingFits
  <2>3. reading'[p].version = reading[p].version /\ reading'[p].frozen = reading[p].frozen
    BY <1>0, <1>3, <2>2 DEF Models
  <2>4. CASE Train(v) /\ reading[p].version = v
    <3>1. reading'[p] = [reading[p] EXCEPT !.raced = TRUE]
      BY <1>0, <2>4 DEF Train
    <3>2. reading'[p].raced
      BY <2>2, <3>1 DEF Models
    <3> QED
      BY <2>1, <2>3, <3>2
  <2>5. CASE ~ (Train(v) /\ reading[p].version = v)
    <3>1. reading'[p] = reading[p]
      BY <1>0, <2>5 DEF Train, WriteManifest, inferenceVars
    <3>2. disk'[reading[p].version].artifacts = disk[reading[p].version].artifacts
      BY <1>0, <2>2, <2>5 DEF Train, WriteManifest
    <3> QED
      BY <2>1, <2>3, <3>1, <3>2
  <2> QED
    BY <2>4, <2>5
<1> QED
  BY <1>1, <1>2, <1>3, <1>4 DEF Trains

LEMMA RegistryKinds ==
  ASSUME RegistryTypes, \A r \in Approvers : ChangeInv(r),
         [RegistryNext]_<<idempotencyVars, registryVars>>
  PROVE  \/ UNCHANGED <<calls, records, Files>>
         \/ \E r \in Approvers : RequestKind(r)
         \/ \E p \in Processes : Falls(p)
         \/ \E p \in Schedulers : Computes(p)
         \/ Trains
<1>0. /\ calls \in [Requests -> RegistryCalls] /\ change \in [Approvers -> ChangeRecords]
      /\ \A r \in Approvers : r \in Requests
      /\ disk \in [Versions -> [artifacts: Nat, manifest: Nat]]
  BY RegistryFacts DEF RegistryTypes
<1>1. CASE UNCHANGED <<idempotencyVars, registryVars>>
  BY <1>1 DEF idempotencyVars, registryVars, inferenceVars, Files
<1>2. ASSUME NEW r \in Approvers, RegistryRequest(r) PROVE RequestKind(r)
  <2>1. calls[r].answer = "ok" => calls[r].pc = "done"
    BY DEF ChangeInv
  <2> QED
    BY <1>2, <2>1, ReservationSteps, ChangeSteps DEF RegistryRequest, RequestKind
<1>3. ASSUME NEW p \in Processes, RegistryProcessDies(p) PROVE Falls(p)
  <2>1. /\ calls' \in [Requests -> RegistryCalls]
        /\ \A r \in Requests :
             \/ calls'[r] = calls[r] /\ (r \in Approvers => change'[r] = change[r])
             \/ /\ r \in Approvers /\ calls[r].pc \notin {"new", "done"} /\ change'[r] = NoChange
                /\ calls'[r].pc = "dead" /\ calls'[r].answer = calls[r].answer
    BY <1>0, <1>3 DEF RegistryProcessDies, RegistryCalls, RegistryPcs
  <2>2. change' \in [Approvers -> ChangeRecords]
    BY <1>0, <1>3 DEF RegistryProcessDies, ChangeRecords, NoChange
  <2> QED
    BY <1>3, <2>1, <2>2 DEF RegistryProcessDies, Falls
<1>4. ASSUME NEW p \in Schedulers,
             InferCached(p) \/ Choose(p) \/ Infer(p) \/ InferFails(p) \/ PublishBatch(p)
      PROVE  Computes(p)
  BY <1>4, Inferring
<1>5. ASSUME NEW v \in Versions, Train(v) \/ WriteManifest(v) PROVE Trains
  BY <1>5, Training
<1> QED
  BY <1>1, <1>2, <1>3, <1>4, <1>5 DEF RegistryNext

-----------------------------------------------------------------------------
(* The types, and what a change holds.                                     *)

LEMMA AddedFits ==
  ASSUME RegistryTypes, NEW r \in Approvers, main # Torn, change[r].version \in Versions
  PROVE  /\ main \in Seq(ApprovalRecords)
         /\ Append(main, Added(r)) \in Seq(ApprovalRecords)
         /\ Linked(Append(main, Added(r)))
         /\ Added(r).by = r /\ Added(r).version = change[r].version
         /\ Added(r).seen = change[r].seen
<1>1. main \in Seq(ApprovalRecords) /\ Linked(main)
  BY DEF RegistryTypes, Written
<1>2. change[r].seen \in Nat /\ disk[change[r].version].manifest \in Nat
  BY DEF RegistryTypes, ChangeRecords
<1>p. (IF main = <<>> THEN NoVersion ELSE Latest.version) \in Versions \cup {NoVersion}
  <2>1. CASE main # <<>>
    <3>1. Latest \in ApprovalRecords
      BY <1>1, <2>1 DEF Latest
    <3> QED
      BY <2>1, <3>1 DEF ApprovalRecords
  <2> QED
    BY <2>1
<1>3. Added(r) \in ApprovalRecords
  BY <1>2, <1>p DEF Added, Approval, ApprovalRecords
<1>4. /\ Added(r).by = r /\ Added(r).version = change[r].version /\ Added(r).seen = change[r].seen
      /\ Added(r).previous = IF main = <<>> THEN NoVersion ELSE Latest.version
  BY DEF Added, Approval
<1>5. Linked(Append(main, Added(r)))
  <2> DEFINE new == Append(main, Added(r))
  <2> SUFFICES ASSUME NEW k \in DOMAIN new
               PROVE  new[k].previous = IF k = 1 THEN NoVersion ELSE new[k - 1].version
    BY DEF Linked
  <2>1. /\ k \in 1..(Len(main) + 1) /\ Len(main) \in Nat
        /\ \A j \in 1..Len(main) : new[j] = main[j]
        /\ new[Len(main) + 1] = Added(r)
    BY <1>1, <1>3
  <2>2. CASE k \in 1..Len(main)
    <3>1. new[k] = main[k] /\ k \in DOMAIN main /\ (k # 1 => new[k - 1] = main[k - 1])
      BY <1>1, <2>1, <2>2
    <3> QED
      BY <1>1, <3>1 DEF Linked
  <2>3. CASE k = Len(main) + 1 /\ main # <<>>
    <3>1. k # 1 /\ k - 1 = Len(main) /\ new[k - 1] = Latest
      BY <1>1, <2>1, <2>3 DEF Latest
    <3> QED
      BY <1>4, <2>1, <2>3, <3>1
  <2>4. CASE k = Len(main) + 1 /\ main = <<>>
    <3>1. k = 1
      BY <2>4
    <3> QED
      BY <1>4, <2>1, <2>4, <3>1
  <2> QED
    BY <2>1, <2>2, <2>3, <2>4
<1> QED
  BY <1>1, <1>3, <1>4, <1>5

NoChangeFits == NoChange \in ChangeRecords /\ Linked(NoChange.new)
LEMMA NoChangeIsOne == NoChangeFits
  BY DEF NoChangeFits, NoChange, ChangeRecords, Linked

\* The change of a request after its step.
LEMMA ChangeAfter ==
  ASSUME RegistryTypes, NEW r \in Approvers, ChangeInv(r), ChangeKind(r)
  PROVE  /\ change' \in [Approvers -> ChangeRecords]
         /\ \A s \in Approvers : Linked(change[s].new) => Linked(change'[s].new)
<1>0. change \in [Approvers -> ChangeRecords] /\ NoChangeFits
  BY RegistryFacts, NoChangeIsOne
<1>1. CASE Quits(r)
  BY <1>0, <1>1 DEF Quits, NoChangeFits
<1>2. CASE Looks(r)
  <2>1. main \in Seq(ApprovalRecords) /\ Len(main) \in 1..Len(main)
    BY <1>2, RegistryFacts DEF Looks
  <2>2. Latest \in ApprovalRecords
    BY <2>1 DEF Latest
  <2>3. Latest.previous \in Versions \cup {NoVersion} /\ Len(main) \in Nat
    BY <2>1, <2>2 DEF ApprovalRecords
  <2>4. change' = [change EXCEPT ![r] = [NoChange EXCEPT !.version = Latest.previous,
                                                         !.seen = Len(main)]]
    BY <1>2 DEF Looks
  <2> QED
    BY <1>0, <2>3, <2>4 DEF ChangeRecords, NoChangeFits
<1>3. CASE Promotes(r)
  <2>1. CASE change' = change
    BY <1>0, <2>1
  <2>2. CASE change' # change
    <3>1. /\ change' = [change EXCEPT ![r] = [NoChange EXCEPT !.version = Wanted[BodyOf[r]]]]
          /\ ~ RollsBack(r)
      BY <1>3, <2>2 DEF Promotes
    <3>2. Wanted[BodyOf[r]] \in Versions
      BY <3>1, RegistryAssumption DEF RollsBack
    <3> QED
      BY <1>0, <3>1, <3>2 DEF ChangeRecords, NoChangeFits
  <2> QED
    BY <2>1, <2>2
<1>v. CASE Verifies(r)
  BY <1>0, <1>v DEF Verifies
<1>4. CASE Loads(r)
  BY <1>0, <1>4 DEF Loads
<1>5. CASE Freezes(r)
  <2>1. change[r].version \in Versions /\ main # Torn
    BY <1>5 DEF Freezes, At, ChangeInv
  <2>2. Append(main, Added(r)) \in Seq(ApprovalRecords) /\ Linked(Append(main, Added(r)))
    BY <2>1, AddedFits
  <2>3. change' = [change EXCEPT ![r].new = Append(main, Added(r))]
    BY <1>5 DEF Freezes
  <2> QED
    BY <1>0, <2>2, <2>3 DEF ChangeRecords
<1>6. CASE Opens(r)
  BY <1>0, <1>6 DEF Opens, ChangeRecords
<1>7. CASE Fills(r)
  BY <1>0, <1>7 DEF Fills
<1>8. CASE Replaces(r)
  <2>1. \A s \in Approvers : Moved(change[s].handle) \in {"none", "temp", "main"}
    BY <1>0 DEF Moved, ChangeRecords
  <2>2. change' = [s \in Approvers |->
          IF s = r THEN NoChange ELSE [change[s] EXCEPT !.handle = Moved(change[s].handle)]]
    BY <1>8 DEF Replaces
  <2> QED
    BY <1>0, <2>1, <2>2 DEF ChangeRecords, NoChangeFits
<1>9. CASE Logs(r)
  BY <1>0, <1>9 DEF Logs
<1> QED
  BY <1>1, <1>2, <1>3, <1>v, <1>4, <1>5, <1>6, <1>7, <1>8, <1>9 DEF ChangeKind

\* The files after a step.
FileTypes ==
  /\ Written(main) /\ (temp = NoFile \/ Written(temp))
  /\ disk \in [Versions -> [artifacts: Nat, manifest: Nat]]
  /\ cache \in [Processes -> [Versions -> Nat]]
  /\ logged \subseteq Approvers
ForecastTypes ==
  /\ reading \in [Processes -> Models]
  /\ batch \in [Schedulers -> Seq(Forecasts)] /\ published \in Seq(Forecasts)
  /\ \A p \in Schedulers : ReadingFits(p)
  /\ Len(published) \in {0, BatchSize}

LEMMA Loading ==
  ASSUME RegistryTypes, NEW p \in Processes, NEW v \in Versions, Load(p, v)
  PROVE  cache' \in [Processes -> [Versions -> Nat]]
<1>1. /\ cache \in [Processes -> [Versions -> Nat]]
      /\ disk \in [Versions -> [artifacts: Nat, manifest: Nat]]
  BY DEF RegistryTypes
<1>2. cache' = [cache EXCEPT ![p][v] = disk[v].artifacts] /\ disk[v].artifacts \in Nat
  BY <1>1 DEF Load
<1> QED
  BY <1>1, <1>2

LEMMA FilesAfter ==
  ASSUME RegistryTypes, NEW r \in Approvers, ChangeInv(r), ChangeKind(r)
  PROVE  FileTypes'
<1>0. FileTypes /\ change \in [Approvers -> ChangeRecords] /\ ProcessOf[r] \in Processes
  BY RegistryFacts DEF RegistryTypes, FileTypes
<1>n. Written(change[r].new) /\ Written(Torn)
  BY <1>0 DEF Written, ChangeInv, ChangeRecords
<1>1. CASE Quits(r)
  BY <1>0, <1>1 DEF Quits, FileTypes, Shared
<1>2. CASE Looks(r)
  BY <1>0, <1>2 DEF Looks, FileTypes, Shared
<1>3. CASE Promotes(r)
  BY <1>0, <1>3 DEF Promotes, FileTypes, Shared
<1>v. CASE Verifies(r)
  BY <1>0, <1>v DEF Verifies, FileTypes, Shared
<1>4. CASE Loads(r)
  <2>1. change[r].version \in Versions
    BY <1>4 DEF Loads, At, ChangeInv
  <2>2. cache' \in [Processes -> [Versions -> Nat]]
    BY <1>0, <1>4, <2>1, Loading DEF Loads
  <2> QED
    BY <1>0, <1>4, <2>2 DEF Loads, FileTypes, Shared
<1>5. CASE Freezes(r)
  BY <1>0, <1>5 DEF Freezes, FileTypes, Shared
<1>6. CASE Opens(r)
  BY <1>0, <1>n, <1>6 DEF Opens, FileTypes, Shared
<1>7. CASE Fills(r)
  BY <1>0, <1>n, <1>7 DEF Fills, FileTypes, Shared
<1>8. CASE Replaces(r)
  BY <1>0, <1>8 DEF Replaces, FileTypes, Shared
<1>9. CASE Logs(r)
  BY <1>0, <1>9 DEF Logs, FileTypes, Shared
<1> QED
  BY <1>1, <1>2, <1>3, <1>v, <1>4, <1>5, <1>6, <1>7, <1>8, <1>9 DEF ChangeKind

LEMMA FlagAfter ==
  ASSUME crossed \in BOOLEAN, NEW r \in Approvers, ChangeKind(r)
  PROVE  crossed' \in BOOLEAN
  BY DEF ChangeKind, Quits, Looks, Promotes, Verifies, Loads, Freezes, Opens, Fills, Replaces, Logs

LEMMA CallsAfter ==
  ASSUME NEW r \in Approvers, RequestKind(r)
  PROVE  calls' \in [Requests -> RegistryCalls]
  BY DEF RequestKind, Reserves, Repeats, Completes, Aside, ChangeKind, Quits, Looks, Promotes, Verifies, Loads,
         Freezes, Opens, Fills, Replaces, Logs, Proceeds, Turned

LEMMA RecordsAfter ==
  ASSUME RegistryTypes, NEW r \in Approvers, RequestKind(r)
  PROVE  records' \in [Keys -> KeyRecords]
  BY DEF RegistryTypes, RequestKind, Reserves, NoneCompleted, Repeats, Completes, ChangeKind, Quits,
         Looks, Promotes, Verifies, Loads, Freezes, Opens, Fills, Replaces, Logs, Shared

LEMMA ForecastsStay ==
  ASSUME NEW r \in Approvers, RequestKind(r)
  PROVE  UNCHANGED <<reading, batch, published>>
  BY DEF inferenceVars, RequestKind, Reserves, Repeats, Completes, Files, ChangeKind, Quits,
         Looks, Promotes, Verifies, Loads, Freezes, Opens, Fills, Replaces, Logs, Shared

\* Inference keeps the types.
LEMMA ComputingKept ==
  ASSUME RegistryTypes, NEW p \in Schedulers, Computes(p)
  PROVE  ForecastTypes' /\ cache' \in [Processes -> [Versions -> Nat]]
<1>0. /\ ForecastTypes /\ cache \in [Processes -> [Versions -> Nat]] /\ p \in Processes
      /\ BatchSize \in Nat \ {0}
  BY RegistryAssumption DEF RegistryTypes, ForecastTypes
<1>n. NoModel \in Models
  BY DEF NoModel, Models
<1>1. CASE Chooses(p)
  <2>1. Latest \in ApprovalRecords
    BY <1>1 DEF Chooses, Latest
  <2>2. Active(FALSE) \in Models /\ Active(FALSE).version \in Versions
    BY <2>1 DEF Active, Models, ApprovalRecords
  <2>3. UNCHANGED <<cache, batch, published>> /\ reading' = [reading EXCEPT ![p] = Active(FALSE)]
        /\ Len(batch[p]) < BatchSize
    BY <1>1 DEF Chooses
  <2>4. reading' \in [Processes -> Models] /\ \A q \in Schedulers : ReadingFits(q)'
    BY <1>0, <2>2, <2>3, RegistryAssumption DEF ForecastTypes, ReadingFits
  <2> QED
    BY <1>0, <2>3, <2>4 DEF ForecastTypes
<1>2. CASE \E forecast \in Forecasts : Infers(p, forecast)
  <2>1. PICK forecast \in Forecasts : Infers(p, forecast)
    BY <1>2
  <2>2. /\ batch' = [batch EXCEPT ![p] = Append(batch[p], forecast)] /\ published' = published
        /\ Len(batch[p]) < BatchSize /\ cache' \in [Processes -> [Versions -> Nat]]
        /\ reading' = [reading EXCEPT ![p] = NoModel] \/ (reading' = reading /\ reading[p] = NoModel)
    BY <2>1 DEF Infers
  <2>3. batch[p] \in Seq(Forecasts) /\ batch \in [Schedulers -> Seq(Forecasts)]
    BY <1>0 DEF ForecastTypes
  <2>4. /\ batch' \in [Schedulers -> Seq(Forecasts)] /\ Len(batch'[p]) <= BatchSize
        /\ \A q \in Schedulers \ {p} : batch'[q] = batch[q]
    BY <1>0, <2>2, <2>3
  <2>5. /\ reading' \in [Processes -> Models] /\ reading'[p] = NoModel
        /\ \A q \in Schedulers \ {p} : reading'[q] = reading[q]
    <3>1. reading \in [Processes -> Models] /\ Schedulers \subseteq Processes
      BY <1>0, RegistryAssumption DEF ForecastTypes
    <3>2. CASE reading' = [reading EXCEPT ![p] = NoModel]
      BY <1>0, <1>n, <3>1, <3>2
    <3>3. CASE reading' = reading /\ reading[p] = NoModel
      BY <3>1, <3>3
    <3> QED
      BY <2>2, <3>2, <3>3
  <2>6. \A q \in Schedulers : ReadingFits(q)'
    BY <1>0, <2>4, <2>5 DEF ForecastTypes, ReadingFits
  <2> QED
    BY <1>0, <2>2, <2>4, <2>5, <2>6 DEF ForecastTypes
<1>3. CASE EndsBatch(p)
  <2>1. /\ batch' = [batch EXCEPT ![p] = <<>>] /\ cache' = cache
        /\ reading' = reading \/ reading' = [reading EXCEPT ![p] = NoModel]
        /\ published' = published \/ (Len(batch[p]) = BatchSize /\ published' = batch[p])
    BY <1>3 DEF EndsBatch
  <2>2. /\ batch' \in [Schedulers -> Seq(Forecasts)] /\ batch'[p] = <<>>
        /\ \A q \in Schedulers \ {p} : batch'[q] = batch[q]
    BY <1>0, <2>1 DEF ForecastTypes
  <2>3. /\ reading' \in [Processes -> Models]
        /\ \A q \in Schedulers : reading'[q] = reading[q] \/ reading'[q] = NoModel
    BY <1>0, <1>n, <2>1, RegistryAssumption DEF ForecastTypes
  <2>4. published' \in Seq(Forecasts) /\ Len(published') \in {0, BatchSize}
    BY <1>0, <2>1 DEF ForecastTypes
  <2>5. \A q \in Schedulers : ReadingFits(q)'
    <3>1. Len(<<>>) = 0
      OBVIOUS
    <3>2. \A q \in Schedulers : ReadingFits(q)
      BY <1>0 DEF ForecastTypes
    <3>3. Len(batch'[p]) = 0
      BY <2>2, <3>1
    <3>4. ReadingFits(p)'
      <4>1. Len(batch'[p]) <= BatchSize /\ Len(batch'[p]) < BatchSize
        BY <1>0, <3>3
      <4> QED
        BY <2>3, <3>2, <4>1 DEF ReadingFits
    <3>5. ASSUME NEW q \in Schedulers \ {p} PROVE ReadingFits(q)'
      BY <2>2, <2>3, <3>2, <3>5 DEF ReadingFits
    <3> QED
      BY <3>4, <3>5
  <2> QED
    BY <1>0, <2>1, <2>2, <2>3, <2>4, <2>5 DEF ForecastTypes
<1> QED
  BY <1>1, <1>2, <1>3 DEF Computes

LEMMA TypesKept ==
  ASSUME RegistryTypes, \A r \in Approvers : ChangeInv(r),
         [RegistryNext]_<<idempotencyVars, registryVars>>
  PROVE  RegistryTypes'
<1>0. /\ calls \in [Requests -> RegistryCalls] /\ records \in [Keys -> KeyRecords]
      /\ FileTypes /\ ForecastTypes /\ change \in [Approvers -> ChangeRecords]
      /\ crossed \in BOOLEAN
  BY DEF RegistryTypes, FileTypes, ForecastTypes
<1> SUFFICES /\ calls' \in [Requests -> RegistryCalls] /\ records' \in [Keys -> KeyRecords]
             /\ FileTypes' /\ ForecastTypes' /\ change' \in [Approvers -> ChangeRecords]
             /\ crossed' \in BOOLEAN
  BY DEF RegistryTypes, FileTypes, ForecastTypes
<1>1. CASE UNCHANGED <<calls, records, Files>>
  BY <1>0, <1>1 DEF Files, inferenceVars, FileTypes, ForecastTypes, ReadingFits
<1>2. ASSUME NEW r \in Approvers, RequestKind(r), ~ ChangeKind(r)
      PROVE  FileTypes' /\ change' = change /\ crossed' = crossed
  <2>1. UNCHANGED Files
    BY <1>2 DEF RequestKind, Reserves, Repeats, Completes
  <2> QED
    BY <1>0, <2>1 DEF Files, FileTypes
<1>3. CASE \E r \in Approvers : RequestKind(r)
  <2>1. PICK r \in Approvers : RequestKind(r)
    BY <1>3
  <2>2. ForecastTypes'
    BY <1>0, <2>1, ForecastsStay DEF ForecastTypes, ReadingFits
  <2>3. calls' \in [Requests -> RegistryCalls] /\ records' \in [Keys -> KeyRecords]
    BY <2>1, CallsAfter, RecordsAfter
  <2>4. CASE ChangeKind(r)
    BY <1>0, <2>2, <2>3, <2>4, ChangeAfter, FilesAfter, FlagAfter
  <2>5. CASE ~ ChangeKind(r)
    BY <1>0, <1>2, <2>1, <2>2, <2>3, <2>5
  <2> QED
    BY <2>4, <2>5
<1>4. ASSUME NEW p \in Processes, Falls(p)
      PROVE  /\ cache' \in [Processes -> [Versions -> Nat]]
             /\ ForecastTypes'
  <2>1. /\ batch' = [q \in Schedulers |-> IF q = p THEN <<>> ELSE batch[q]]
        /\ reading' = [reading EXCEPT ![p] = NoModel] /\ published' = published
    BY <1>4 DEF Falls
  <2>2. batch' \in [Schedulers -> Seq(Forecasts)] /\ reading' \in [Processes -> Models]
    BY <1>0, <2>1 DEF ForecastTypes, NoModel, Models
  <2>3. \A q \in Schedulers :
          \/ batch'[q] = batch[q] /\ reading'[q] = reading[q]
          \/ batch'[q] = <<>> /\ reading'[q] = NoModel
    BY <1>0, <2>1, RegistryAssumption DEF ForecastTypes
  <2>4. \A q \in Schedulers : ReadingFits(q)'
    BY <1>0, <2>3, RegistryAssumption DEF ForecastTypes, ReadingFits
  <2>5. ForecastTypes'
    BY <1>0, <2>1, <2>2, <2>4 DEF ForecastTypes
  <2> QED
    BY <1>0, <1>4, <2>5 DEF Falls, FileTypes
<1>5. CASE \E p \in Processes : Falls(p)
  BY <1>0, <1>4, <1>5 DEF Falls, FileTypes
<1>6. CASE \E p \in Schedulers : Computes(p)
  <2>1. PICK p \in Schedulers : Computes(p)
    BY <1>6
  <2>2. UNCHANGED <<calls, records, main, temp, disk, change, logged, crossed>>
    BY <2>1 DEF Computes
  <2> QED
    BY <1>0, <2>1, <2>2, ComputingKept DEF FileTypes
<1>7. CASE Trains
  <2>1. \A p \in Schedulers : ReadingFits(p)'
    BY <1>0, <1>7 DEF Trains, ForecastTypes, ReadingFits
  <2> QED
    BY <1>0, <1>7, <2>1 DEF Trains, FileTypes, ForecastTypes
<1> QED
  BY <1>1, <1>3, <1>5, <1>6, <1>7, RegistryKinds

\* Where a request is after its own step, and the others.
LEMMA OthersWait ==
  ASSUME NEW r \in Approvers, RequestKind(r), NEW s \in Requests, s # r
  PROVE  calls'[s] = calls[s]
  BY DEF RequestKind, Reserves, Repeats, Completes, Aside, ChangeKind, Quits, Looks, Promotes, Verifies, Loads,
         Freezes, Opens, Fills, Replaces, Logs, Proceeds, Turned

LEMMA OthersHold == \* a version
  ASSUME RegistryTypes, NEW r \in Approvers, RequestKind(r), NEW s \in Approvers, s # r
  PROVE  /\ change'[s].version = change[s].version /\ change'[s].seen = change[s].seen
         /\ change'[s].new = change[s].new
<1>0. change \in [Approvers -> ChangeRecords]
  BY RegistryFacts
<1>1. CASE Replaces(r)
  <2>1. change'[s] = [change[s] EXCEPT !.handle = Moved(change[s].handle)]
    BY <1>1 DEF Replaces
  <2> QED
    BY <1>0, <2>1 DEF ChangeRecords
<1>2. CASE ~ Replaces(r)
  BY <1>0, <1>2 DEF RequestKind, Reserves, Repeats, Completes, Files, ChangeKind, Quits, Looks, Promotes,
         Verifies, Loads, Freezes, Opens, Fills, Logs
<1> QED
  BY <1>1, <1>2

LEMMA HoldingKept == \* what the request that moves holds
  ASSUME RegistryTypes, NEW r \in Approvers, ChangeInv(r), RequestKind(r)
  PROVE  /\ calls'[r].pc \in {"promote", "load", "read", "freeze"} => change'[r].version \in Versions
         /\ calls'[r].answer = "ok" => calls'[r].pc = "done"
<1>0. /\ change \in [Approvers -> ChangeRecords] /\ r \in Requests /\ r \in Approvers
      /\ calls[r].pc \in {"promote", "load", "read", "freeze"} => change[r].version \in Versions
      /\ calls[r].answer = "ok" => calls[r].pc = "done"
  BY RegistryFacts DEF ChangeInv
<1>a. CASE Aside(r) \/ Repeats(r) \/ Completes(r)
  BY <1>a DEF Aside, Repeats, Completes, Turned
<1>1. CASE Reserves(r) \/ Quits(r)
  BY <1>a, <1>1 DEF Reserves, Quits
<1>2. CASE Looks(r)
  <2>1. main \in Seq(ApprovalRecords) /\ Len(main) \in 1..Len(main)
    BY <1>2, RegistryFacts DEF Looks
  <2>2. Latest \in ApprovalRecords
    BY <2>1 DEF Latest
  <2>3. Latest.previous \in Versions
    BY <1>2, <2>2 DEF Looks, ApprovalRecords
  <2>4. change'[r] = [NoChange EXCEPT !.version = Latest.previous, !.seen = Len(main)]
    BY <1>0, <1>2 DEF Looks
  <2>5. change'[r].version = Latest.previous
    BY <2>4 DEF NoChange
  <2> QED
    BY <1>0, <1>2, <2>3, <2>5 DEF Looks, Proceeds, Turned, At
<1>3. CASE Promotes(r)
  <2>1. calls'[r].pc = "load" /\ calls'[r].answer = calls[r].answer /\ calls[r].pc # "done"
    BY <1>3 DEF Promotes, Proceeds, Turned, At
  <2>2. CASE change' = change /\ At(r, "promote")
    BY <1>0, <2>1, <2>2 DEF At
  <2>3. CASE ~ (change' = change /\ At(r, "promote"))
    <3>1. /\ change' = [change EXCEPT ![r] = [NoChange EXCEPT !.version = Wanted[BodyOf[r]]]]
          /\ ~ RollsBack(r)
      BY <1>3, <2>3 DEF Promotes
    <3>2. Wanted[BodyOf[r]] \in Versions
      BY <3>1, RegistryAssumption DEF RollsBack
    <3>3. change'[r] = [NoChange EXCEPT !.version = Wanted[BodyOf[r]]]
      BY <1>0, <3>1
    <3>4. change'[r].version = Wanted[BodyOf[r]]
      BY <3>3 DEF NoChange
    <3> QED
      BY <1>0, <2>1, <3>2, <3>4
  <2> QED
    BY <2>2, <2>3
<1>v. CASE Verifies(r)
  BY <1>0, <1>v DEF Verifies, Proceeds, Turned, At
<1>4. CASE Loads(r)
  BY <1>0, <1>4 DEF Loads, Proceeds, Turned, At
<1>5. CASE Freezes(r)
  BY <1>0, <1>5 DEF Freezes, Proceeds, Turned, At
<1>6. CASE Opens(r)
  BY <1>0, <1>6 DEF Opens, Proceeds, Turned, At
<1>7. CASE Fills(r)
  BY <1>0, <1>7 DEF Fills, Proceeds, Turned, At
<1>8. CASE Replaces(r)
  BY <1>0, <1>8 DEF Replaces, Proceeds, Turned, At
<1>9. CASE Logs(r)
  BY <1>0, <1>9 DEF Logs, Turned, At
<1> QED
  BY <1>a, <1>1, <1>2, <1>3, <1>v, <1>4, <1>5, <1>6, <1>7, <1>8, <1>9 DEF RequestKind, ChangeKind

LEMMA ChangesKept ==
  ASSUME RegistryTypes, \A r \in Approvers : ChangeInv(r),
         [RegistryNext]_<<idempotencyVars, registryVars>>
  PROVE  \A r \in Approvers : ChangeInv(r)'
<1>0. \A r \in Approvers : r \in Requests
  BY RegistryFacts
<1>1. CASE \/ UNCHANGED <<calls, records, Files>> \/ Trains
           \/ \E p \in Schedulers : Computes(p)
  <2>1. calls' = calls /\ change' = change
    BY <1>1 DEF Files, Trains, Computes
  <2> QED
    BY <2>1 DEF ChangeInv
<1>2. CASE \E r \in Approvers : RequestKind(r)
  <2>1. PICK r \in Approvers : RequestKind(r)
    BY <1>2
  <2>2. \A s \in Approvers : Linked(change[s].new) => Linked(change'[s].new)
    <3>1. CASE ChangeKind(r)
      BY <3>1, ChangeAfter
    <3>2. CASE ~ ChangeKind(r)
      <4>1. change' = change
        BY <2>1, <3>2 DEF RequestKind, Reserves, Repeats, Completes, Files
      <4> QED
        BY <4>1
    <3> QED
      BY <3>1, <3>2
  <2> SUFFICES ASSUME NEW s \in Approvers PROVE ChangeInv(s)'
    OBVIOUS
  <2>3. Linked(change'[s].new)
    BY <2>2 DEF ChangeInv
  <2>4. CASE s = r
    BY <2>1, <2>3, <2>4, HoldingKept DEF ChangeInv
  <2>5. CASE s # r
    BY <1>0, <2>1, <2>3, <2>5, OthersWait, OthersHold DEF ChangeInv
  <2> QED
    BY <2>4, <2>5
<1>3. CASE \E p \in Processes : Falls(p)
  BY <1>0, <1>3, NoChangeIsOne DEF Falls, ChangeInv, NoChangeFits
<1> QED
  BY <1>1, <1>2, <1>3, RegistryKinds

-----------------------------------------------------------------------------
(* The lock.                                                               *)

\* Who changes the approvals after a step.
LEMMA ChangersAfter ==
  ASSUME RegistryTypes, \A r \in Approvers : ChangeInv(r),
         [RegistryNext]_<<idempotencyVars, registryVars>>
  PROVE  \/ Changing' \subseteq Changing /\ crossed' = crossed
         \/ \E r \in Approvers : Promotes(r) /\ Changing' \subseteq Changing \cup {r}
<1>0. \A r \in Approvers : r \in Requests
  BY RegistryFacts
<1>1. CASE \/ UNCHANGED <<calls, records, Files>> \/ Trains
           \/ \E p \in Schedulers : Computes(p)
  <2>1. calls' = calls /\ crossed' = crossed
    BY <1>1 DEF Files, Trains, Computes
  <2> QED
    BY <2>1 DEF Changing
<1>2. CASE \E r \in Approvers : RequestKind(r)
  <2>1. PICK r \in Approvers : RequestKind(r)
    BY <1>2
  <2>2. \A s \in Approvers \ {r} : calls'[s] = calls[s]
    BY <1>0, <2>1, OthersWait
  <2>3. Changing' \subseteq Changing \cup {r}
    BY <2>2 DEF Changing
  <2>4. CASE Promotes(r)
    BY <2>3, <2>4
  <2>5. CASE ~ Promotes(r)
    <3>1. crossed' = crossed
      BY <2>1, <2>5 DEF RequestKind, Reserves, Repeats, Completes, Files, ChangeKind, Quits, Looks,
             Verifies, Loads, Freezes, Opens, Fills, Replaces, Logs
    <3>2. calls'[r].pc \in Locked => calls[r].pc \in Locked
      BY <2>1, <2>5 DEF RequestKind, Reserves, Repeats, Completes, Aside, ChangeKind, Quits, Looks,
             Verifies, Loads, Freezes, Opens, Fills, Replaces, Logs, Proceeds, Turned, At, Locked
    <3> QED
      BY <2>2, <3>1, <3>2 DEF Changing
  <2> QED
    BY <2>4, <2>5
<1>3. CASE \E p \in Processes : Falls(p)
  <2>1. \A r \in Approvers : calls'[r].pc \in Locked => calls[r].pc \in Locked
    BY <1>0, <1>3 DEF Falls, Locked
  <2> QED
    BY <1>3, <2>1 DEF Falls, Changing
<1> QED
  BY <1>1, <1>2, <1>3, RegistryKinds

LEMMA NobodyElse ==
  ASSUME RegistryTypes, NEW r \in Approvers, Promotes(r)
  PROVE  /\ \A s \in Changing : ProcessOf[s] # ProcessOf[r]
         /\ ~ crossed' => ~ crossed /\ Changing = {}
<1>1. \A s \in Changing : Changes(ProcessOf[s]) /\ ProcessOf[s] \in Processes
  BY RegistryFacts DEF Changing, Changes
<1>2. ~ Changes(ProcessOf[r])
  BY DEF Promotes, Free
<1>3. ~ crossed' => ~ crossed /\ \A p \in Processes : ~ Changes(p)
  BY DEF Promotes
<1> QED
  BY <1>1, <1>2, <1>3

LEMMA LockKept ==
  ASSUME RegistryTypes, \A r \in Approvers : ChangeInv(r), LockInv,
         [RegistryNext]_<<idempotencyVars, registryVars>>
  PROVE  LockInv'
<1>1. CASE Changing' \subseteq Changing /\ crossed' = crossed
  BY <1>1 DEF LockInv
<1>2. CASE \E r \in Approvers : Promotes(r) /\ Changing' \subseteq Changing \cup {r}
  <2>1. PICK r \in Approvers : Promotes(r) /\ Changing' \subseteq Changing \cup {r}
    BY <1>2
  <2>2. /\ \A s \in Changing : ProcessOf[s] # ProcessOf[r]
        /\ ~ crossed' => ~ crossed /\ Changing = {}
    BY <2>1, NobodyElse
  <2> QED
    BY <2>1, <2>2 DEF LockInv
<1> QED
  BY <1>1, <1>2, ChangersAfter

-----------------------------------------------------------------------------
(* While no two processes write at once: the file only grows.              *)

\* How the file grows: by nothing, or by the approval of one request.
Adds(r) ==
  /\ main' \in Seq(ApprovalRecords) /\ Len(main') = Len(main) + 1
  /\ \A k \in DOMAIN main : main'[k] = main[k]
  /\ Follows(r, main'[Len(main')])
Grows == main' = main \/ \E r \in Approvers : Adds(r)

LEMMA FileGrows ==
  ASSUME RegistryTypes, RegistryTypes', \A r \in Approvers : ChangeInv(r), AloneInv,
         [RegistryNext]_<<idempotencyVars, registryVars>>
  PROVE  /\ Grows
         /\ \A r \in Approvers : Replaces(r) => Adds(r)
<1>1. ASSUME NEW r \in Approvers, Replaces(r) PROVE Adds(r)
  <2>1. main' = change[r].new /\ Continues(r)
    BY <1>1 DEF AloneInv, StepInv, Replaces, At
  <2>2. change[r].new \in Seq(ApprovalRecords)
    BY RegistryFacts DEF ChangeRecords
  <2> QED
    BY <2>1, <2>2 DEF Continues, Adds
<1>2. ASSUME NEW r \in Approvers, RequestKind(r), ~ Replaces(r) PROVE main' = main
  <2>1. CASE Fills(r)
    <3>1. change[r].handle = "temp"
      BY <2>1 DEF Fills, At, AloneInv, StepInv
    <3> QED
      BY <2>1, <3>1 DEF Fills
  <2>2. CASE ~ Fills(r)
    BY <1>2, <2>2 DEF RequestKind, Reserves, Repeats, Completes, Files, ChangeKind, Quits, Looks,
           Promotes, Verifies, Loads, Freezes, Opens, Logs
  <2> QED
    BY <2>1, <2>2
<1>3. CASE \E r \in Approvers : RequestKind(r)
  <2>1. Grows
    BY <1>1, <1>2, <1>3 DEF Grows
  <2> QED
    BY <1>1, <2>1
<1>4. CASE ~ \E r \in Approvers : RequestKind(r)
  <2>0. \/ UNCHANGED <<calls, records, Files>>
        \/ \E p \in Processes : Falls(p)
        \/ \E p \in Schedulers : Computes(p)
        \/ Trains
    BY <1>4, RegistryKinds
  <2>1. main' = main
    BY <2>0 DEF Files, Falls, Computes, Trains
  <2>2. Grows
    BY <2>1 DEF Grows
  <2> QED
    BY <1>1, <2>2
<1> QED
  BY <1>3, <1>4

LEMMA GrowsBy ==
  ASSUME RegistryTypes, RegistryTypes', main # Torn, Grows
  PROVE  /\ main \in Seq(ApprovalRecords) /\ main' \in Seq(ApprovalRecords)
         /\ Len(main) <= Len(main') /\ DOMAIN main \subseteq DOMAIN main'
         /\ \A k \in DOMAIN main : main'[k] = main[k]
<1>1. main \in Seq(ApprovalRecords)
  BY RegistryFacts
<1> QED
  BY <1>1 DEF Grows, Adds

\* What was approved stays approved.
LEMMA ApprovalsStay ==
  ASSUME RegistryTypes, RegistryTypes', main # Torn, Grows
  PROVE  /\ \A r : Approved(r) => Approved(r)'
         /\ \A f : ApprovedOf(f) => ApprovedOf(f)'
<1>1. DOMAIN main \subseteq DOMAIN main' /\ \A k \in DOMAIN main : main'[k] = main[k]
  BY GrowsBy
<1> QED
  BY <1>1 DEF Approved, ApprovedOf

LEMMA LoggedStays ==
  ASSUME \/ UNCHANGED <<calls, records, Files>>
         \/ \E r \in Approvers : RequestKind(r)
         \/ \E p \in Processes : Falls(p)
         \/ \E p \in Schedulers : Computes(p)
         \/ Trains
  PROVE  logged \subseteq logged'
  BY DEF Files, RequestKind, Reserves, Repeats, Completes, ChangeKind, Quits, Looks, Promotes, Verifies, Loads,
         Freezes, Opens, Fills, Replaces, Logs, Falls, Computes, Trains

LEMMA AnswersStay ==
  ASSUME RegistryTypes, RegistryTypes', main # Torn, Grows, logged \subseteq logged'
  PROVE  \A r : Answered(r) => Answered(r)'
  BY ApprovalsStay DEF Answered

\* A roll-back has found what stays the version before the approval it saw.
LEMMA FoundStays ==
  ASSUME RegistryTypes, RegistryTypes', main # Torn, Grows, NEW r \in Approvers, Found(r),
         change'[r].seen = change[r].seen, change'[r].version = change[r].version
  PROVE  Found(r)'
<1>1. /\ main \in Seq(ApprovalRecords) /\ main' \in Seq(ApprovalRecords) /\ Len(main) <= Len(main')
      /\ \A k \in DOMAIN main : main'[k] = main[k]
  BY GrowsBy
<1>2. change[r].seen \in 1..Len(main) /\ change[r].version = main[change[r].seen].previous
  BY DEF Found
<1>3. change[r].seen \in 1..Len(main') /\ main'[change[r].seen] = main[change[r].seen]
  BY <1>1, <1>2
<1> QED
  BY <1>2, <1>3 DEF Found

LEMMA HistoryKept ==
  ASSUME RegistryTypes, RegistryTypes', main # Torn, Grows,
         \A k \in DOMAIN main : \A r \in Approvers :
           main[k].by = r /\ RollsBack(r) =>
             /\ main[k].seen # 0
             /\ main[k].seen = k - 1 => main[k].version = main[k - 1].previous
  PROVE  \A k \in DOMAIN main' : \A r \in Approvers :
           main'[k].by = r /\ RollsBack(r) =>
             /\ main'[k].seen # 0
             /\ main'[k].seen = k - 1 => main'[k].version = main'[k - 1].previous
<1>1. CASE main' = main
  BY <1>1
<1>2. CASE main' # main
  <2>1. PICK s \in Approvers : Adds(s)
    BY <1>2 DEF Grows
  <2>2. /\ main \in Seq(ApprovalRecords) /\ main' \in Seq(ApprovalRecords)
        /\ Len(main') = Len(main) + 1 /\ \A k \in 1..Len(main) : main'[k] = main[k]
        /\ Follows(s, main'[Len(main')])
    BY <2>1, RegistryFacts DEF Adds
  <2> SUFFICES ASSUME NEW k \in DOMAIN main', NEW r \in Approvers, main'[k].by = r, RollsBack(r)
               PROVE  /\ main'[k].seen # 0
                      /\ main'[k].seen = k - 1 => main'[k].version = main'[k - 1].previous
    OBVIOUS
  <2>3. CASE k \in 1..Len(main)
    <3>1. k \in DOMAIN main /\ main'[k] = main[k] /\ k \in Nat
      BY <2>2, <2>3
    <3>2. /\ main[k].seen # 0
          /\ main[k].seen = k - 1 => main[k].version = main[k - 1].previous
      BY <3>1
    <3>3. main[k].seen = k - 1 => k - 1 \in 1..Len(main)
      BY <2>2, <2>3, <3>2
    <3> QED
      BY <2>2, <3>1, <3>2, <3>3
  <2>4. CASE k = Len(main) + 1
    <3>1. main'[k].by = s /\ r = s
      BY <2>2, <2>4 DEF Follows
    <3>2. /\ main'[k].seen # 0
          /\ main'[k].seen = Len(main) => main'[k].version = main[Len(main)].previous
      BY <2>2, <2>4, <3>1 DEF Follows
    <3>3. k - 1 = Len(main) /\ Len(main) \in Nat
      BY <2>2, <2>4
    <3>4. Len(main) # 0 => main'[Len(main)] = main[Len(main)]
      BY <2>2
    <3> QED
      BY <3>2, <3>3, <3>4
  <2> QED
    BY <2>2, <2>3, <2>4
<1> QED
  BY <1>1, <1>2

LEMMA OthersUntouched ==
  ASSUME RegistryTypes, LockInv, ~ crossed,
         NEW r \in Approvers, RequestKind(r), NEW s \in Changing, s # r
  PROVE  UNCHANGED <<main, temp>> /\ change'[s] = change[s]
<1>0. s \in Approvers /\ change \in [Approvers -> ChangeRecords]
  BY RegistryFacts DEF Changing
<1>1. calls[r].pc \notin Locked
  BY DEF LockInv, Changing
<1> QED
  BY <1>0, <1>1 DEF RequestKind, Reserves, Repeats, Completes, Files, ChangeKind, Quits, Looks, Promotes,
     Verifies, Loads, Freezes, Opens, Fills, Replaces, Logs, At, Locked

LEMMA StepOthers ==
  ASSUME RegistryTypes, RegistryTypes', LockInv, ~ crossed, AloneInv, Grows, logged \subseteq logged',
         NEW r \in Approvers, RequestKind(r), NEW s \in Approvers, s # r
  PROVE  StepInv(s)'
<1>0. calls'[s] = calls[s] /\ main # Torn /\ StepInv(s)
  BY RegistryFacts, OthersWait DEF AloneInv
<1>1. Found(s) => Found(s)'
  BY <1>0, OthersHold, FoundStays
<1>2. /\ Approved(s) => Approved(s)'
  BY <1>0, ApprovalsStay
<1>3. Answered(calls[s].result) => Answered(calls[s].result)'
  BY <1>0, AnswersStay DEF Answered, Approved
<1>4. CASE s \in Changing
  <2>1. UNCHANGED <<main, temp>> /\ change'[s] = change[s]
    BY <1>4, OthersUntouched
  <2>2. Continues(s) => Continues(s)'
    BY <2>1 DEF Continues, Follows
  <2> QED
    BY <1>0, <1>1, <1>2, <1>3, <2>1, <2>2 DEF StepInv
<1>5. CASE s \notin Changing
  <2>1. calls'[s].pc \notin Locked
    BY <1>0, <1>5 DEF Changing
  <2>2. calls'[s].pc \notin {"open", "fill", "replace"}
    BY <2>1 DEF Locked
  <2> QED
    BY <1>0, <1>1, <1>2, <1>3, <2>2 DEF StepInv
<1> QED
  BY <1>4, <1>5

LEMMA StepOwn ==
  ASSUME RegistryTypes, RegistryTypes', ~ crossed, AloneInv, Grows, logged \subseteq logged',
         NEW r \in Approvers, RequestKind(r), ChangeInv(r), ChangeInv(r)', Replaces(r) => Adds(r)
  PROVE  StepInv(r)'
<1>0. /\ main # Torn /\ StepInv(r) /\ r \in Requests /\ KeyOf[r] \in Keys
      /\ change \in [Approvers -> ChangeRecords]
      /\ calls[r].answer = "ok" => calls[r].pc = "done"
      /\ calls'[r].answer = "ok" => calls'[r].pc = "done"
  BY RegistryFacts DEF AloneInv, ChangeInv
<1>m. main \in Seq(ApprovalRecords)
  BY <1>0, RegistryFacts
<1>1. CASE Aside(r)
  BY <1>1 DEF Aside, Turned, StepInv
<1>2. CASE Repeats(r)
  <2>1. Answered(records[KeyOf[r]].result)'
    <3>1. Answered(records[KeyOf[r]].result)
      BY <1>0, <1>2 DEF Repeats, AloneInv
    <3>2. records' = records
      BY <1>2 DEF Repeats
    <3> QED
      BY <1>0, <3>1, <3>2, AnswersStay DEF Answered, Approved
  <2>2. calls'[r].pc = "done" /\ calls'[r].result = records'[KeyOf[r]].result
    BY <1>2 DEF Repeats, Turned
  <2>3. Answered(calls[r].result)'
    BY <2>1, <2>2 DEF Answered, Approved
  <2> QED
    BY <2>2, <2>3 DEF StepInv
<1>3. CASE Completes(r)
  <2>1. CASE calls'[r].pc = "done" /\ calls'[r].result = calls[r].result
    <3>1. Answered(calls[r].result)
      BY <1>0, <1>3 DEF Completes, At, StepInv
    <3>2. Answered(calls[r].result)'
      BY <1>0, <2>1, <3>1, AnswersStay DEF Answered, Approved
    <3> QED
      BY <1>0, <2>1, <3>2 DEF StepInv
  <2>2. CASE calls'[r].pc = "undo" /\ calls'[r].answer = "error"
    BY <2>2 DEF StepInv
  <2> QED
    BY <1>3, <2>1, <2>2 DEF Completes, Turned
<1>4. CASE Looks(r)
  <2>1. change'[r] = [NoChange EXCEPT !.version = Latest.previous, !.seen = Len(main)]
    BY <1>0, <1>4 DEF Looks
  <2>2. change'[r].version = main[Len(main)].previous /\ change'[r].seen = Len(main)
    BY <2>1 DEF NoChange, Latest
  <2>3. Len(main) \in 1..Len(main) /\ main' = main /\ calls'[r].pc = "promote"
    BY <1>4, <1>m DEF Looks, Proceeds, Turned
  <2>4. Found(r)'
    BY <2>2, <2>3 DEF Found
  <2> QED
    BY <1>0, <2>3, <2>4 DEF StepInv
<1>5. CASE Promotes(r)
  <2>1. main' = main /\ calls'[r].pc = "load"
    BY <1>5 DEF Promotes, Shared, Proceeds, Turned
  <2>2. RollsBack(r) => Found(r)'
    BY <1>0, <1>5, <2>1 DEF Promotes, At, StepInv, Found
  <2> QED
    BY <1>0, <2>1, <2>2 DEF StepInv, RollsBack
<1>v. CASE Verifies(r)
  <2>1. main' = main /\ change' = change /\ calls'[r].pc \in {"read", "freeze"}
    BY <1>v DEF Verifies, Proceeds, Turned
  <2>2. RollsBack(r) => Found(r)'
    BY <1>0, <1>v, <2>1 DEF Verifies, At, StepInv, Found
  <2> QED
    BY <1>0, <2>1, <2>2 DEF StepInv, RollsBack
<1>6. CASE Loads(r)
  <2>1. main' = main /\ change' = change /\ calls'[r].pc = "freeze"
    BY <1>6 DEF Loads, Shared, Proceeds, Turned
  <2>2. RollsBack(r) => Found(r)'
    BY <1>0, <1>6, <2>1 DEF Loads, At, StepInv, Found
  <2> QED
    BY <1>0, <2>1, <2>2 DEF StepInv, RollsBack
<1>7. CASE Freezes(r)
  <2>1. main' = main /\ calls'[r].pc = "open" /\ At(r, "freeze")
        /\ change' = [change EXCEPT ![r].new = Append(main, Added(r))]
    BY <1>7 DEF Freezes, Proceeds, Turned
  <2>2. /\ Append(main, Added(r)) \in Seq(ApprovalRecords)
        /\ Added(r).by = r /\ Added(r).version = change[r].version /\ Added(r).seen = change[r].seen
    BY <1>0, <2>1, AddedFits DEF At, ChangeInv
  <2>3. RollsBack(r) => Found(r)
    BY <1>0, <2>1 DEF At, StepInv
  <2>4. RollsBack(r) => change[r].seen # 0
    BY <1>m, <2>3 DEF Found
  <2>5. Follows(r, Added(r))
    BY <2>2, <2>3, <2>4 DEF Follows, Found
  <2>6. change'[r].new = Append(main, Added(r))
    BY <1>0, <2>1 DEF ChangeRecords
  <2> DEFINE new == Append(main, Added(r))
  <2>7. /\ Len(new) = Len(main) + 1 /\ \A k \in DOMAIN main : new[k] = main[k]
        /\ new[Len(new)] = Added(r)
    BY <1>m
  <2>8. Continues(r)'
    BY <2>1, <2>5, <2>6, <2>7 DEF Continues, Follows
  <2> QED
    BY <1>0, <2>1, <2>8 DEF StepInv
<1>8. CASE Opens(r)
  <2>1. main' = main /\ calls'[r].pc = "fill" /\ Continues(r)
        /\ change' = [change EXCEPT ![r].handle = "temp"]
    BY <1>0, <1>8 DEF Opens, Proceeds, Turned, At, StepInv
  <2>2. change'[r].new = change[r].new /\ change'[r].handle = "temp"
    BY <1>0, <2>1 DEF ChangeRecords
  <2>3. Continues(r)'
    BY <2>1, <2>2 DEF Continues, Follows
  <2> QED
    BY <1>0, <2>1, <2>2, <2>3 DEF StepInv
<1>9. CASE Fills(r)
  <2>1. change[r].handle = "temp" /\ Continues(r)
    BY <1>0, <1>9 DEF Fills, At, StepInv
  <2>2. main' = main /\ temp' = change[r].new /\ change' = change /\ calls'[r].pc = "replace"
    BY <1>9, <2>1 DEF Fills, Proceeds, Turned
  <2>3. Continues(r)'
    BY <2>1, <2>2 DEF Continues, Follows
  <2> QED
    BY <1>0, <2>2, <2>3 DEF StepInv
<1>10. CASE Replaces(r)
  <2>1. calls'[r].pc = "log"
    BY <1>10 DEF Replaces, Proceeds, Turned
  <2>2. main' \in Seq(ApprovalRecords) /\ Len(main') = Len(main) + 1 /\ main'[Len(main')].by = r
    BY <1>10 DEF Adds, Follows
  <2>3. Len(main') \in DOMAIN main'
    BY <1>m, <2>2
  <2>4. Approved(r)'
    BY <2>2, <2>3 DEF Approved
  <2> QED
    BY <1>0, <2>1, <2>4 DEF StepInv
<1>11. CASE Logs(r)
  <2>1. calls'[r].pc = "complete" /\ calls'[r].result = r /\ r \in logged' /\ Approved(r)
    BY <1>0, <1>11 DEF Logs, Turned, At, StepInv
  <2>2. Approved(r)'
    BY <1>0, <2>1, ApprovalsStay
  <2>3. Answered(calls[r].result)'
    BY <2>1, <2>2 DEF Answered, Approved
  <2> QED
    BY <2>1, <2>3 DEF StepInv
<1> QED
  BY <1>1, <1>2, <1>3, <1>4, <1>5, <1>v, <1>6, <1>7, <1>8, <1>9, <1>10, <1>11
  DEF RequestKind, Reserves, ChangeKind, Quits

LEMMA StepsKept ==
  ASSUME RegistryTypes, RegistryTypes', \A r \in Approvers : ChangeInv(r),
         \A r \in Approvers : ChangeInv(r)', LockInv, ~ crossed, AloneInv, Grows,
         logged \subseteq logged', \A r \in Approvers : Replaces(r) => Adds(r),
         [RegistryNext]_<<idempotencyVars, registryVars>>
  PROVE  \A s \in Approvers : StepInv(s)'
<1>0. main # Torn /\ (\A s \in Approvers : StepInv(s)) /\ \A s \in Approvers : s \in Requests
  BY RegistryFacts DEF AloneInv
<1>1. CASE \E r \in Approvers : RequestKind(r)
  BY <1>1, StepOwn, StepOthers
<1>2. ASSUME UNCHANGED <<main, temp>>, NEW s \in Approvers,
             calls'[s] = calls[s] /\ change'[s] = change[s]
      PROVE  StepInv(s)'
  <2>1. Answered(calls[s].result) => Answered(calls[s].result)'
    BY <1>0, <1>2, AnswersStay DEF Answered, Approved
  <2>2. Approved(s) => Approved(s)'
    BY <1>0, ApprovalsStay
  <2>3. (Found(s) => Found(s)') /\ (Continues(s) => Continues(s)')
    BY <1>2 DEF Found, Continues, Follows
  <2>4. StepInv(s)
    BY <1>0, <1>2
  <2> QED
    BY <1>2, <2>1, <2>2, <2>3, <2>4 DEF StepInv
<1>3. CASE \/ UNCHANGED <<calls, records, Files>> \/ Trains
           \/ \E p \in Schedulers : Computes(p)
  <2>1. UNCHANGED <<main, temp, calls, change>>
    BY <1>3 DEF Files, Trains, Computes
  <2> QED
    BY <1>2, <2>1
<1>4. CASE \E p \in Processes : Falls(p)
  <2> SUFFICES ASSUME NEW s \in Approvers PROVE StepInv(s)'
    OBVIOUS
  <2>1. UNCHANGED <<main, temp>>
    BY <1>4 DEF Falls
  <2>2. CASE calls'[s] = calls[s] /\ change'[s] = change[s]
    BY <1>2, <2>1, <2>2
  <2>3. CASE ~ (calls'[s] = calls[s] /\ change'[s] = change[s])
    <3>1. calls'[s].pc = "dead" /\ calls'[s].answer = calls[s].answer /\ calls[s].pc # "done"
      BY <1>0, <1>4, <2>3 DEF Falls
    <3>2. calls'[s].answer # "ok"
      BY <3>1 DEF ChangeInv
    <3> QED
      BY <3>1, <3>2 DEF StepInv
  <2> QED
    BY <2>2, <2>3
<1> QED
  BY <1>1, <1>3, <1>4, RegistryKinds

LEMMA CompletedKept ==
  ASSUME RegistryTypes, RegistryTypes', \A r \in Approvers : ChangeInv(r), AloneInv, Grows,
         logged \subseteq logged', [RegistryNext]_<<idempotencyVars, registryVars>>,
         NEW k \in Keys, records'[k].state = "completed"
  PROVE  Answered(records[k].result)'
<1>0. main # Torn /\ (records[k].state = "completed" => Answered(records[k].result))
  BY DEF AloneInv
<1>1. CASE records'[k] = records[k]
  BY <1>0, <1>1, AnswersStay DEF Answered, Approved
<1>2. CASE records'[k] # records[k]
  <2>1. PICK r \in Approvers : Completes(r) /\ k = KeyOf[r]
    BY <1>2, RegistryKinds DEF Files, Falls, Computes, Trains, RequestKind, Reserves,
       NoneCompleted, Repeats, Completes, ChangeKind, Quits, Looks, Promotes, Verifies, Loads, Freezes,
       Opens, Fills, Replaces, Logs, Shared
  <2>2. Answered(calls[r].result) /\ records'[k].result = calls[r].result
    BY <2>1 DEF Completes, At, AloneInv, StepInv
  <2> QED
    BY <1>0, <2>2, AnswersStay DEF Answered, Approved
<1> QED
  BY <1>1, <1>2

\* The forecasts after a step, and the models being loaded.
LEMMA ForecastsAfter ==
  ASSUME RegistryTypes, \A r \in Approvers : ChangeInv(r),
         [RegistryNext]_<<idempotencyVars, registryVars>>
  PROVE  /\ \A k \in DOMAIN published' :
              \/ k \in DOMAIN published /\ published'[k] = published[k]
              \/ \E p \in Schedulers : k \in DOMAIN batch[p] /\ published'[k] = batch[p][k]
         /\ \A p \in Schedulers : \A k \in DOMAIN batch'[p] :
              \/ k \in DOMAIN batch[p] /\ batch'[p][k] = batch[p][k]
              \/ Computes(p) /\ \E f \in Forecasts : Infers(p, f) /\ batch'[p][k] = f
<1>0. batch \in [Schedulers -> Seq(Forecasts)]
  BY DEF RegistryTypes
<1>1. CASE \/ UNCHANGED <<calls, records, Files>> \/ Trains \/ \E r \in Approvers : RequestKind(r)
  BY <1>1, ForecastsStay DEF Files, inferenceVars, Trains
<1>2. CASE \E p \in Processes : Falls(p)
  BY <1>2 DEF Falls
<1>3. ASSUME NEW p \in Schedulers, EndsBatch(p)
      PROVE  /\ published' = published \/ published' = batch[p]
             /\ \A q \in Schedulers : batch'[q] = batch[q] \/ batch'[q] = <<>>
  BY <1>0, <1>3 DEF EndsBatch
<1>4. ASSUME NEW p \in Schedulers, Computes(p), NEW f \in Forecasts, Infers(p, f)
      PROVE  /\ published' = published
             /\ \A q \in Schedulers \ {p} : batch'[q] = batch[q]
             /\ \A k \in DOMAIN batch'[p] :
                  (k \in DOMAIN batch[p] /\ batch'[p][k] = batch[p][k]) \/ batch'[p][k] = f
  <2>1. batch' = [batch EXCEPT ![p] = Append(batch[p], f)] /\ published' = published
    BY <1>4 DEF Infers
  <2>2. batch'[p] = Append(batch[p], f) /\ batch[p] \in Seq(Forecasts)
    BY <1>0, <2>1
  <2> QED
    BY <1>0, <2>1, <2>2
<1>5. ASSUME NEW p \in Schedulers, Chooses(p) PROVE UNCHANGED <<batch, published>>
  BY <1>5 DEF Chooses
<1>6. CASE \E p \in Schedulers : Computes(p)
  <2>1. PICK p \in Schedulers : Computes(p)
    BY <1>6
  <2>2. CASE \E f \in Forecasts : Infers(p, f)
    <3>1. PICK f \in Forecasts : Infers(p, f)
      BY <2>2
    <3> QED
      BY <1>4, <2>1, <3>1
  <2>3. CASE Chooses(p) \/ EndsBatch(p)
    BY <1>3, <1>5, <2>3
  <2> QED
    BY <2>1, <2>2, <2>3 DEF Computes
<1> QED
  BY <1>1, <1>2, <1>6, RegistryKinds

LEMMA ReadingsAfter ==
  ASSUME RegistryTypes, \A r \in Approvers : ChangeInv(r),
         [RegistryNext]_<<idempotencyVars, registryVars>>, NEW p \in Schedulers,
         reading'[p] # NoModel
  PROVE  \/ Chooses(p) /\ UNCHANGED <<main, disk>> /\ reading'[p] = Active(FALSE)
         \/ /\ reading[p] # NoModel
            /\ reading'[p].version = reading[p].version /\ reading'[p].frozen = reading[p].frozen
            /\ \/ reading'[p].raced
               \/ /\ ~ reading[p].raced
                  /\ disk'[reading[p].version].artifacts = disk[reading[p].version].artifacts
<1>0. reading \in [Processes -> Models] /\ p \in Processes
  BY RegistryAssumption DEF RegistryTypes
<1>s. CASE reading'[p] = reading[p] /\ disk' = disk
  BY <1>0, <1>s DEF Models
<1>1. CASE UNCHANGED <<calls, records, Files>>
  BY <1>1, <1>s DEF Files, inferenceVars
<1>2. CASE \E r \in Approvers : RequestKind(r)
  <2>1. disk' = disk
    BY <1>2 DEF RequestKind, Reserves, Repeats, Completes, Files, ChangeKind, Quits, Looks, Promotes,
       Verifies, Loads, Freezes, Opens, Fills, Replaces, Logs, Shared
  <2> QED
    BY <1>2, <1>s, <2>1, ForecastsStay
<1>3. CASE \E q \in Processes : Falls(q)
  BY <1>0, <1>3, <1>s DEF Falls
<1>4. CASE Trains
  BY <1>4 DEF Trains
<1>5. CASE \E q \in Schedulers : Computes(q)
  <2>1. PICK q \in Schedulers : Computes(q)
    BY <1>5
  <2>2. UNCHANGED <<main, disk>> /\ q \in Processes
    BY <2>1, RegistryAssumption DEF Computes
  <2>3. CASE Chooses(q)
    BY <1>0, <1>s, <2>2, <2>3 DEF Chooses
  <2>4. CASE EndsBatch(q)
    BY <1>0, <1>s, <2>2, <2>4 DEF EndsBatch
  <2>5. ASSUME NEW f \in Forecasts, Infers(q, f) PROVE reading'[p] \in {reading[p], NoModel}
    BY <1>0, <2>2, <2>5 DEF Infers
  <2> QED
    BY <1>s, <2>1, <2>2, <2>3, <2>4, <2>5 DEF Computes
<1> QED
  BY <1>1, <1>2, <1>3, <1>4, <1>5, RegistryKinds

LEMMA AloneKept ==
  ASSUME RegistryTypes, RegistryTypes', \A r \in Approvers : ChangeInv(r),
         \A r \in Approvers : ChangeInv(r)', LockInv, ~ crossed => AloneInv, ~ crossed',
         [RegistryNext]_<<idempotencyVars, registryVars>>
  PROVE  AloneInv'
<1>1. ~ crossed
  BY ChangersAfter, NobodyElse
<1>2. AloneInv /\ main # Torn
  BY <1>1 DEF AloneInv
<1>3. Grows /\ \A r \in Approvers : Replaces(r) => Adds(r)
  BY <1>2, FileGrows
<1>4. logged \subseteq logged'
  BY RegistryKinds, LoggedStays
<1>5. main' # Torn
  BY <1>2, <1>3, RegistryAssumption DEF Grows, Adds
<1>6. \A s \in Approvers : StepInv(s)'
  BY <1>1, <1>2, <1>3, <1>4, StepsKept
<1>7. \A k \in Keys : records'[k].state = "completed" => Answered(records[k].result)'
  BY <1>2, <1>3, <1>4, CompletedKept
<1>8. \A k \in DOMAIN main' : \A r \in Approvers :
        main'[k].by = r /\ RollsBack(r) =>
          /\ main'[k].seen # 0
          /\ main'[k].seen = k - 1 => main'[k].version = main'[k - 1].previous
  BY <1>2, <1>3, HistoryKept DEF AloneInv
<1>9. \A f : ApprovedOf(f) => ApprovedOf(f)'
  BY <1>2, <1>3, ApprovalsStay
<1>10. \A p \in Schedulers : \A k \in DOMAIN batch'[p] : ApprovedOf(batch[p][k])'
  <2> SUFFICES ASSUME NEW p \in Schedulers, NEW k \in DOMAIN batch'[p]
               PROVE  ApprovedOf(batch[p][k])'
    OBVIOUS
  <2>1. CASE k \in DOMAIN batch[p] /\ batch'[p][k] = batch[p][k]
    <3>1. ApprovedOf(batch[p][k])
      BY <1>2, <2>1 DEF AloneInv
    <3> QED
      BY <1>9, <2>1, <3>1 DEF ApprovedOf
  <2>2. ASSUME Computes(p), NEW f \in Forecasts, Infers(p, f), batch'[p][k] = f
        PROVE  ApprovedOf(batch[p][k])'
    <3>1. main' = main /\ ApprovedOf(f)
      <4>1. CASE reading[p] # NoModel /\ f.version = reading[p].version
                 /\ f.frozen = reading[p].frozen
        BY <1>2, <2>2, <4>1 DEF AloneInv, ApprovedOf, Computes
      <4>2. CASE /\ main \in Seq(ApprovalRecords) /\ main # <<>>
                 /\ f.version = Latest.version /\ f.frozen = Latest.manifest
        <5>1. Len(main) \in DOMAIN main
          BY <4>2
        <5> QED
          BY <2>2, <4>2, <5>1 DEF ApprovedOf, Latest, Computes
      <4> QED
        BY <2>2, <4>1, <4>2 DEF Infers
    <3> QED
      BY <2>2, <3>1 DEF ApprovedOf
  <2> QED
    BY <2>1, <2>2, ForecastsAfter
<1>11. \A k \in DOMAIN published' : ApprovedOf(published[k])'
  <2> SUFFICES ASSUME NEW k \in DOMAIN published' PROVE ApprovedOf(published[k])'
    OBVIOUS
  <2>1. PICK f : published'[k] = f /\ ApprovedOf(f)
    BY <1>2, ForecastsAfter DEF AloneInv
  <2>2. ApprovedOf(f)'
    BY <1>9, <2>1
  <2> QED
    BY <2>1, <2>2 DEF ApprovedOf
<1>12. ASSUME NEW p \in Schedulers, reading'[p] # NoModel PROVE ApprovedOf(reading[p])'
  <2>1. CASE /\ reading[p] # NoModel /\ reading'[p].version = reading[p].version
             /\ reading'[p].frozen = reading[p].frozen
    <3>1. ApprovedOf(reading[p])
      BY <1>2, <2>1 DEF AloneInv
    <3>2. PICK f : f = reading[p]
      OBVIOUS
    <3>3. ApprovedOf(f)'
      BY <1>9, <3>1, <3>2
    <3> QED
      BY <2>1, <3>2, <3>3 DEF ApprovedOf
  <2>2. CASE Chooses(p) /\ main' = main /\ reading'[p] = Active(FALSE)
    <3>1. Len(main) \in DOMAIN main
      BY <2>2 DEF Chooses
    <3>2. reading'[p].version = Latest.version /\ reading'[p].frozen = Latest.manifest
      BY <2>2 DEF Active
    <3> QED
      BY <2>2, <3>1, <3>2 DEF ApprovedOf, Latest
  <2> QED
    BY <1>12, <2>1, <2>2, ReadingsAfter
<1> QED
  BY <1>5, <1>6, <1>7, <1>8, <1>10, <1>11, <1>12 DEF AloneInv

LEMMA FreshKept ==
  ASSUME RegistryTypes, \A r \in Approvers : ChangeInv(r), FreshInv,
         [RegistryNext]_<<idempotencyVars, registryVars>>
  PROVE  FreshInv'
<1>1. ASSUME NEW p \in Schedulers, NEW f \in Forecasts, Infers(p, f) PROVE Fresh(f)
  BY <1>1 DEF Infers, FreshInv, Fresh
<1>2. \A k \in DOMAIN published' : Fresh(published'[k])
  BY ForecastsAfter DEF FreshInv
<1>3. \A p \in Schedulers : \A k \in DOMAIN batch'[p] : Fresh(batch'[p][k])
  BY <1>1, ForecastsAfter DEF FreshInv
<1>4. ASSUME NEW p \in Schedulers, reading'[p] # NoModel
      PROVE  reading'[p].raced \/ disk'[reading'[p].version].artifacts = reading'[p].frozen
  <2>1. CASE Chooses(p) /\ disk' = disk /\ reading'[p] = Active(FALSE)
    BY <2>1 DEF Chooses, Active, StillApproved, Verified
  <2>2. CASE ~ (Chooses(p) /\ disk' = disk /\ reading'[p] = Active(FALSE))
    BY <1>4, <2>2, ReadingsAfter DEF FreshInv
  <2> QED
    BY <2>1, <2>2
<1> QED
  BY <1>2, <1>3, <1>4 DEF FreshInv, Fresh

-----------------------------------------------------------------------------
(* The theorems.                                                           *)

LEMMA RegistryStarts == RegistryInit => RegistryInv
<1> SUFFICES ASSUME RegistryInit PROVE RegistryInv
  OBVIOUS
<1>1. \A r \in Approvers : r \in Requests /\ KeyOf[r] \in Keys
  BY RegistryAssumption, IdempotencyAssumption DEF Keys
<1>2. calls \in [Requests -> RegistryCalls] /\ records \in [Keys -> KeyRecords]
  BY DEF RegistryInit, IdempotencyInit, RegistryCalls, RegistryPcs, Answers, KeyRecords, NoRecord,
     NewCall
<1>3. change \in [Approvers -> ChangeRecords] /\ \A r \in Approvers : change[r] = NoChange
  BY NoChangeIsOne DEF RegistryInit, NoChangeFits
<1>4. main = Approvals /\ Written(main) /\ main \in Seq(ApprovalRecords) /\ main # Torn
  BY RegistryAssumption DEF RegistryInit, Written
<1>5. RegistryTypes
  <2>1. batch \in [Schedulers -> Seq(Forecasts)] /\ published \in Seq(Forecasts)
        /\ (\A p \in Schedulers : ReadingFits(p)) /\ Len(published) \in {0, BatchSize}
        /\ reading \in [Processes -> Models]
    BY RegistryAssumption DEF RegistryInit, ReadingFits, NoModel, Models
  <2>2. crossed \in BOOLEAN /\ temp = NoFile /\ logged \subseteq Approvers
    BY DEF RegistryInit
  <2>3. /\ disk \in [Versions -> [artifacts: Nat, manifest: Nat]]
        /\ cache \in [Processes -> [Versions -> Nat]]
    BY DEF RegistryInit
  <2> QED
    BY <1>2, <1>3, <1>4, <2>1, <2>2, <2>3 DEF RegistryTypes
<1>6. \A r \in Approvers : calls[r].pc = "new" /\ calls[r].answer = "none"
  BY <1>1 DEF RegistryInit, IdempotencyInit, NewCall
<1>7. (\A r \in Approvers : ChangeInv(r)) /\ LockInv
  BY <1>3, <1>6, NoChangeIsOne DEF ChangeInv, NoChangeFits, LockInv, Changing, Locked
<1>8. AloneInv
  <2>1. \A k \in Keys : records[k].state # "completed"
    BY DEF RegistryInit, IdempotencyInit, NoRecord
  <2>2. \A k \in DOMAIN main : \A r \in Approvers : main[k].by # r
    BY <1>1, <1>4, RegistryAssumption, IdempotencyAssumption
  <2>3. /\ DOMAIN published = {}
        /\ \A p \in Schedulers : DOMAIN batch[p] = {} /\ reading[p] = NoModel
    BY RegistryAssumption DEF RegistryInit
  <2>4. \A r \in Approvers : StepInv(r)
    BY <1>6 DEF StepInv
  <2> QED
    BY <1>4, <2>1, <2>2, <2>3, <2>4 DEF AloneInv
<1>9. FreshInv
  BY RegistryAssumption DEF RegistryInit, FreshInv
<1> QED
  BY <1>5, <1>7, <1>8, <1>9 DEF RegistryInv

LEMMA RegistryKept ==
  RegistryInv /\ [RegistryNext]_<<idempotencyVars, registryVars>> => RegistryInv'
<1> SUFFICES ASSUME RegistryInv, [RegistryNext]_<<idempotencyVars, registryVars>>
             PROVE  RegistryInv'
  OBVIOUS
<1>1. RegistryTypes' /\ \A r \in Approvers : ChangeInv(r)'
  BY TypesKept, ChangesKept DEF RegistryInv
<1>2. LockInv'
  BY LockKept DEF RegistryInv
<1>3. ~ crossed' => AloneInv'
  BY <1>1, AloneKept DEF RegistryInv
<1>4. FreshInv'
  BY FreshKept DEF RegistryInv
<1> QED
  BY <1>1, <1>2, <1>3, <1>4 DEF RegistryInv

(* Whatever the processes, the trainings and the failures, the changes of  *)
(* one process exclude each other (the lock of registry.py), every history *)
(* that was written is linked, and as long as the changes of two processes *)
(* have not overlapped, the file grows by one approval at a time.          *)
THEOREM RegistryInvariant == RegistrySpec => []RegistryInv
<1>1. RegistryInit => RegistryInv
  BY RegistryStarts
<1>2. RegistryInv /\ [RegistryNext]_<<idempotencyVars, registryVars>> => RegistryInv'
  BY RegistryKept
<1> QED
  BY <1>1, <1>2, PTL DEF RegistrySpec

(* The state keeps its shape: the file and the temporary file hold whole   *)
(* approvals or are torn (registry.py, _write_state).                      *)
THEOREM RegistryTypeCorrect == RegistrySpec => []RegistryTypeOK
<1>1. RegistryInv => RegistryTypeOK
  BY DEF RegistryInv, RegistryTypes, ReadingFits, Models, Written, RegistryTypeOK
<1> QED
  BY <1>1, RegistryInvariant, PTL

(* Every approval that can be read names the one before it, whoever wrote  *)
(* it and whatever was interrupted; while no two processes wrote at once   *)
(* the file is whole, and a roll-back that nothing overtook has restored   *)
(* what was active before (promote and rollback, registry.py).             *)
THEOREM HistoryOfApprovalsAlways == RegistrySpec => []ApprovalsFormHistory
<1>1. RegistryInv => ApprovalsFormHistory
  <2> SUFFICES ASSUME RegistryInv PROVE ApprovalsFormHistory
    OBVIOUS
  <2>1. main # Torn => Linked(main)
    BY DEF RegistryInv, RegistryTypes, Written
  <2>2. ~ crossed => AloneInv
    BY DEF RegistryInv
  <2> QED
    BY <2>1, <2>2 DEF ApprovalsFormHistory, AloneInv, RollsBack
<1> QED
  BY <1>1, RegistryInvariant, PTL

(* An approval that was answered is in the state and in the audit log,     *)
(* also when the answer is the repetition of an earlier one, while no two  *)
(* processes wrote at once (promote_model and rollback_model, app.py).     *)
THEOREM AnsweredApprovalAlwaysStands == RegistrySpec => []AnsweredApprovalStands
<1>1. RegistryInv => AnsweredApprovalStands
  BY DEF RegistryInv, AloneInv, StepInv, Answered, Approved, AnsweredApprovalStands
<1> QED
  BY <1>1, RegistryInvariant, PTL

(* What is published was computed by an approved version, with the         *)
(* manifest frozen at the approval, and by those very artifacts, unless    *)
(* training wrote others after they were verified or while a process had   *)
(* them in memory (approved_for and _load, registry.py).                   *)
THEOREM PublishedModelAlwaysApproved == RegistrySpec => []PublishedModelApproved
<1>1. RegistryInv => PublishedModelApproved
  BY DEF RegistryInv, AloneInv, FreshInv, Fresh, ApprovedOf, PublishedModelApproved
<1> QED
  BY <1>1, RegistryInvariant, PTL

(* A change of the registry is an action executed under the reservation;   *)
(* a process takes all its requests with it.                               *)
LEMMA RegistryReserves ==
  ASSUME RegistryInv, [RegistryNext]_<<idempotencyVars, registryVars>>
  PROVE  [ReservationStep]_<<records, calls>>
<1>0. Conducted /\ Approvers \subseteq Requests /\ calls \in [Requests -> RegistryCalls]
  BY RegistryFacts, RegistryAssumption
     DEF RegistryInv, Conducted, Conducts, Shape, Rows, RegistryCalls, KeyRecords
<1>1. ASSUME NEW r \in Approvers, Arriving(r) PROVE ReservationStep
  BY <1>0, <1>1, BecomeEnters DEF Arriving, ReservationStep
<1>2. ASSUME NEW r \in Approvers,
             \/ LookBack(r) \/ Promote(r) \/ VerifyModel(r) \/ LoadModel(r) \/ Freeze(r)
             \/ OpenTemp(r) \/ FillTemp(r) \/ Replace(r) \/ LogApproval(r) \/ StorageFails(r)
      PROVE  ReservationStep
  <2>1. Executing(r) /\ ~ At(r, "complete") /\ UNCHANGED records
    BY <1>2 DEF LookBack, Promote, VerifyModel, LoadModel, Freeze, OpenTemp, FillTemp, Replace, LogApproval,
       StorageFails, Executing, At
  <2>2. \/ \E place : place \notin Outside /\ Become(r, place)
        \/ \E a : a # "ok" /\ Fail(r, a)
        \/ Succeed(r, r)
    BY <1>2 DEF LookBack, Promote, VerifyModel, LoadModel, Freeze, OpenTemp, FillTemp, Replace, LogApproval,
       StorageFails, Quit, Outside
  <2> QED
    BY <1>0, <2>1, <2>2, BecomeWorks, FailWorks, SucceedWorks DEF ReservationStep
<1>3. ASSUME NEW r \in Approvers, Execute(r) PROVE ReservationStep
  BY <1>0, <1>3 DEF ReservationStep
<1>4. ASSUME NEW r \in Approvers, DatabaseFails(r, {"log"}) PROVE ReservationStep
  <2>1. {"log"} \cap Outside = {}
    BY DEF Outside
  <2> QED
    BY <1>0, <1>4, <2>1, FailsAtWork DEF ReservationStep
<1>5. ASSUME NEW p \in Processes, RegistryProcessDies(p) PROVE Die
  <2>1. calls' \in [Requests -> RegistryCalls] /\ UNCHANGED records
    BY <1>0, <1>5 DEF RegistryProcessDies, RegistryCalls, RegistryPcs
  <2>2. Conducts'
    BY <2>1 DEF Conducts, Shape, RegistryCalls
  <2>3. \A r \in Requests : calls'[r] = calls[r] \/ calls'[r].pc = "dead"
    BY <1>0, <1>5 DEF RegistryProcessDies, RegistryCalls
  <2> QED
    BY <2>1, <2>2, <2>3 DEF Die, At
<1>6. CASE \/ \E p \in Schedulers :
                InferCached(p) \/ Choose(p) \/ Infer(p) \/ InferFails(p) \/ PublishBatch(p)
           \/ \E v \in Versions : Train(v) \/ WriteManifest(v)
           \/ UNCHANGED <<idempotencyVars, registryVars>>
  BY <1>6 DEF InferCached, Choose, Infer, InferFails, PublishBatch, Train, WriteManifest, idempotencyVars
<1> QED
  BY <1>1, <1>2, <1>3, <1>4, <1>5, <1>6 DEF RegistryNext, RegistryRequest, ReservationStep

(* Promotion and roll-back use their keys as every mutation does, so what  *)
(* is proved of the reservation and any action holds of them.              *)
THEOREM RegistryUsesReservation == RegistrySpec => ReservationSpec
<1>1. RegistryInit => IdempotencyInit
  BY DEF RegistryInit
<1>2. RegistryInv /\ [RegistryNext]_<<idempotencyVars, registryVars>>
        => [ReservationStep]_<<records, calls>>
  BY RegistryReserves
<1> QED
  BY <1>1, <1>2, RegistryInvariant, PTL DEF RegistrySpec, ReservationSpec

(* A key of a promotion or a roll-back runs it once at a time and stands   *)
(* for one result, whatever fails and whichever process dies.              *)
THEOREM RegistryKeepsKeys == RegistrySpec => [](OneRunPerKey /\ RepeatsAgree)
  BY RegistryUsesReservation, OneRunOfAnyAction, RepeatsOfAnyAction, PTL

-----------------------------------------------------------------------------
(* The two parts side by side: neither touches what belongs to the other.  *)
LEMMA PartsOfData == Spec => RegistrySpec /\ HistorySpec
<1>1. Init => RegistryInit /\ HistoryInit
  BY DEF Init
<1>2. [Next]_<<idempotencyVars, registryVars, historyVars, part>>
        => /\ [RegistryNext]_<<idempotencyVars, registryVars>>
           /\ [HistoryNext]_historyVars
  BY DEF Next
<1> QED
  BY <1>1, <1>2, PTL DEF Spec, RegistrySpec, HistorySpec

(* Both parts keep the shape of their state while the other one works: the *)
(* approval file, and the tables of incidents and ingestion runs.          *)
THEOREM DataTypeCorrect == Spec => []DataTypeOK
<1>1. RegistryTypeOK /\ HistoryTypeOK => DataTypeOK
  BY DEF DataTypeOK
<1> QED
  BY <1>1, PartsOfData, RegistryTypeCorrect, HistoryTypeCorrect, PTL

=============================================================================
