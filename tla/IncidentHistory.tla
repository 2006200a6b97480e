-------------------------- MODULE IncidentHistory --------------------------
(***************************************************************************)
(* Ingestion of one source's recorded incidents into the tenant's history: *)
(* IngestionService.ingest_replay (src/data/service.py), the resumable     *)
(* adapter (adapters/replay.py) and the stores of SQLite (store.py) and    *)
(* PostgreSQL (postgres.py), which it may be given.                        *)
(*                                                                         *)
(* A run reads the lines after the checkpoint, stores or quarantines each  *)
(* and then advances the checkpoint, in transactions of their own.  Runs   *)
(* of one source are not excluded from each other; any of them may fail or *)
(* die and another one resumes from the checkpoint.                        *)
(*                                                                         *)
(* A count is modelled by the lines it counts.  A run counts in local      *)
(* variables, which end up in its record only when it finishes.            *)
(***************************************************************************)
EXTENDS Naturals

CONSTANTS
  Runs,
  Last,            \* the number of lines of the source
  Feed,            \* line -> what is on it
  Tenant,          \* the authenticated tenant
  Categories,      \* what the category map knows
  Skew,            \* MAX_SOURCE_CLOCK_SKEW
  MaxAttempts,     \* max_attempts, of an insertion into SQLite
  MaxFailures      \* bound: failures of a store or the file, deaths of a process

Lines == 1..Last

(* id, body: the event's identity and a digest of all it says.             *)
ASSUME FeedAssumption ==
  /\ Last \in Nat
  /\ \A n \in Lines :
       /\ Feed[n].object \in BOOLEAN
       /\ Feed[n].occurred \in Nat /\ Feed[n].received \in Nat
  /\ Skew \in Nat
  /\ MaxAttempts \in Nat \ {0}
  /\ MaxFailures \in Nat

VARIABLES
  sqlite,        \* which of the two stores it is
  accepted,      \* the lines whose events are in the history
  quarantined,   \* the lines in quarantine
  checkpoint,    \* the line up to which the source is read
  pc,            \* run -> how far it is
  from, at,      \* run -> the checkpoint it read, the line it is at
  tries,         \* run -> insertions of this line that failed
  inserted, repeated, refused,   \* run -> the lines it has counted as what
  status, report,  \* run -> its record: the status and the counts
  failures,      \* failures and deaths so far
  gaveUp         \* history: lines that SQLite could not take

counts == <<inserted, repeated, refused>>
storeVars == <<accepted, quarantined, checkpoint>>
recordVars == <<status, report>>
runVars == <<pc, from, at, tries, counts, recordVars>>
historyVars == <<sqlite, storeVars, runVars, failures, gaveUp>>

NoCounts == [inserted |-> {}, repeated |-> {}, refused |-> {}]

HistoryInit ==
  /\ sqlite \in BOOLEAN
  /\ accepted = {} /\ quarantined = {} /\ checkpoint = 0
  /\ pc = [r \in Runs |-> "new"]
  /\ from = [r \in Runs |-> 0] /\ at = [r \in Runs |-> 0] /\ tries = [r \in Runs |-> 0]
  /\ status = [r \in Runs |-> "none"] /\ report = [r \in Runs |-> NoCounts]
  /\ inserted = [r \in Runs |-> {}]
  /\ repeated = [r \in Runs |-> {}]
  /\ refused = [r \in Runs |-> {}]
  /\ failures = 0 /\ gaveUp = {}

(* normalize_event raises no error.                                        *)
Normalizes(n) ==
  /\ Feed[n].tenant = Tenant
  /\ Feed[n].category \in Categories
  /\ Feed[n].occurred <= Feed[n].received + Skew
Good(n) == Feed[n].object /\ Normalizes(n)
Same(m, n) == Feed[m].id = Feed[n].id
Twin(m, n) == Same(m, n) /\ Feed[m].body = Feed[n].body

Goes(r, next) == pc' = [pc EXCEPT ![r] = next]
Count(as, r) == [as EXCEPT ![r] = @ \cup {at[r]}]
Counts(r) == [inserted |-> inserted[r], repeated |-> repeated[r], refused |-> refused[r]]

(* What a transaction of the run does once it is committed: quarantine,    *)
(* set_checkpoint (whatever another run has set it to) and finish_run.     *)
PutAside(r) ==
  /\ quarantined' = quarantined \cup {at[r]}
  /\ UNCHANGED <<accepted, checkpoint, recordVars>>
Advance(r) ==
  /\ checkpoint' = at[r]
  /\ UNCHANGED <<accepted, quarantined, recordVars>>
Conclude(r, verdict) ==
  /\ status' = [status EXCEPT ![r] = verdict]
  /\ report' = [report EXCEPT ![r] = Counts(r)]
  /\ UNCHANGED storeVars

-----------------------------------------------------------------------------
(* The source is authorized, found and registered, the run recorded.       *)
StartRun(r) ==
  /\ pc[r] = "new"
  /\ status' = [status EXCEPT ![r] = "running"]
  /\ Goes(r, "resume")
  /\ UNCHANGED <<sqlite, storeVars, from, at, tries, counts, report, failures, gaveUp>>

Resume(r) ==
  /\ pc[r] = "resume"
  /\ from' = [from EXCEPT ![r] = checkpoint]
  /\ at' = [at EXCEPT ![r] = checkpoint]
  /\ Goes(r, "read")
  /\ UNCHANGED <<sqlite, storeVars, tries, recordVars, counts, failures, gaveUp>>

(* Mutant of ReadLine: the checkpoint is set when the line is read.        *)
ReadAndCommit(r) ==
  /\ pc[r] = "read" /\ at[r] < Last
  /\ at' = [at EXCEPT ![r] = @ + 1]
  /\ tries' = [tries EXCEPT ![r] = 0]
  /\ checkpoint' = at[r] + 1
  /\ Goes(r, IF Good(at[r] + 1) THEN "insert" ELSE "quarantine")
  /\ refused' = IF Good(at[r] + 1) THEN refused
                ELSE [refused EXCEPT ![r] = @ \cup {at[r] + 1}]
  /\ UNCHANGED <<sqlite, accepted, quarantined, from, recordVars, inserted, repeated, failures, gaveUp>>

(* The next line, or the end of the file.  What is not an object or not a  *)
(* valid event is refused at once.                                         *)
ReadLine(r) ==
  /\ pc[r] = "read" /\ at[r] < Last
  /\ at' = [at EXCEPT ![r] = @ + 1]
  /\ tries' = [tries EXCEPT ![r] = 0]
  /\ Goes(r, IF Good(at[r] + 1) THEN "insert" ELSE "quarantine")
  /\ refused' = IF Good(at[r] + 1) THEN refused
                ELSE [refused EXCEPT ![r] = @ \cup {at[r] + 1}]
  /\ UNCHANGED <<sqlite, storeVars, from, recordVars, inserted, repeated, failures, gaveUp>>
ReadEnd(r) ==
  /\ pc[r] = "read" /\ at[r] >= Last
  /\ Goes(r, "finish")
  /\ UNCHANGED <<sqlite, storeVars, from, at, tries, recordVars, counts, failures, gaveUp>>

(* Mutant of InsertNew: the event replaces one with its identity.          *)
InsertOver(r) ==
  /\ pc[r] = "insert"
  /\ \A m \in accepted : ~ Twin(m, at[r])
  /\ accepted' = {m \in accepted : ~ Same(m, at[r])} \cup {at[r]}
  /\ inserted' = Count(inserted, r)
  /\ Goes(r, "commit")
  /\ UNCHANGED <<sqlite, quarantined, checkpoint, from, at, tries, recordVars,
                 repeated, refused, failures, gaveUp>>

(* insert_event: an event is identified by tenant, source and its own id;  *)
(* the same again is a duplicate, other content under the id is refused.   *)
InsertNew(r) ==
  /\ pc[r] = "insert"
  /\ \A m \in accepted : ~ Same(m, at[r])
  /\ accepted' = accepted \cup {at[r]}
  /\ inserted' = Count(inserted, r)
  /\ Goes(r, "commit")
  /\ UNCHANGED <<sqlite, quarantined, checkpoint, from, at, tries, recordVars,
                 repeated, refused, failures, gaveUp>>
InsertDuplicate(r) ==
  /\ pc[r] = "insert"
  /\ \E m \in accepted : Twin(m, at[r])
  /\ repeated' = Count(repeated, r)
  /\ Goes(r, "commit")
  /\ UNCHANGED <<sqlite, storeVars, from, at, tries, recordVars, inserted, refused, failures, gaveUp>>
InsertConflict(r) ==
  /\ pc[r] = "insert"
  /\ \E m \in accepted : Same(m, at[r]) /\ ~ Twin(m, at[r])
  /\ refused' = Count(refused, r)
  /\ Goes(r, "quarantine")
  /\ UNCHANGED <<sqlite, storeVars, from, at, tries, recordVars, inserted, repeated, failures, gaveUp>>

Quarantine(r) ==
  /\ pc[r] = "quarantine" /\ PutAside(r) /\ Goes(r, "commit")
  /\ UNCHANGED <<sqlite, from, at, tries, counts, failures, gaveUp>>
Commit(r) ==
  /\ pc[r] = "commit" /\ Advance(r) /\ Goes(r, "read")
  /\ UNCHANGED <<sqlite, from, at, tries, counts, failures, gaveUp>>
Finish(r) ==
  /\ pc[r] = "finish" /\ Conclude(r, "completed") /\ Goes(r, "done")
  /\ UNCHANGED <<sqlite, from, at, tries, counts, failures, gaveUp>>
(* The outer except branch.                                                *)
FinishFailed(r) ==
  /\ pc[r] = "failing" /\ Conclude(r, "failed") /\ Goes(r, "raised")
  /\ UNCHANGED <<sqlite, from, at, tries, counts, failures, gaveUp>>

-----------------------------------------------------------------------------
(* Failures.                                                               *)

Failure == failures < MaxFailures /\ failures' = failures + 1

(* Mutant of InsertRetried: one attempt more than allowed.                 *)
InsertRetriedOnceMore(r) ==
  /\ pc[r] = "insert" /\ sqlite
  /\ Failure
  /\ tries' = [tries EXCEPT ![r] = @ + 1]
  /\ IF tries[r] < MaxAttempts
     THEN UNCHANGED <<pc, refused, gaveUp>>
     ELSE /\ refused' = Count(refused, r)
          /\ gaveUp' = gaveUp \cup {at[r]}
          /\ Goes(r, "quarantine")
  /\ UNCHANGED <<sqlite, storeVars, from, at, recordVars, inserted, repeated>>

(* SQLite: an insertion that fails is tried again; the last error is one   *)
(* that the inner except branch takes for a bad record.                    *)
InsertRetried(r) ==
  /\ pc[r] = "insert" /\ sqlite
  /\ Failure
  /\ tries' = [tries EXCEPT ![r] = @ + 1]
  /\ IF tries[r] + 1 < MaxAttempts
     THEN UNCHANGED <<pc, refused, gaveUp>>
     ELSE /\ refused' = Count(refused, r)
          /\ gaveUp' = gaveUp \cup {at[r]}
          /\ Goes(r, "quarantine")
  /\ UNCHANGED <<sqlite, storeVars, from, at, recordVars, inserted, repeated>>

(* Mutant of InsertFails: the event is put aside as a bad record is.       *)
InsertDiverts(r) ==
  /\ pc[r] = "insert"
  /\ Failure
  /\ refused' = Count(refused, r)
  /\ Goes(r, "quarantine")
  /\ UNCHANGED <<sqlite, storeVars, from, at, tries, recordVars, inserted, repeated, gaveUp>>

(* PostgreSQL, and any other error: the run fails.  PostgreSQL may have    *)
(* stored the event all the same.                                          *)
InsertFails(r) ==
  /\ pc[r] = "insert"
  /\ Failure
  /\ \/ UNCHANGED accepted
     \/ /\ ~ sqlite
        /\ \A m \in accepted : ~ Same(m, at[r])
        /\ accepted' = accepted \cup {at[r]}
  /\ Goes(r, "failing")
  /\ UNCHANGED <<sqlite, quarantined, checkpoint, from, at, tries, recordVars, counts, gaveUp>>

(* Elsewhere in the try; the transaction may be committed all the same.    *)
RunFails(r) ==
  /\ Failure /\ Goes(r, "failing")
  /\ \/ pc[r] \in {"read", "quarantine", "commit", "finish"} /\ UNCHANGED <<storeVars, recordVars>>
     \/ pc[r] = "quarantine" /\ PutAside(r)
     \/ pc[r] = "commit" /\ Advance(r)
     \/ pc[r] = "finish" /\ Conclude(r, "completed")
  /\ UNCHANGED <<sqlite, from, at, tries, counts, gaveUp>>
(* Outside the try: before it, or in the except branch.                    *)
RunRaises(r) ==
  /\ Failure /\ Goes(r, "raised")
  /\ \/ pc[r] \in {"resume", "failing"} /\ UNCHANGED <<storeVars, recordVars>>
     \/ pc[r] = "failing" /\ Conclude(r, "failed")
  /\ UNCHANGED <<sqlite, from, at, tries, counts, gaveUp>>

(* The counts go with the process; the model keeps them as history.        *)
Ended == {"new", "done", "raised", "dead"}
RunDies(r) ==
  /\ pc[r] \notin Ended
  /\ Failure /\ Goes(r, "dead")
  /\ UNCHANGED <<sqlite, storeVars, from, at, tries, recordVars, counts, gaveUp>>

Ingest(r) ==
  \/ StartRun(r) \/ Resume(r) \/ ReadLine(r) \/ ReadEnd(r)
  \/ InsertNew(r) \/ InsertDuplicate(r) \/ InsertConflict(r)
  \/ Quarantine(r) \/ Commit(r) \/ Finish(r) \/ FinishFailed(r)
  \/ InsertRetried(r) \/ InsertFails(r) \/ RunFails(r) \/ RunRaises(r) \/ RunDies(r)

HistoryNext == \E r \in Runs : Ingest(r)

HistorySpec == HistoryInit /\ [][HistoryNext]_historyVars

-----------------------------------------------------------------------------
(* Properties                                                              *)

(* The shape of the state.                                                 *)
HistoryTypeOK ==
  /\ sqlite \in BOOLEAN
  /\ accepted \subseteq Lines /\ quarantined \subseteq Lines /\ gaveUp \subseteq Lines
  /\ checkpoint \in 0..Last
  /\ pc \in [Runs -> {"resume", "read", "insert", "quarantine", "commit", "finish",
                      "failing"} \cup Ended]
  /\ from \in [Runs -> 0..Last] /\ at \in [Runs -> 0..Last]
  /\ tries \in [Runs -> 0..MaxAttempts]
  /\ status \in [Runs -> {"none", "running", "completed", "failed"}]
  /\ inserted \in [Runs -> SUBSET Lines]
  /\ repeated \in [Runs -> SUBSET Lines]
  /\ refused \in [Runs -> SUBSET Lines]
  /\ report \in [Runs -> [inserted: SUBSET Lines, repeated: SUBSET Lines, refused: SUBSET Lines]]
  /\ failures \in Nat

\* What the line says is in the history, or the line is in quarantine.
Covered(n) == n \in quarantined \/ \E m \in accepted : Twin(m, n)

(* No line before the checkpoint is lost, and a run that is recorded as    *)
(* completed has covered the whole source, through every failure, crash    *)
(* and resumption and also when runs overlap and set the checkpoint back   *)
(* (ingest_replay stores first and commits then).                          *)
NothingSkipped ==
  /\ \A n \in 1..checkpoint : Covered(n)
  /\ \A r \in Runs : status[r] = "completed" => \A n \in Lines : Covered(n)

(* A good event is put aside only because the history has other content    *)
(* under its identity, or because SQLite could not take it: PostgreSQL's   *)
(* failures never divert one (the two except branches of ingest_replay).   *)
GoodEventsKept ==
  \A n \in quarantined : Good(n) =>
    \/ \E m \in accepted : Same(m, n) /\ ~ Twin(m, n)
    \/ sqlite /\ n \in gaveUp

(* The first content of an identity stays, and the runs' records tell the  *)
(* truth, with whatever they report, through failures, resumptions and     *)
(* overlapping runs: no two report one event as accepted; a completed run  *)
(* reports every line it passed, each as one thing, a failed one all but   *)
(* perhaps the line it failed at.  What is in the history and in no report *)
(* is what runs put there that never finished their record, and the line   *)
(* at which a run broke off.                                               *)
CountsAgree ==
  /\ \A m, n \in accepted : Same(m, n) => m = n
  /\ \A r \in Runs :
       LET own == report[r]
           lines == own.inserted \cup own.repeated \cup own.refused
       IN  /\ own.inserted \subseteq accepted
           /\ \A s \in Runs \ {r} : own.inserted \cap report[s].inserted = {}
           /\ own.inserted \cap own.repeated = {} /\ own.inserted \cap own.refused = {}
           /\ own.repeated \cap own.refused = {}
           /\ status[r] = "completed" => lines = (from[r] + 1)..Last
           /\ status[r] = "failed" =>
                lines \in {(from[r] + 1)..at[r], (from[r] + 1)..(at[r] - 1)}
  /\ \A n \in accepted : \E r \in Runs :
       \/ n \in report[r].inserted
       \/ n \in inserted[r] /\ status[r] = "running"
       \/ at[r] = n /\ pc[r] \in {"failing", "raised", "dead"}

=============================================================================
