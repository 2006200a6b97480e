---------------------------- MODULE LiveCoverage ----------------------------
(***************************************************************************)
(* Live capture, its back-pressure and the coverage measured of it:        *)
(* LiveCaptureWorker of src/data/video/capture.py under the loop of cli.py,*)
(* the capture threads of src/api/app.py, the depth of the brokers, and    *)
(* what a video worker records of a clip (worker.py, coverage.py,          *)
(* record_coverage of service.py).                                         *)
(*                                                                         *)
(* Every producer shares one backlog of messages.  A camera's worker looks *)
(* at its depth before it records; the API's threads never do, and a video *)
(* worker takes a message away before it sends that of the next operation. *)
(* Claims, leases and attempts of the jobs are VideoJobs'.                 *)
(***************************************************************************)
EXTENDS Naturals, FiniteSets

CONSTANTS
  Cameras,         \* live sources, each with its capture worker
  Captures,        \* API requests that store one clip each
  Short,           \* those whose clip lasts less than a second
  Handlers,        \* video workers
  Rounds,          \* bound: segments a camera's worker begins
  MaxPending,      \* max_pending_segments
  MaxMishaps       \* bound: failures of cameras, uploads, the provider and
                   \* the database, deaths of processes

ASSUME CoverageAssumption ==
  /\ Short \subseteq Captures
  /\ Cameras \cap Captures = {} /\ Cameras \cup Captures # {}
  /\ IsFiniteSet(Cameras) /\ IsFiniteSet(Captures) /\ IsFiniteSet(Handlers)
  /\ {Rounds, MaxPending} \subseteq Nat \ {0}
  /\ MaxMishaps \in Nat

Producers == Cameras \cup Captures
Segments == (Cameras \X (1..Rounds)) \cup (Captures \X {1})
LastStage == 3     \* upload, index, analyze

VARIABLES
  producer,   \* producer -> how far it is with which segment
  clipJob,    \* segment -> the stage its jobs are at, and the state of that job
  backlog,    \* the segments a message of which is in a queue, held ones included
  hand,       \* video worker -> what it does with which segment
  analysed,   \* the segments whose analysis went well
  telemetry,  \* segment -> its row of source_coverage_telemetry
  snapshot,   \* segment -> its row of coverage_snapshots
  mishaps     \* how many there were, and the segments that a death, a
              \* failed camera, upload or record fell on

coverageVars == <<producer, clipJob, backlog, hand, analysed, telemetry, snapshot, mishaps>>

\* verdict: what is to be recorded of the clip; last: what comes after that.
Resting == [pc |-> "idle", seg |-> CHOOSE s \in Segments : TRUE,
            verdict |-> "none", last |-> "acknowledge"]

CoverageInit ==
  /\ producer = [p \in Producers |-> [pc |-> "idle", round |-> 1]]
  /\ clipJob = [s \in Segments |-> [stage |-> 1, state |-> "none"]]
  /\ backlog = {}
  /\ hand = [w \in Handlers |-> Resting]
  /\ analysed = {}
  /\ telemetry = [s \in Segments |-> "none"]
  /\ snapshot = [s \in Segments |-> "none"]
  /\ mishaps = [count |-> 0, on |-> {}]

Depth == Cardinality(backlog)

Setback(on) == /\ mishaps.count < MaxMishaps
               /\ mishaps' = [count |-> mishaps.count + 1, on |-> mishaps.on \cup on]
Mishap(s) == Setback({s})

-----------------------------------------------------------------------------
(* The producers.                                                          *)

Segment(p) == <<p, producer[p].round>>
Now(p, pc) == producer[p].pc = pc
Move(p, pc) == producer' = [producer EXCEPT ![p].pc = pc]
Leaves(p) == producer' = [producer EXCEPT ![p] = [pc |-> "idle", round |-> @.round + 1]]
Observe(s, row) == telemetry' = [telemetry EXCEPT ![s] = row]

(* Mutant of CaptureOnce: the limit itself still passes.                   *)
CaptureAtLimit(c) ==
  /\ Now(c, "idle") /\ producer[c].round <= Rounds
  /\ IF Depth > MaxPending
     THEN Observe(Segment(c), "gap") /\ Leaves(c)
     ELSE Move(c, "record") /\ UNCHANGED telemetry
  /\ UNCHANGED <<clipJob, backlog, hand, analysed, snapshot, mishaps>>

CaptureOnce(c) ==
  /\ Now(c, "idle") /\ producer[c].round <= Rounds
  /\ IF Depth >= MaxPending
     THEN Observe(Segment(c), "gap") /\ Leaves(c)
     ELSE Move(c, "record") /\ UNCHANGED telemetry
  /\ UNCHANGED <<clipJob, backlog, hand, analysed, snapshot, mishaps>>

StartCapture(p) ==
  /\ Now(p, "idle") /\ producer[p].round = 1
  /\ Move(p, "record")
  /\ UNCHANGED <<clipJob, backlog, hand, analysed, telemetry, snapshot, mishaps>>

(* A camera's worker whose source or secrets cannot be resolved, or for    *)
(* which every reconnection has failed, ends with the error, and only in   *)
(* the second case notes it; whoever runs the worker starts it again.      *)
RecordSegment(c) ==
  /\ Now(c, "record")
  /\ \/ Move(c, "accept") /\ UNCHANGED <<telemetry, mishaps>>
     \/ /\ Leaves(c)
        /\ Mishap(Segment(c))
        /\ Observe(Segment(c), "dark") \/ UNCHANGED telemetry
  /\ UNCHANGED <<clipJob, backlog, hand, analysed, snapshot>>

(* A failed capture of the API is shown as such and leaves no telemetry.   *)
RecordClip(p) ==
  /\ Now(p, "record")
  /\ \/ Move(p, "accept") /\ UNCHANGED mishaps
     \/ Leaves(p) /\ Mishap(Segment(p))
  /\ UNCHANGED <<clipJob, backlog, hand, analysed, telemetry, snapshot>>

(* accept_upload and enqueue.  A clip that is refused leaves nothing.      *)
Accept(p) ==
  /\ Now(p, "accept")
  /\ \/ /\ Move(p, "publish")
        /\ clipJob' = [clipJob EXCEPT ![Segment(p)].state = "queued"]
        /\ UNCHANGED mishaps
     \/ Leaves(p) /\ Mishap(Segment(p)) /\ UNCHANGED clipJob
  /\ UNCHANGED <<backlog, hand, analysed, telemetry, snapshot>>

PublishSegment(p) ==
  /\ Now(p, "publish")
  /\ backlog' = backlog \cup {Segment(p)}
  /\ IF p \in Cameras THEN Move(p, "observe") ELSE Leaves(p)
  /\ UNCHANGED <<clipJob, hand, analysed, telemetry, snapshot, mishaps>>

(* The row has the key of the one a video worker records of the clip, and  *)
(* replaces it if that came first.                                         *)
ObserveSegment(c) ==
  /\ Now(c, "observe")
  /\ Observe(Segment(c), "processable")
  /\ Leaves(c)
  /\ UNCHANGED <<clipJob, backlog, hand, analysed, snapshot, mishaps>>

ProducerDies(p) ==
  /\ ~ Now(p, "idle")
  /\ Mishap(Segment(p))
  /\ Leaves(p)
  /\ UNCHANGED <<clipJob, backlog, hand, analysed, telemetry, snapshot>>

-----------------------------------------------------------------------------
(* The video workers.                                                      *)

Doing(w, pc) == hand[w].pc = pc
Turn(w, pc) == hand' = [hand EXCEPT ![w].pc = pc]
LetGo(w) == hand' = [hand EXCEPT ![w] = Resting]
Held == {hand[w].seg : w \in {v \in Handlers : ~ Doing(v, "idle")}}
JobBecomes(s, state) == clipJob' = [clipJob EXCEPT ![s].state = state]

\* The verdict is recorded, unless there is none, before the message goes.
Tell(w, verdict, last) ==
  hand' = [hand EXCEPT ![w].pc = IF verdict = "none" THEN last ELSE "observe",
                       ![w].verdict = verdict, ![w].last = last]

TakeClip(w, s) ==
  /\ Doing(w, "idle")
  /\ s \in backlog \ Held
  /\ clipJob[s].state = "queued"
  /\ JobBecomes(s, "running")
  /\ hand' = [hand EXCEPT ![w] = [Resting EXCEPT !.pc = "run", !.seg = s]]
  /\ UNCHANGED <<producer, backlog, analysed, telemetry, snapshot, mishaps>>

(* A message whose job is over is acknowledged; one whose job a dead       *)
(* worker left running is delivered until the queue gives it up.           *)
DropMessage(s) ==
  /\ s \in backlog \ Held
  /\ clipJob[s].state \in {"completed", "failed", "running"}
  /\ backlog' = backlog \ {s}
  /\ UNCHANGED <<producer, clipJob, hand, analysed, telemetry, snapshot, mishaps>>

Succeeds(w) ==
  LET s == hand[w].seg IN
  /\ Doing(w, "run")
  /\ JobBecomes(s, "completed")
  /\ IF clipJob[s].stage = LastStage
     THEN analysed' = analysed \cup {s} /\ Tell(w, "available", "acknowledge")
     ELSE UNCHANGED analysed /\ Tell(w, "none", "acknowledge")
  /\ UNCHANGED <<producer, backlog, telemetry, snapshot, mishaps>>

(* Mutant of Fails: a failed detector is recorded as a working one.        *)
FailsAvailable(w) ==
  /\ Doing(w, "run")
  /\ Setback({})
  /\ \E verdict \in {"none", "available"} :
       \/ JobBecomes(hand[w].seg, "queued") /\ Tell(w, verdict, "release")
       \/ JobBecomes(hand[w].seg, "failed") /\ Tell(w, verdict, "bury")
  /\ UNCHANGED <<producer, backlog, analysed, telemetry, snapshot>>

(* A retry or the final failure of whatever operation; that the detector   *)
(* was missing is recorded when the error is the provider's.               *)
Fails(w) ==
  /\ Doing(w, "run")
  /\ Setback({})
  /\ \E verdict \in {"none", "unavailable"} :
       \/ JobBecomes(hand[w].seg, "queued") /\ Tell(w, verdict, "release")
       \/ JobBecomes(hand[w].seg, "failed") /\ Tell(w, verdict, "bury")
  /\ UNCHANGED <<producer, backlog, analysed, telemetry, snapshot>>

ObserveDetector(w) ==
  /\ Doing(w, "observe")
  /\ Observe(hand[w].seg, IF hand[w].verdict = "available" THEN "detector" ELSE "processable")
  /\ Turn(w, "cover")
  /\ UNCHANGED <<producer, clipJob, backlog, analysed, snapshot, mishaps>>

RecordCoverage(w) ==
  /\ Doing(w, "cover")
  /\ hand[w].seg[1] \notin Short
  /\ snapshot' = [snapshot EXCEPT ![hand[w].seg] = hand[w].verdict]
  /\ Turn(w, hand[w].last)
  /\ UNCHANGED <<producer, clipJob, backlog, analysed, telemetry, mishaps>>

(* The telemetry counts a clip as one second at least, record_coverage     *)
(* counts whole seconds and refuses an empty interval.  After a success    *)
(* the error fails the completed job; in the handler of another error it   *)
(* ends the worker.                                                        *)
CoverageRefused(w) ==
  /\ Doing(w, "cover")
  /\ hand[w].seg[1] \in Short
  /\ IF hand[w].last = "acknowledge"
     THEN JobBecomes(hand[w].seg, "failed") /\ Turn(w, "bury")
     ELSE UNCHANGED clipJob /\ LetGo(w)
  /\ UNCHANGED <<producer, backlog, analysed, telemetry, snapshot, mishaps>>

(* The same for any other failure to record.                               *)
RecordingFails(w) ==
  /\ hand[w].pc \in {"observe", "cover"}
  /\ Mishap(hand[w].seg)
  /\ IF hand[w].last = "acknowledge"
     THEN JobBecomes(hand[w].seg, "failed") /\ Turn(w, "bury")
     ELSE UNCHANGED clipJob /\ LetGo(w)
  /\ UNCHANGED <<producer, backlog, analysed, telemetry, snapshot>>

(* After the retry of a job its message stays; otherwise it leaves the     *)
(* queue, and the next operation's is yet to come.                         *)
Release(w) ==
  /\ Doing(w, "release")
  /\ LetGo(w)
  /\ UNCHANGED <<producer, clipJob, backlog, analysed, telemetry, snapshot, mishaps>>

Acknowledge(w) ==
  /\ hand[w].pc \in {"acknowledge", "bury"}
  /\ backlog' = backlog \ {hand[w].seg}
  /\ IF Doing(w, "acknowledge") /\ clipJob[hand[w].seg].stage < LastStage
     THEN Turn(w, "next") ELSE LetGo(w)
  /\ UNCHANGED <<producer, clipJob, analysed, telemetry, snapshot, mishaps>>

PublishNext(w) ==
  LET s == hand[w].seg IN
  /\ Doing(w, "next")
  /\ clipJob' = [clipJob EXCEPT ![s] = [stage |-> @.stage + 1, state |-> "queued"]]
  /\ backlog' = backlog \cup {s}
  /\ LetGo(w)
  /\ UNCHANGED <<producer, analysed, telemetry, snapshot, mishaps>>

HandlerDies(w) ==
  /\ ~ Doing(w, "idle")
  /\ Mishap(hand[w].seg)
  /\ LetGo(w)
  /\ UNCHANGED <<producer, clipJob, backlog, analysed, telemetry, snapshot>>

-----------------------------------------------------------------------------
CoverageNext ==
  \/ \E c \in Cameras : CaptureOnce(c) \/ RecordSegment(c) \/ ObserveSegment(c)
  \/ \E p \in Captures : StartCapture(p) \/ RecordClip(p)
  \/ \E p \in Producers : Accept(p) \/ PublishSegment(p) \/ ProducerDies(p)
  \/ \E w \in Handlers : \/ \E s \in Segments : TakeClip(w, s)
                         \/ Succeeds(w) \/ Fails(w)
                         \/ ObserveDetector(w) \/ RecordCoverage(w)
                         \/ CoverageRefused(w) \/ RecordingFails(w)
                         \/ Release(w) \/ Acknowledge(w) \/ PublishNext(w)
                         \/ HandlerDies(w)
  \/ \E s \in Segments : DropMessage(s)

CoverageSpec == CoverageInit /\ [][CoverageNext]_coverageVars

-----------------------------------------------------------------------------
(* Properties                                                              *)

(* The shape of the state.                                                 *)
CoverageTypeOK ==
  /\ producer \in [Producers -> [pc: {"idle", "record", "accept", "publish", "observe"},
                                 round: Nat \ {0}]]
  /\ clipJob \in [Segments -> [stage: 1..LastStage,
                               state: {"none", "queued", "running", "completed", "failed"}]]
  /\ {backlog, analysed, mishaps.on} \subseteq SUBSET Segments
  /\ hand \in [Handlers -> [pc: {"idle", "run", "observe", "cover", "release",
                                 "acknowledge", "bury", "next"},
                            seg: Segments, verdict: {"none", "available", "unavailable"},
                            last: {"release", "acknowledge", "bury"}]]
  /\ telemetry \in [Segments -> {"none", "gap", "dark", "processable", "detector"}]
  /\ snapshot \in [Segments -> {"none", "available", "unavailable"}]

(* "Emit short live segments to the durable queue with backpressure": the  *)
(* depth is read before a segment is recorded and the message sent after   *)
(* it, so the backlog may pass max_pending_segments, but only by one       *)
(* message for every producer and every worker at work at that moment.     *)
BacklogBounded ==
  Depth <= MaxPending - 1 + Cardinality(Cameras) + Cardinality(Captures)
                          + Cardinality(Handlers)

(* The coverage forecasts are weighted with is measured: a clip counts as  *)
(* covered only if its analysis went well, whatever retries and failures   *)
(* came before or after; and a clip whose analysis is over and             *)
(* acknowledged counts, unless a process died or a record failed on it.    *)
CoverageFollowsAnalysis ==
  \A s \in Segments :
    /\ snapshot[s] = "available" \/ telemetry[s] = "detector" => s \in analysed
    /\ /\ clipJob[s] = [stage |-> LastStage, state |-> "completed"]
       /\ s \notin backlog \cup mishaps.on
       => snapshot[s] = "available"

=============================================================================
