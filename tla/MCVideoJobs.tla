---------------------------- MODULE MCVideoJobs ----------------------------
(* Small instances of VideoJobs for TLC.                                   *)
EXTENDS VideoJobs

CONSTANTS w1, w2, nobody

MCWorkers == {w1, w2}
MCOneWorker == {w1}
\* Retries of an upload, a second look at the index, no retry of an analysis.
MCAttempts == [upload |-> 2, index |-> 2, analyze |-> 1]

=============================================================================
