------------------------------ MODULE MCVideo ------------------------------
(* One instance of each of three parts of the video service that share no  *)
(* variable; part says which one a behaviour is about.                     *)
EXTENDS Reanalysis, VideoAssets, LiveCoverage, TLC

CONSTANTS r1, r2, r3, r4, k1, k2, k3, first, c1, c2, u1, u2, road, phone, worker1
VARIABLE part

\* r1, r2: one request and its repetition; r3: a second one for the failed
\* analysis; r4: one for the analysis the first request made.
MCKeyOf == (r1 :> k1) @@ (r2 :> k1) @@ (r3 :> k2) @@ (r4 :> k3)
MCTargetOf == (r1 :> first) @@ (r2 :> first) @@ (r3 :> first) @@ (r4 :> k1)
MCSizeOf == (c1 :> 1) @@ (c2 :> 2)
TwinSymmetry == Permutations({u1, u2}) \cup Permutations({r1, r2})

Init ==
  /\ part \in {"reanalysis", "assets", "coverage"}
  /\ ReanalysisInit /\ AssetInit /\ CoverageInit
Next ==
  \/ part = "reanalysis" /\ ReanalysisNext /\ UNCHANGED <<assetVars, coverageVars, part>>
  \/ part = "assets" /\ AssetNext /\ UNCHANGED <<allVars, coverageVars, part>>
  \/ part = "coverage" /\ CoverageNext /\ UNCHANGED <<allVars, assetVars, part>>
Spec == Init /\ [][Next]_<<allVars, assetVars, coverageVars, part>>

(* The shape of the state of the three parts: every value a request, a      *)
(* worker, a camera or the sweep stores is one the tables and queues admit. *)
VideoClipsTypeOK == ReanalysisTypeOK /\ AssetTypeOK /\ CoverageTypeOK

=============================================================================
