----------------------- MODULE MCDispatchCoordinator -----------------------
(* Small instances of DispatchCoordinator for TLC.                         *)
EXTENDS DispatchCoordinator, TLC

CONSTANTS w1, w2, h1, h2, o1, nobody

MCWorkers == {w1, w2}
MCOneWorker == {w1}
MCHandlers == {h1, h2}
MCOneHandler == {h1}
MCOneOperator == {o1}
MCNone == {}
WorkerSymmetry == Permutations(MCWorkers)
HandlerSymmetry == Permutations(MCHandlers)

=============================================================================
