------------------------ MODULE MCDispatchDelivery ------------------------
(* Small instances of DispatchDelivery for TLC.                            *)
EXTENDS DispatchDelivery

CONSTANTS w1, h1, h2, nobody

MCWorkers == {w1}
MCOneHandler == {h1}
MCHandlers == {h1, h2}
MCNone == {}

=============================================================================
