------------------------- MODULE MCDispatchCalls --------------------------
(* Two instances of DispatchCoordinator in one run.  All workers race,     *)
(* within one unit of time, for calls that just end; or all but one are    *)
(* off, and that one climbs the whole ladder through every callback.       *)
EXTENDS MCDispatchCoordinator

OffWorker == [IdleWorker EXCEPT !.pc = "off"]

CallsInit ==
  /\ RepositoryInit
  /\ clock = 0
  /\ calls = [i \in Sequences3 |-> 0]
  /\ line = [i \in Sequences3 |-> {}]
  /\ \E lone \in Workers :
       worker \in {[w \in Workers |-> IdleWorker],
                   [w \in Workers |-> IF w = lone THEN IdleWorker ELSE OffWorker]}
  /\ handler = [h \in Handlers |-> IdleHandler]
  /\ canceler = [o \in Operators |-> IdleCanceler]

CallsSpec == CallsInit /\ [][CoordinatorNext]_vars

Lone == \E w \in Workers : worker[w].pc = "off"
Racing ==
  /\ clock' <= 1
  /\ \A h \in Handlers : handler'[h].value \in {IdleHandler.value, "completed"}
Climbing ==
  \A w \in Workers : IF worker[w].pc = "off" THEN worker'[w].pc = "off"
                                            ELSE worker'[w].pc # "retry"

(* Off stays off; only a lone worker leaves the race's bounds, and it meets *)
(* no call that the provider refuses: those belong to the race.            *)
RacingOrClimbing == IF Lone THEN Climbing ELSE Racing

=============================================================================
