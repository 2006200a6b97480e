SPECIFICATION CallsSpec
\* A case that is closed asks for nothing more; nor does time that has stopped.
CONSTANTS
  w1 = w1  w2 = w2  h1 = h1  h2 = h2  o1 = o1  nobody = nobody
  Workers <- MCWorkers
  Handlers <- MCOneHandler
  Operators <- MCNone
  Exhausters <- MCWorkers
  NoOwner = nobody
  Durable = TRUE
  Callbacks = {"completed", "no_answer", "machine", "1", "2"}
  RetryDelay = 1
  ClaimTimeout = 1
  MaxTime = 2
  MaxVersion = 3
ACTION_CONSTRAINT RacingOrClimbing
SYMMETRY WorkerSymmetry
INVARIANTS CallOncePerAttempt OneActiveAttempt
PROPERTIES RetryOnlyCertainFailure ClosedCaseIsFinal ClimbsTheLadder
CHECK_DEADLOCK FALSE
