SPECIFICATION Spec
CONSTANTS
  w1 = w1  w2 = w2  h1 = h1  h2 = h2  o1 = o1  nobody = nobody
  Workers <- MCOneWorker
  Handlers <- MCHandlers
  Operators <- MCOneOperator
  Exhausters <- MCOneWorker
  NoOwner = nobody
  Durable = FALSE
  Callbacks = {"ringing", "in_progress", "completed", "1"}
  RetryDelay = 1
  ClaimTimeout = 1
  MaxTime = 0
  MaxVersion = 2
SYMMETRY HandlerSymmetry
INVARIANTS TypeOK CaseMatchesAttempts
PROPERTIES AttemptMovesForward
\* A finished case, a stopped clock and idle processes are the end of a run.
CHECK_DEADLOCK FALSE
