SPECIFICATION FairVideoSpec
CONSTANTS
  w1 = w1  w2 = w2  nobody = nobody
  Workers <- MCWorkers
  NoWorker = nobody
  Messages = {1, 2, 3, 4}
  MaxAttempts <- MCAttempts
  Brokers = {"sqs", "postgres"}
  MaxReceives = 2
  MaxUploads = 2
  MaxTrouble = 1
INVARIANTS VideoTypeOK OneExecutor ChainInOrder
PROPERTIES RunsTheChain RunSettles
\* A settled run with an empty queue is the end.
CHECK_DEADLOCK FALSE
