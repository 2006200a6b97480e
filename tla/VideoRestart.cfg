SPECIFICATION FairVideoSpec
CONSTANTS
  w1 = w1  w2 = w2  nobody = nobody
  Workers <- MCOneWorker
  NoWorker = nobody
  Messages = {1, 2, 3}
  MaxAttempts <- MCAttempts
  Brokers = {"postgres"}
  MaxReceives = 2
  MaxUploads = 1
  MaxTrouble = 1
PROPERTIES RunSurvivesRestart
\* A settled run with an empty queue is the end.
CHECK_DEADLOCK FALSE
