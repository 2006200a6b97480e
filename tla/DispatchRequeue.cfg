SPECIFICATION DeliverySpec
CONSTANTS
  w1 = w1  h1 = h1  h2 = h2  nobody = nobody
  Workers <- MCWorkers
  Handlers <- MCOneHandler
  Operators <- MCNone
  Exhausters <- MCWorkers
  NoOwner = nobody
  Durable = TRUE
  Callbacks = {"completed"}
  RetryDelay = 2
  ClaimTimeout = 1
  MaxTime = 5
  MaxVersion = 3
  Messages = {1, 2, 3, 4}
  ExhaustAt = 2
  MaxDeliveries = 2
  MaxDelay = 1
  MaxCrashes = 0
  MaxRequests = 2
  WebhookCrashes = TRUE
PROPERTIES QuietBetweenRungs
\* A settled case with an empty queue is the end of a run.
CHECK_DEADLOCK FALSE
