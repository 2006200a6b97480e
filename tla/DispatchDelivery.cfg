SPECIFICATION FairDeliverySpec
CONSTANTS
  w1 = w1  h1 = h1  h2 = h2  nobody = nobody
  Workers <- MCWorkers
  Handlers <- MCOneHandler
  Operators <- MCNone
  Exhausters <- MCWorkers
  NoOwner = nobody
  Durable = TRUE
  Callbacks = {"completed"}
  RetryDelay = 1
  ClaimTimeout = 1
  MaxTime = 12
  MaxVersion = 2
  Messages = {1, 2, 3}
  ExhaustAt = 2
  MaxDeliveries = 2
  MaxDelay = 1
  MaxCrashes = 1
  MaxRequests = 1
  WebhookCrashes = FALSE
INVARIANTS DeliveryTypeOK NoDueCaseForgotten
PROPERTIES EnqueuedCaseSettles
\* A settled case with an empty queue is the end of a run.
CHECK_DEADLOCK FALSE
