CONSTANTS
  Requests = {r1, r2}
  Orders = {o1}
  OrderTtl = 2
  MaxAttempts = 3
  BaseDelay = 1
  MaxDelay = 2
  Budget = 2
  MaxTime = 2
  MaxQueue = 2
  Responses <- SampleResponses
  ReplayLimit = 2
  SampleEvents = 1
  MaxEvents = 4
  MaxFaults = 2
SPECIFICATION ApiSpec
CHECK_DEADLOCK FALSE
INVARIANTS CancelSticks LateAttemptsBounded FileInOrder NothingMissing ReplayBounded
PROPERTIES ImplementsOrderLife Answered QueueDrains
