SPECIFICATION Spec
CONSTANTS
  e1 = e1
  e2 = e2
  e3 = e3
  alice = alice
  bob = bob
  res = res
  task1 = task1
  task2 = task2
  NoEvent = NoEvent
  NoResult = NoResult
  NoTask = NoTask
  NoRequest = NoRequest
  ClearEvent = ClearEvent
  Event = {e1, e2, e3}
  Result = {res}
  Task = {}
  Sender = {alice, bob}
  Identity = {e1, e2, e3}
  Requests <- RetryRequests
  LeaseTtl = 1
  EnvelopeTtl = 3
  StatusTtl = 4
  MaxQueuedCount = 2
  MaxQueuedBytes = 3
  MaxGeneration = 3
  MaxSequence = 3
INVARIANTS CountExact
