SPECIFICATION FairSpec
CONSTANTS
  e1 = e1
  e2 = e2
  e3 = e3
  alice = alice
  bob = bob
  res = res
  task1 = task1
  task2 = task2
  NoEvent = NoEvent
  NoResult = NoResult
  NoTask = NoTask
  NoRequest = NoRequest
  ClearEvent = ClearEvent
  Event = {e1, e2}
  Result = {}
  Task = {task1}
  Sender = {alice, bob}
  Identity = {e1, e2}
  Requests <- TaskRequests
  LeaseTtl = 1
  EnvelopeTtl = 1
  StatusTtl = 2
  MaxQueuedCount = 2
  MaxQueuedBytes = 3
  MaxGeneration = 2
  MaxSequence = 2
PROPERTIES LateControlsMiss NothingIsStuck
