SPECIFICATION FairSpec
CONSTANTS
  MaxFires = 2
  Changes = 3
  Batch = 1
  Faults = 2
  None = None
CHECK_DEADLOCK FALSE
INVARIANTS FiresAsTheRowSays LastStatusIsLatest
PROPERTIES HistoryDrains OneShotGoes
