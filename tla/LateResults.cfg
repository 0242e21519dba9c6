SPECIFICATION FairSpec
CONSTANTS
  c1 = c1
  Child = {c1}
  Outcomes = {"completed", "hidden", "failed", "stopped", "awaiting_input"}
  Budget = 1
  Grace = 1
  Hold = 2
  Faults = 3
CHECK_DEADLOCK FALSE
INVARIANTS ToldOnce StoredIsTold LostIsLost
PROPERTIES EveryResultArrives
