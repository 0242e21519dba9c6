SPECIFICATION Spec
CONSTANTS
  c1 = c1
  Child = {c1}
  Outcomes = {"completed"}
  Budget = 1
  Grace = 1
  Hold = 2
  Faults = 0
CHECK_DEADLOCK FALSE
INVARIANTS NoticeBeforeResult
