SPECIFICATION FairSpec
CONSTANTS
  r1 = r1
  r2 = r2
  r3 = r3
  s1 = s1
  s2 = s2
  m1 = m1
  m2 = m2
  m3 = m3
  None = None
  Run = {r1, r2}
  Sweeper = {s1}
  Machine = {m1, m2, m3}
  Provider = {"vercel", "e2b"}
  Faults = 2
  Clears = 1
CHECK_DEADLOCK FALSE
INVARIANTS TypeOK LostByFailure UsedIsReserved
PROPERTIES SweepSparesRefreshed RowsGoAway
