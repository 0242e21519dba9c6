SPECIFICATION Spec
CONSTANTS
  p1 = p1
  p2 = p2
  Stages = {"s1", "s2"}
  Agents = {"agent"}
  Hooks = {"hook"}
  Servers = {"server"}
  Sessions = {p1, p2}
  Manifests <- Declared
  MaxClaims = 4
  MaxFaults = 1
INVARIANTS TypeOK RefsResolve CompletedIsApplied
PROPERTIES DeletesWereRead
SYMMETRY Swapped
CHECK_DEADLOCK FALSE
