SPECIFICATION Spec
CONSTANTS
  p1 = p1
  p2 = p2
  Stages = {"s1", "s2"}
  Agents = {"agent"}
  Hooks = {"hook"}
  Servers = {"server"}
  Sessions = {p1}
  Manifests <- Declared
  MaxClaims = 4
  MaxFaults = 0
PROPERTIES AsksBeforeDelete
CHECK_DEADLOCK FALSE
