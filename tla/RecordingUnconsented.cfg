SPECIFICATION Spec
CONSTANTS
  Mints = {m1}
  Stops = {p1}
  Hooks = {h1}
  Egresses = {e1}
  NoEgress = none
  MaxReconcile = 2
  Faults = {}
  MaxFaults = 0
INVARIANT ConsentedOnly
CHECK_DEADLOCK FALSE
