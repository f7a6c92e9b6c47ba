SPECIFICATION Spec
CONSTANTS
  Requests = {r1, r2, r3}
  Ips = {i1}
  UserIds = {u1}
  None = None
  Limit = 2
  Window = 3
  MaxLatency = 1
  RedisMayFail = TRUE
  MaxTime = 6
SYMMETRY Symmetry
CHECK_DEADLOCK FALSE
INVARIANTS
  TypeOK
  WindowLimit
  QuietKeyIsFree
PROPERTIES
  DenialsJustified
