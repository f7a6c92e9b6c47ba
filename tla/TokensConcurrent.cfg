SPECIFICATION Spec
CONSTANTS
  Users = {u1}
  Sessions = {s1, s2}
  Tokens = {t1, t2, t3}
  None = None
  Workers = {w1, w2}
  MayCrash = TRUE
  MaxExpired = 0
SYMMETRY Symmetry
INVARIANTS
  TypeOK
  RotationOrder
  OrphansExplained
  ActiveSessionsUsable
PROPERTIES
  RevocationIsFinal
  ImplementsChain
  DeadStaysDead
