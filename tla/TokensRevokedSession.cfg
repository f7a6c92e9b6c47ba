SPECIFICATION Spec
CONSTANTS
  Users = {u1}
  Sessions = {s1}
  Tokens = {t1, t2, t3}
  None = None
  Workers = {w1, w2}
  MayCrash = FALSE
  MaxExpired = 0
PROPERTIES
  RevokedSessionIsDead
