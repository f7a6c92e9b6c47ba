SPECIFICATION Spec
CONSTANTS
  Users = {u1}
  Sessions = {s1}
  Tokens = {t1, t2}
  None = None
  Workers = {w1, w2}
  MayCrash = TRUE
  MaxExpired = 0
PROPERTIES
  SignOutCompletes
  RotationDelivers
