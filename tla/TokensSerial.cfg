SPECIFICATION Spec
CONSTANTS
  Users = {u1, u2}
  Sessions = {s1, s2}
  Tokens = {t1, t2, t3}
  None = None
  Workers = {w1}
  MayCrash = TRUE
  MaxExpired = 1
SYMMETRY Symmetry
INVARIANTS
  TokenSessionOwner
  OneLivePerSession
  AtMostOneSuccessor
  ActiveSessionsUsable
PROPERTIES
  RevokedOnlyByRight
  SignOutSticks
