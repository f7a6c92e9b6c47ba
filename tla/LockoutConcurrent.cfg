SPECIFICATION AccountsSpec
CONSTANTS
  Workers = {w1, w2, w3}
  MaxLoginAttempts = 2
  LockoutDuration = 2
  MaxLost = 1
  MaxTime = 5
  Rows = {r1, r2}
  None = None
  MaxUnlogged = 1
SYMMETRY Symmetry
INVARIANTS
  TypeOK
  AccountsTypeOK
  ThresholdLocks
  AttemptsBounded
  LockIsEarned
  OneAccount
  RegistrationRecorded
  FailuresRecorded
