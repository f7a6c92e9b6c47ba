SPECIFICATION Spec
CONSTANTS
  Workers = {w1, w2}
  Secrets = {k1, k2}
  Codes = {c1, c2}
  MfaTokens = {m1}
  None = None
  BatchSize = 1
  RedisMayFail = TRUE
SYMMETRY Symmetry
INVARIANTS
  TypeOK
  EnrolledSecretIsHeld
  CodesBelongToEnrollment
  EnrollmentHasCodes
  SecondSignInExplained
  SpentCodesAccounted
PROPERTIES
  ImplementsSecondFactor
