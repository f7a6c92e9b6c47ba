SPECIFICATION Spec
CONSTANTS
  Workers = {w1, w2}
  Secrets = {k1, k2}
  Codes = {c1}
  MfaTokens = {m1}
  None = None
  BatchSize = 1
  RedisMayFail = FALSE
PROPERTIES
  EnableSparesEnrolled
