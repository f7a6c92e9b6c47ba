SPECIFICATION Spec
CONSTANTS
  Workers = {w1, w2}
  Jtis = {j1}
  Lifetime = 2
  BlacklistTtl = 2
  RedisMayFail = TRUE
  MaxTime = 6
SYMMETRY Symmetry
INVARIANTS
  TypeOK
  EntryOutlivesToken
  LogoutInvalidates
  LogoutIsWhole
