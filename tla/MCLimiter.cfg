SPECIFICATION Spec
CONSTANTS
  Process = {p1}
  Shared = Shared
  Key = {k1, k2, k3}
  Request = {a, b, c, d}
  Limit = 1
  MaxTracked = 2
  RedisConfigured = TRUE
  LastMinute = 3
  MaxCount = 1
SYMMETRY Alike
INVARIANTS
  TypeOK
  WithinLimit
  RefusedOnlyWhenFull
  OverflowIsCurrent
CHECK_DEADLOCK FALSE
