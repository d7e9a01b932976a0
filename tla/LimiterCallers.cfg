SPECIFICATION CallersSpec

CONSTANTS
  Key = {k1, k2}
  EmptyKey = k1
  Request = {r1, r2, r3}
  Time = {0, 1, 2, 3, 4}
  Threshold = 1
  LockoutWindow = 3
  MaxDelay = 1
  MaxTrackedKeys = 2

INVARIANT
  OneList

CHECK_DEADLOCK FALSE
