SPECIFICATION Spec

CONSTANTS
  Key = {k1, k2, k3}
  EmptyKey = k1
  Request = {r1, r2, r3, r4}
  Time = {0, 1, 2, 3}
  Threshold = 2
  LockoutWindow = 2
  MaxTrackedKeys = 2

SYMMETRY Symmetry

INVARIANTS
  IInv
  OneList
  WithinCapacity
  NothingOutlivesItsWindow
  ExactAccounting
  OneEngagerPerLockout

PROPERTIES
  LockoutStands
  ImplementsBudget

