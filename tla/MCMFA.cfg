SPECIFICATION Spec

CONSTANTS
  Session = {p1, p2}
  Household = {home, other}
  Home = home
  RecoveryCodeCount = 1
  MaxSecrets = 3
  MaxStep = 2

SYMMETRY Symmetry

INVARIANTS
  IInv
  OneRedemptionPerCode
  ShownCodesAreStored
  NoReplayWithinEnrollment

PROPERTIES
  ConfirmedStands
  TenantGuard

CHECK_DEADLOCK FALSE
