SPECIFICATION Spec

CONSTANTS
  Session = {p1, p2}
  Household = {home, other}
  Home = home
  RecoveryCodeCount = 1
  MaxSecrets = 3
  MaxStep = 2

SYMMETRY Symmetry

PROPERTY
  ConfirmedSecretIsProven

CHECK_DEADLOCK FALSE
