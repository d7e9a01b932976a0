CONSTANTS
  r1 = r1
  r2 = r2
  r3 = r3
  h1 = h1
  h2 = h2
  alice = alice
  bob = bob
  k1 = k1
  k2 = k2
  shared = shared
  NoMember = NoMember
  Request = {r1, r2, r3}
  Household = {h1, h2}
  Member = {alice, bob}
  Home <- MCHome
  CredentialID = {k1, k2}
  Handle = {shared}
  Derive <- MCDerive
  MaxCount = 1
  MaxTime = 2
SPECIFICATION Spec
SYMMETRY Symmetry
INVARIANTS
  IInv
  NewestAssertionStands
PROPERTIES
  RevokedKeysFail
  LoginAnswersOwner
CHECK_DEADLOCK FALSE
