CONSTANTS
  house = house
  token = token
  NoMember = NoMember
  Request = {r1}
  Household = {house}
  Member = {alice, bob}
  Home <- MCHome
  CredentialID = {k1}
  Handle = {token}
  Derive <- MCDerive
  MaxCount = 1
  MaxTime = 1
SPECIFICATION DeactivationSpec
PROPERTY DeactivatedMembersStayOut
CHECK_DEADLOCK FALSE
