SPECIFICATION FairSpec
CONSTANTS
  h1 = h1
  h2 = h2
  k1 = k1
  m1 = m1
  m2 = m2
  Session = {s1, s2}
  Household = {h1, h2}
  LockKey = {k1}
  hashtext <- MChashtext
  Member = {m1, m2}
  Home <- MCHome
  Role = {"owner", "adult", "child"}
  NoSession = NoSession
INVARIANTS
  IInv
PROPERTIES
  ImplementsOwned
  RefusalsAreJustified
  EveryCallReturns
