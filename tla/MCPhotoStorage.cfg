SPECIFICATION Spec
CONSTANTS
  u1 = u1
  u2 = u2
  h1 = h1
  x1 = x1
  Uploader = {u1, u2}
  Household = {h1}
  Content = {x1}
  NumClasses = 2
  Legacy <- MCLegacy
  GraceWindow = 1
  MaxPhotos = 3
  MaxTime = 1
SYMMETRY Symmetry
INVARIANTS
  IInv
  OneRowPerContent
  RowsHaveBytes
PROPERTIES
  SweepIsComplete
