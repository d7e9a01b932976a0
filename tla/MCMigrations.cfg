CONSTANTS
  nestova = nestova
  nestorage = nestorage
  operator = operator
  Process = {nestova, nestorage, operator}
  Built <- MCBuilt
  MaxVersion = 3
  NoProcess = NoProcess
SPECIFICATION Spec
INVARIANTS
  IInv
  RacesAreHarmless
  ServedSchemaIsComplete
PROPERTIES
  ImplementsSchema
