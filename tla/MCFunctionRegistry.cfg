CONSTANTS
  None = None
SPECIFICATION Spec
INVARIANTS TypeOK PriorityMatchesTests CoercionMatchesTests
PROPERTIES OverwriteRespected
