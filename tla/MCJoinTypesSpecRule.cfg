CONSTANTS
  Keys = {1, 2}
  Null = Null
  MaxRows = 2
SPECIFICATION Spec
INVARIANT SpecNullAwareAntiEmptyOnProbeNull
