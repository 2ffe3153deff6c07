CONSTANTS
  Half = 128
  Values <- MCValues
  Children <- MCChildren
  c1 = c1
  c2 = c2
  None = None
SPECIFICATION Spec
INVARIANTS TypeOK CastTotal OverflowOnlyDifference SingleChildMoved
