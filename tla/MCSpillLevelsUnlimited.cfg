CONSTANTS
  W = 4
  StartBit = 1
  NumBits = 1
  MaxSpillLevel <- MCNoLevelLimit
  MaxSpillBytes = 0
  b1 = b1
  b2 = b2
  b3 = b3
  b4 = b4
  p1 = p1
  p2 = p2
  k1 = k1
  k2 = k2
  k3 = k3
  k4 = k4
  BuildRows = {b1, b2, b3, b4}
  ProbeRows = {p1, p2}
  Key <- MCKey
  Hash <- MCHash
SPECIFICATION Spec
INVARIANTS TypeOK JoinExact LevelBound
PROPERTIES Termination
CHECK_DEADLOCK FALSE
