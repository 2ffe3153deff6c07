CONSTANTS
  Builders = {"b1", "b2"}
  Probers = {p1, p2}
  Rows = {"r1", "r2", "r3", "r4", "r5"}
  Parts = {"q1", "q2"}
  Owner <- MCOwner
  PartOf <- MCPartOf
  SpillEnabled = TRUE
SPECIFICATION Spec
INVARIANTS SpillInv
CHECK_DEADLOCK FALSE
