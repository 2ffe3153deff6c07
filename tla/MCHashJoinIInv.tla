---- MODULE MCHashJoinIInv ----
EXTENDS HashJoinProofs, TLC
MCOwner == [r \in Rows |-> IF r \in {"r1", "r2", "r3"} THEN "b1" ELSE "b2"]
MCPartOf == [r \in Rows |-> IF r \in {"r1", "r2", "r4"} THEN "q1" ELSE "q2"]
====
