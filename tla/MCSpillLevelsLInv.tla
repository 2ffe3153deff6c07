------------------------- MODULE MCSpillLevelsLInv -------------------------
(* The instance of MCSpillLevels for the invariants of SpillLevelsProofs and SpillJoinProofs.   *)
EXTENDS SpillJoinProofs, TLC

CONSTANTS b1, b2, b3, b4, p1, p2, k1, k2, k3, k4

MCKey == (b1 :> k1) @@ (b2 :> k2) @@ (b3 :> k3) @@ (b4 :> k4)
         @@ (p1 :> k1) @@ (p2 :> k3)
MCHash == (k1 :> 5) @@ (k2 :> 5) @@ (k3 :> 13) @@ (k4 :> 7)
MCNoLevelLimit == -1

=============================================================================
