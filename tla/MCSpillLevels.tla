--------------------------- MODULE MCSpillLevels ---------------------------
(* A 4-bit hash partitioned one bit at a time from bit 1, so spilled      *)
(* partitions reach levels 0 to 2 before the width stops the recursion,   *)
(* as the 64-bit hash does at level 3 in noSpillLevelLimit.  Keys k1 and   *)
(* k2 collide on every bit; k3 differs from them only in bit 3, so its     *)
(* rows separate from theirs at level 2 only; k4 separates at level 0.     *)
EXTENDS SpillLevels, TLC

CONSTANTS b1, b2, b3, b4, p1, p2, k1, k2, k3, k4

MCKey == (b1 :> k1) @@ (b2 :> k2) @@ (b3 :> k3) @@ (b4 :> k4)
         @@ (p1 :> k1) @@ (p2 :> k3)
MCHash == (k1 :> 5) @@ (k2 :> 5) @@ (k3 :> 13) @@ (k4 :> 7)

\* maxSpillLevel -1: no level limit.
MCNoLevelLimit == -1

=============================================================================
