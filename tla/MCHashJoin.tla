----------------------------- MODULE MCHashJoin -----------------------------
(* Two build drivers, one fed three rows and one fed two, over two spill  *)
(* partitions: b1 has two rows in q1, so a partition can be spilled while *)
(* another of its rows is still in a batch, and each driver has rows in   *)
(* both partitions, so the leader has peers' rows to reconcile.           *)
EXTENDS HashJoin, TLC

MCOwner == [r \in Rows |-> IF r \in {"r1", "r2", "r3"} THEN "b1" ELSE "b2"]
MCPartOf == [r \in Rows |-> IF r \in {"r1", "r2", "r4"} THEN "q1" ELSE "q2"]
=============================================================================
