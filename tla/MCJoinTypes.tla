----------------------------- MODULE MCJoinTypes -----------------------------
(* Two key values and NULL, up to two rows per side: every combination of *)
(* duplicate keys, NULL keys on either side, empty sides and every filter *)
(* outcome table.                                                         *)
EXTENDS JoinTypes, TLC
=============================================================================
