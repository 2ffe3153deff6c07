---------------------------- MODULE MCSparkCast ----------------------------
(* A TINYINT target (Half = 128), two compiled children, and integral     *)
(* values at and just past both ends of the range, far past them, and in  *)
(* the middle.                                                             *)
EXTENDS SparkCast, TLC

CONSTANTS c1, c2

MCChildren == {c1, c2}

MCValues == {-300, -129, -128, 0, 127, 128, 255, 300}
=============================================================================
