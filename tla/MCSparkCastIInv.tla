---- MODULE MCSparkCastIInv ----
EXTENDS SparkCastProofs, TLC
CONSTANTS c1, c2
MCChildren == {c1, c2}
MCValues == {-300, -129, -128, 0, 127, 128, 255, 300}
====
