----------------------------- MODULE JoinOutput -----------------------------
(***************************************************************************)
(* What a join query promises its caller, with partitions, levels, spill *)
(* files and the table left out: while it runs it emits matching pairs it *)
(* has not emitted before; it completes only once it has emitted every    *)
(* matching pair, which is what HashJoinBuilder's comparison with the     *)
(* reference query checks; it may instead fail with an error; and it does *)
(* not run forever.  SpillLevels is shown to implement this module.       *)
(***************************************************************************)
CONSTANT Pairs   \* the matching pairs: the reference query's result

VARIABLES
  status,   \* "running", "done" or "failed"
  out       \* the pairs emitted so far

vars == <<status, out>>

Init ==
  /\ status = "running"
  /\ out = {}

\* The query emits a batch P of matching pairs, none emitted before.
Emit(P) ==
  /\ status = "running"
  /\ P # {}
  /\ P \subseteq Pairs \ out
  /\ out' = out \cup P
  /\ UNCHANGED status

\* The query completes, having emitted the whole reference result.
Complete ==
  /\ status = "running"
  /\ out = Pairs
  /\ status' = "done"
  /\ UNCHANGED out

\* The query fails with an error and emits nothing more.
Fail ==
  /\ status = "running"
  /\ status' = "failed"
  /\ UNCHANGED out

Next ==
  \/ \E P \in SUBSET Pairs : Emit(P)
  \/ Complete
  \/ Fail

\* A running query eventually completes or fails.
Spec == Init /\ [][Next]_vars /\ WF_vars(Complete \/ Fail)

=============================================================================
