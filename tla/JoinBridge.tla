----------------------------- MODULE JoinBridge -----------------------------
(***************************************************************************)
(* What the hash join bridge promises its two sides, with drivers, row    *)
(* containers and spill files left out: the build side publishes one     *)
(* table at a time while the bridge is building; the probe side releases  *)
(* it; no build row is in two tables; the bridge closes only after every  *)
(* build row has been in a released table; the task may cancel it at any *)
(* time before it closes.  HashJoin is shown to implement this module.    *)
(***************************************************************************)
CONSTANT Rows   \* the build-side rows

VARIABLES
  state,    \* the bridge: "Building", "Published", "Closed" or "Cancelled"
  current,  \* rows of the table currently published
  done      \* rows of the tables the probe side has released

vars == <<state, current, done>>

Init ==
  /\ state = "Building"
  /\ current = {}
  /\ done = {}

\* The build side publishes table T (the first table, or a restored spill
\* partition), which shares no row with the tables released before.
Publish(T) ==
  /\ state = "Building"
  /\ T \cap done = {}
  /\ state' = "Published"
  /\ current' = T
  /\ UNCHANGED done

\* The probe side has finished with the current table and releases it.
\* The bridge closes, which needs every row to have been joined, or goes
\* back to building the next table.
Release ==
  /\ state = "Published"
  /\ done' = done \cup current
  /\ current' = {}
  /\ \/ state' = "Building"
     \/ done' = Rows /\ state' = "Closed"

\* The task cancels the bridge.
Cancel ==
  /\ state \in {"Building", "Published"}
  /\ state' = "Cancelled"
  /\ UNCHANGED <<current, done>>

Next ==
  \/ \E T \in SUBSET Rows : Publish(T)
  \/ Release
  \/ Cancel

\* The build side publishes whenever the bridge waits for a table, and
\* the probe side releases every table it is given; cancellation is an
\* external event.
Spec == Init /\ [][Next]_vars
             /\ WF_vars(\E T \in SUBSET Rows : Publish(T))
             /\ WF_vars(Release)

=============================================================================
