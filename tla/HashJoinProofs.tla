--------------------------- MODULE HashJoinProofs ---------------------------
(* Proofs about the hash join build/bridge/probe protocol of HashJoin.     *)
EXTENDS HashJoin, TLAPS

\* The unions over all build drivers stay within rows and partitions.
LEMMA UnionTypes ==
  ASSUME TypeOK
  PROVE  /\ AllMem \subseteq Rows
         /\ SpillUnion \subseteq Parts
  BY DEF TypeOK, AllMem, SpillUnion

\* Every step of the join keeps every variable in its type.
LEMMA TypeStep == TypeOK /\ [Next]_vars => TypeOK'
<1> SUFFICES ASSUME TypeOK, [Next]_vars PROVE TypeOK'
  OBVIOUS
<1> USE OwnerAssumption, PartOfAssumption
<1>1. ASSUME NEW d \in Builders, NEW B \in SUBSET Rows, AddInputBegin(d, B)
      PROVE TypeOK'
  BY <1>1 DEF AddInputBegin, TypeOK, RowsIn
<1>2. ASSUME NEW d \in Builders, AddInputEnd(d) PROVE TypeOK'
  BY <1>2 DEF AddInputEnd, TypeOK
<1>3. ASSUME NEW d \in Builders, Reclaim(d)
      PROVE TypeOK'
  BY <1>3 DEF Reclaim, DataParts, TypeOK, RowsIn
<1>4. ASSUME NEW d \in Builders, NoMoreInput(d) PROVE TypeOK'
  <2>1. bstate' \in [Builders -> BuildStates]
    BY <1>4 DEF NoMoreInput, TypeOK, BuildStates
  <2>2. CASE \A e \in Builders \ {d} : bstate[e] = "WaitForPeers"
    <3>1. SpillAll(SpillUnion) /\ leader' = TRUE
      BY <1>4, <2>2 DEF NoMoreInput
    <3>2. QED
      BY <3>1, <2>1, <1>4, UnionTypes DEF NoMoreInput, SpillAll, TypeOK, RowsIn
  <2>3. CASE ~\A e \in Builders \ {d} : bstate[e] = "WaitForPeers"
    BY <2>1, <2>3, <1>4 DEF NoMoreInput, TypeOK
  <2>4. QED
    BY <2>2, <2>3
<1>5. ASSUME NEW d \in Builders, BuildObserveAbort(d) PROVE TypeOK'
  BY <1>5 DEF BuildObserveAbort, TypeOK, BuildStates
<1>6. CASE LeaderReclaim
  BY <1>6, UnionTypes DEF LeaderReclaim, SpillAll, DataParts, TypeOK, RowsIn
<1>7. CASE BuildTable
  BY <1>7, UnionTypes DEF BuildTable, TypeOK, BuildStates, BridgeStates
<1>8. ASSUME NEW q \in Parts, RestoreSpill(q) PROVE TypeOK'
  BY <1>8 DEF RestoreSpill, TypeOK, RowsIn, BuildStates, BridgeStates
<1>9. ASSUME NEW p \in Probers, GetHashTable(p) PROVE TypeOK'
  BY <1>9 DEF GetHashTable, TypeOK, ProbeStates
<1>10. ASSUME NEW p \in Probers, ProbeFinish(p) PROVE TypeOK'
  BY <1>10 DEF ProbeFinish, TypeOK, ProbeStates, BridgeStates
<1>11. ASSUME NEW p \in Probers, ProbeObserveAbort(p) PROVE TypeOK'
  BY <1>11 DEF ProbeObserveAbort, TypeOK, ProbeStates
<1>12. CASE Abort
  BY <1>12 DEF Abort, TypeOK, BridgeStates
<1>13. CASE UNCHANGED vars
  BY <1>13 DEF vars, TypeOK
<1>14. QED
  BY <1>1, <1>2, <1>3, <1>4, <1>5, <1>6, <1>7, <1>8, <1>9, <1>10, <1>11,
     <1>12, <1>13 DEF Next

\* The initial state is well typed.
LEMMA InitTypeOK == Init => TypeOK
<1> SUFFICES ASSUME Init PROVE TypeOK
  OBVIOUS
<1>1. pending \in [Builders -> SUBSET Rows]
  BY DEF Init
<1>2. /\ bstate \in [Builders -> BuildStates]
      /\ pstate \in [Probers -> ProbeStates]
      /\ bridge \in BridgeStates
  BY DEF Init, BuildStates, ProbeStates, BridgeStates
<1>3. QED
  BY <1>1, <1>2 DEF Init, TypeOK

\* The join keeps all its variables in their types in every reachable state.
THEOREM TypeCorrect == Spec => []TypeOK
BY InitTypeOK, TypeStep, PTL DEF Spec

-----------------------------------------------------------------------------
(* SpillConsistent.  It is not inductive alone: the leader's SpillAll     *)
(* and LeaderReclaim touch every driver's container, so the proof needs   *)
(* that no driver other than a running one has a batch in flight and     *)
(* that while a leader exists every driver waits in the barrier.          *)

\* Only a running build driver can be in the middle of addInput.
BatchOnlyWhenRunning ==
  \A d \in Builders : toMem[d] \cup toSpill[d] # {} => bstate[d] = "Running"

\* While the leader is in finishHashBuild, every build driver is in the
\* no-more-input barrier.
LeaderWaits ==
  leader => \A d \in Builders : bstate[d] = "WaitForPeers"

SpillInv == TypeOK /\ SpillConsistent /\ BatchOnlyWhenRunning /\ LeaderWaits


\* Initially nothing is spilled, no batch is in flight and no leader runs.
LEMMA InitSpillInv == Init => SpillInv
  BY InitTypeOK DEF Init, SpillInv, SpillConsistent, BatchOnlyWhenRunning,
                    LeaderWaits, RowsIn

\* Every step preserves SpillInv.
LEMMA SpillStep == SpillInv /\ [Next]_vars => SpillInv'
<1> SUFFICES ASSUME SpillInv, [Next]_vars
             PROVE  SpillConsistent' /\ BatchOnlyWhenRunning' /\ LeaderWaits'
  BY TypeStep DEF SpillInv
<1> USE OwnerAssumption, PartOfAssumption
<1>1. ASSUME NEW d \in Builders, NEW B \in SUBSET Rows, AddInputBegin(d, B)
      PROVE  SpillConsistent' /\ BatchOnlyWhenRunning' /\ LeaderWaits'
  BY <1>1 DEF AddInputBegin, SpillInv, TypeOK, RowsIn, SpillConsistent,
              BatchOnlyWhenRunning, LeaderWaits
<1>2. ASSUME NEW d \in Builders, AddInputEnd(d)
      PROVE  SpillConsistent' /\ BatchOnlyWhenRunning' /\ LeaderWaits'
  BY <1>2 DEF AddInputEnd, SpillInv, TypeOK, RowsIn, SpillConsistent,
              BatchOnlyWhenRunning, LeaderWaits
<1>3. ASSUME NEW d \in Builders, Reclaim(d)
      PROVE  SpillConsistent' /\ BatchOnlyWhenRunning' /\ LeaderWaits'
  BY <1>3 DEF Reclaim, Reclaimable, DataParts, SpillInv, TypeOK, RowsIn, SpillConsistent,
              BatchOnlyWhenRunning, LeaderWaits
<1>4. ASSUME NEW d \in Builders, NoMoreInput(d)
      PROVE  SpillConsistent' /\ BatchOnlyWhenRunning' /\ LeaderWaits'
  <2>1. BatchOnlyWhenRunning'
    BY <1>4 DEF NoMoreInput, SpillInv, TypeOK, BatchOnlyWhenRunning
  <2>2. CASE \A e \in Builders \ {d} : bstate[e] = "WaitForPeers"
    <3>1. SpillAll(SpillUnion) /\ leader' = TRUE
      BY <1>4, <2>2 DEF NoMoreInput
    <3>2. \A e \in Builders : toMem[e] = {}
      BY <1>4, <2>2 DEF NoMoreInput, SpillInv, BatchOnlyWhenRunning, TypeOK
    <3>3. SpillConsistent'
      BY <3>1, <3>2, <1>4 DEF NoMoreInput, SpillAll, SpillInv, TypeOK, RowsIn,
                              SpillConsistent
    <3>4. LeaderWaits'
      BY <1>4, <2>2 DEF NoMoreInput, SpillInv, TypeOK, LeaderWaits
    <3>5. QED
      BY <2>1, <3>3, <3>4
  <2>3. CASE ~\A e \in Builders \ {d} : bstate[e] = "WaitForPeers"
    <3>1. ~leader
      BY <2>3 DEF SpillInv, LeaderWaits
    <3>2. QED
      BY <2>1, <2>3, <3>1, <1>4 DEF NoMoreInput, SpillInv, TypeOK,
                                     SpillConsistent, LeaderWaits
  <2>4. QED
    BY <2>2, <2>3
<1>5. ASSUME NEW d \in Builders, BuildObserveAbort(d)
      PROVE  SpillConsistent' /\ BatchOnlyWhenRunning' /\ LeaderWaits'
  BY <1>5 DEF BuildObserveAbort, SpillInv, TypeOK, SpillConsistent, RowsIn,
              BatchOnlyWhenRunning, LeaderWaits
<1>6. CASE LeaderReclaim
  <2>1. \A e \in Builders : toMem[e] = {}
    BY <1>6 DEF LeaderReclaim, SpillInv, LeaderWaits, BatchOnlyWhenRunning,
                TypeOK
  <2>2. QED
    BY <2>1, <1>6 DEF LeaderReclaim, SpillAll, DataParts, SpillInv, TypeOK, RowsIn,
                      SpillConsistent, BatchOnlyWhenRunning, LeaderWaits
<1>7. CASE BuildTable
  <2>1. \A e \in Builders : toMem[e] \cup toSpill[e] = {}
    BY <1>7 DEF BuildTable, SpillInv, LeaderWaits, BatchOnlyWhenRunning, TypeOK
  <2>2. QED
    BY <2>1, <1>7 DEF BuildTable, SpillInv, TypeOK, RowsIn, SpillConsistent,
                      BatchOnlyWhenRunning, LeaderWaits
<1>8. ASSUME NEW q \in Parts, RestoreSpill(q)
      PROVE  SpillConsistent' /\ BatchOnlyWhenRunning' /\ LeaderWaits'
  <2>1. \A e \in Builders : toMem[e] \cup toSpill[e] = {}
    BY <1>8 DEF RestoreSpill, SpillInv, BatchOnlyWhenRunning, TypeOK
  <2>2. ~leader
    BY <1>8, BuildersAssumption DEF RestoreSpill, SpillInv, LeaderWaits
  <2>3. QED
    BY <2>1, <2>2, <1>8 DEF RestoreSpill, SpillInv, TypeOK, SpillConsistent,
                            BatchOnlyWhenRunning, LeaderWaits
<1>9. ASSUME NEW p \in Probers,
             GetHashTable(p) \/ ProbeFinish(p) \/ ProbeObserveAbort(p)
      PROVE  SpillConsistent' /\ BatchOnlyWhenRunning' /\ LeaderWaits'
  <2>1. UNCHANGED <<bstate, toMem, toSpill, mem, spilled, leader>>
    BY <1>9 DEF GetHashTable, ProbeFinish, ProbeObserveAbort
  <2>2. QED
    BY <2>1 DEF SpillInv, SpillConsistent, RowsIn, BatchOnlyWhenRunning,
                LeaderWaits
<1>10. CASE Abort
  BY <1>10 DEF Abort, SpillInv, SpillConsistent, RowsIn, BatchOnlyWhenRunning,
               LeaderWaits
<1>11. CASE UNCHANGED vars
  BY <1>11 DEF vars, SpillInv, SpillConsistent, RowsIn, BatchOnlyWhenRunning,
               LeaderWaits
<1>12. QED
  BY <1>1, <1>2, <1>3, <1>4, <1>5, <1>6, <1>7, <1>8, <1>9, <1>10, <1>11
  DEF Next

\* No build driver ever holds, or is about to copy into its container, a row
\* of a partition it has already spilled (SpillConsistent), for every
\* number of drivers, rows and partitions.
THEOREM SpillConsistency == Spec => []SpillConsistent
<1>1. SpillInv => SpillConsistent
  BY DEF SpillInv
<1>2. QED
  BY InitSpillInv, <1>1, SpillStep, PTL DEF Spec

\* Besides SpillConsistent, in every state only a running build driver
\* has a batch in flight (addInput is not interleaved with the barrier)
\* and, while the last driver of the barrier runs finishHashBuild, every
\* build driver waits in it: the leader's SpillAll and reclaim never
\* touch a driver that is still adding input.
THEOREM SpillInvariant == Spec => []SpillInv
  BY InitSpillInv, SpillStep, PTL DEF Spec

=============================================================================
