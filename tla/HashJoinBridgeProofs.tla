------------------------ MODULE HashJoinBridgeProofs ------------------------
(* The hash join implements the safety part of the bridge's promise       *)
(* (JoinBridge), and keeps the published table consistent with the spill *)
(* files, for every number of drivers, rows and partitions.  Both rest on *)
(* an invariant that follows each build row from its driver to the spill *)
(* files and the published tables.                                         *)
EXTENDS HashJoinProofs

\* The rows fed to build driver d.
Own(d) == {r \in Rows : Owner[r] = d}

\* A driver holds only rows of its own input.
Owned == \A d \in Builders : HeldBy(d) \subseteq Own(d)

\* The spill half of a batch is in partitions the driver has spilled.
SpillRouted == \A d \in Builders : RowsIn(toSpill[d], spilled[d]) = toSpill[d]

\* A row on disk is in a partition its driver has spilled.
DiskSpilled == \A r \in disk : PartOf[r] \in spilled[Owner[r]]

\* A driver that stopped taking input without an abort has read it all.
InputDone ==
  ~aborted => \A d \in Builders : bstate[d] # "Running" => pending[d] = {}

\* Until the table is built no table exists, nothing has been served and,
\* unless aborted, the bridge is building.
BuildPhase ==
  (leader \/ \E d \in Builders : bstate[d] \in {"Running", "WaitForPeers"}) =>
    /\ served = {} /\ table = {}
    /\ ~aborted => bridge = "Building"

\* Only an abort cancels the bridge.
CancelledIffAborted == bridge = "Cancelled" <=> aborted

\* A bridge waiting for a table holds none.
IdleTableEmpty == bridge = "Building" => table = {}

\* A row is not both on disk and served.
DiskUnserved == disk \cap served = {}

\* The probes run or wait for peers only on a published table.
ProbingPublished ==
  (~aborted /\ \E p \in Probers : pstate[p] \in {"Running", "WaitForPeers"})
    => bridge = "Published"

\* The current table has been served.
TableServed == table \subseteq served

\* The build of the first table is over and the task is not aborted.
BuildDone ==
  ~aborted /\ ~leader /\ \A d \in Builders : bstate[d] \in {"WaitForProbe", "Finished"}

\* A published table means the first build is over.
PublishedAfterBuild == (~aborted /\ bridge = "Published") => BuildDone

\* After the first build every row has been served or waits on disk in a
\* partition still to restore, and the current table has none of those.
RestoreComplete ==
  BuildDone =>
    /\ Rows \subseteq served \cup disk
    /\ disk = RowsIn(disk, toRestore)
    /\ RowsIn(table, toRestore) = {}

\* Without an abort, no row is lost before the first build.
NothingLost ==
  ~aborted => Rows \subseteq (UNION {HeldBy(d) : d \in Builders}) \cup disk \cup served

\* The leader's containers hold no row of a partition any driver spilled.
Reconciled == leader => RowsIn(AllMem, SpillUnion) = {}


\* The conjuncts of BridgeInv beyond SpillInv.
RestInv ==
  /\ Owned /\ SpillRouted /\ DiskSpilled /\ InputDone
  /\ BuildPhase /\ CancelledIffAborted /\ IdleTableEmpty /\ DiskUnserved
  /\ ProbingPublished /\ TableServed /\ PublishedAfterBuild
  /\ RestoreComplete /\ NothingLost /\ Reconciled

BridgeInv == SpillInv /\ RestInv


\* A row is somewhere: held by a driver, on disk or served.
Placed(r) == (\E e \in Builders : r \in HeldBy(e)) \/ r \in disk \/ r \in served

\* NothingLost is kept by a step that keeps the abort flag and leaves every
\* placed row placed.
LEMMA NothingLostStep ==
  ASSUME NothingLost, aborted' = aborted,
         \A r \in Rows : Placed(r) => Placed(r)'
  PROVE  NothingLost'
  BY DEF NothingLost, Placed

\* No container row is on disk: a row in a container is in a partition its
\* driver has not spilled, and a row on disk is in one it has.
LEMMA MemOffDisk ==
  ASSUME TypeOK, Owned, DiskSpilled, SpillConsistent
  PROVE  AllMem \cap disk = {}
  BY OwnerAssumption DEF TypeOK, Owned, DiskSpilled, SpillConsistent, HeldBy, Own,
                         RowsIn, AllMem

\* Every step keeps BridgeInv.
LEMMA BridgeStep == BridgeInv /\ [Next]_vars => BridgeInv'
<1> SUFFICES ASSUME SpillInv, RestInv, [Next]_vars PROVE RestInv'
  BY SpillStep DEF BridgeInv, RestInv
<1> USE OwnerAssumption, PartOfAssumption, BuildersAssumption
<1>1. ASSUME NEW d \in Builders, NEW B \in SUBSET Rows, AddInputBegin(d, B)
      PROVE RestInv'
  <2>1. NothingLost'
    <3>1. \A r \in Rows : Placed(r) => Placed(r)'
      BY <1>1 DEF AddInputBegin, RestInv, SpillInv, TypeOK, Placed, HeldBy, Own, RowsIn, AllMem, SpillUnion, DataParts
    <3>2. QED
      BY <3>1, <1>1, NothingLostStep DEF AddInputBegin, RestInv
  <2>2. Owned' /\ SpillRouted' /\ DiskSpilled' /\ InputDone' /\ BuildPhase'
        /\ CancelledIffAborted' /\ IdleTableEmpty' /\ DiskUnserved'
        /\ ProbingPublished' /\ TableServed' /\ PublishedAfterBuild'
        /\ RestoreComplete' /\ Reconciled'
    BY <1>1 DEF AddInputBegin, RestInv, SpillInv, TypeOK, Owned, SpillRouted,
       DiskSpilled, InputDone, BuildPhase, CancelledIffAborted,
       IdleTableEmpty, DiskUnserved, ProbingPublished, TableServed,
       PublishedAfterBuild, RestoreComplete, Reconciled, BuildDone, HeldBy,
       Own, RowsIn, AllMem, SpillUnion, DataParts
  <2>3. QED
    BY <2>1, <2>2 DEF RestInv
<1>2. ASSUME NEW d \in Builders, AddInputEnd(d)
      PROVE RestInv'
  <2>1. NothingLost'
    <3>1. \A r \in Rows : Placed(r) => Placed(r)'
      BY <1>2 DEF AddInputEnd, RestInv, SpillInv, TypeOK, Placed, HeldBy, Own, RowsIn, AllMem, SpillUnion, DataParts
    <3>2. QED
      BY <3>1, <1>2, NothingLostStep DEF AddInputEnd, RestInv
  <2>2. Owned' /\ SpillRouted' /\ DiskSpilled' /\ InputDone' /\ BuildPhase'
        /\ CancelledIffAborted' /\ IdleTableEmpty' /\ DiskUnserved'
        /\ ProbingPublished' /\ TableServed' /\ PublishedAfterBuild'
        /\ RestoreComplete' /\ Reconciled'
    BY <1>2 DEF AddInputEnd, RestInv, SpillInv, TypeOK, Owned, SpillRouted,
       DiskSpilled, InputDone, BuildPhase, CancelledIffAborted,
       IdleTableEmpty, DiskUnserved, ProbingPublished, TableServed,
       PublishedAfterBuild, RestoreComplete, Reconciled,
       BatchOnlyWhenRunning, BuildDone, BuildPhase, LeaderWaits, Owned,
       SpillRouted, HeldBy, Own, RowsIn, AllMem, SpillUnion, DataParts
  <2>3. QED
    BY <2>1, <2>2 DEF RestInv
<1>3. ASSUME NEW d \in Builders, Reclaim(d)
      PROVE RestInv'
  <2>1. NothingLost'
    <3>1. \A r \in Rows : Placed(r) => Placed(r)'
      BY <1>3 DEF Reclaim, Reclaimable, RestInv, SpillInv, TypeOK, Placed, HeldBy, Own, RowsIn, AllMem, SpillUnion, DataParts
    <3>2. QED
      BY <3>1, <1>3, NothingLostStep DEF Reclaim, Reclaimable, RestInv
  <2>2. Owned' /\ SpillRouted' /\ DiskSpilled' /\ InputDone' /\ BuildPhase'
        /\ CancelledIffAborted' /\ IdleTableEmpty' /\ DiskUnserved'
        /\ ProbingPublished' /\ TableServed' /\ PublishedAfterBuild'
        /\ RestoreComplete' /\ Reconciled'
    BY <1>3 DEF Reclaim, Reclaimable, RestInv, SpillInv, TypeOK, Owned,
       SpillRouted, DiskSpilled, InputDone, BuildPhase, CancelledIffAborted,
       IdleTableEmpty, DiskUnserved, ProbingPublished, TableServed,
       PublishedAfterBuild, RestoreComplete, Reconciled, BuildDone,
       BuildPhase, LeaderWaits, Owned, HeldBy, Own, RowsIn, AllMem,
       SpillUnion, DataParts
  <2>3. QED
    BY <2>1, <2>2 DEF RestInv
<1>4. ASSUME NEW d \in Builders, NoMoreInput(d)
      PROVE RestInv'
  <2>1. NothingLost'
    <3>1. \A r \in Rows : Placed(r) => Placed(r)'
      BY <1>4 DEF NoMoreInput, SpillAll, RestInv, SpillInv, TypeOK, Placed, HeldBy, Own, RowsIn, AllMem, SpillUnion, DataParts
    <3>2. QED
      BY <3>1, <1>4, NothingLostStep DEF NoMoreInput, SpillAll, RestInv
  <2>2. Reconciled'
    <3>1. CASE \A e \in Builders \ {d} : bstate[e] = "WaitForPeers"
      <4>1. SpillUnion' = SpillUnion
        BY <1>4, <3>1 DEF NoMoreInput, SpillAll, SpillUnion, TypeOK, RestInv, SpillInv
      <4>2. \A e \in Builders : RowsIn(mem'[e], SpillUnion) = {}
        BY <1>4, <3>1 DEF NoMoreInput, SpillAll, TypeOK, RestInv, SpillInv, RowsIn
      <4>3. QED
        BY <4>1, <4>2 DEF Reconciled, RowsIn, AllMem
    <3>2. CASE ~\A e \in Builders \ {d} : bstate[e] = "WaitForPeers"
      BY <1>4, <3>2 DEF NoMoreInput, RestInv, SpillInv, Reconciled, LeaderWaits
    <3>3. QED
      BY <3>1, <3>2
  <2>3. Owned' /\ SpillRouted' /\ DiskSpilled' /\ InputDone' /\ BuildPhase'
        /\ CancelledIffAborted' /\ IdleTableEmpty' /\ DiskUnserved'
        /\ ProbingPublished' /\ TableServed' /\ PublishedAfterBuild'
        /\ RestoreComplete'
    BY <1>4 DEF NoMoreInput, SpillAll, RestInv, SpillInv, TypeOK, Owned,
       SpillRouted, DiskSpilled, InputDone, BuildPhase, CancelledIffAborted,
       IdleTableEmpty, DiskUnserved, ProbingPublished, TableServed,
       PublishedAfterBuild, RestoreComplete, BuildDone, BuildPhase, HeldBy,
       Own, RowsIn, AllMem, SpillUnion, DataParts
  <2>4. QED
    BY <2>1, <2>2, <2>3 DEF RestInv
<1>5. ASSUME NEW d \in Builders, BuildObserveAbort(d)
      PROVE RestInv'
  <2>1. Owned' /\ SpillRouted' /\ DiskSpilled' /\ InputDone' /\ BuildPhase'
        /\ CancelledIffAborted' /\ IdleTableEmpty' /\ DiskUnserved'
        /\ ProbingPublished' /\ TableServed' /\ PublishedAfterBuild'
        /\ RestoreComplete' /\ NothingLost' /\ Reconciled'
    BY <1>5 DEF BuildObserveAbort, RestInv, SpillInv, TypeOK, Owned,
       SpillRouted, DiskSpilled, InputDone, BuildPhase, CancelledIffAborted,
       IdleTableEmpty, DiskUnserved, ProbingPublished, TableServed,
       PublishedAfterBuild, RestoreComplete, NothingLost, Reconciled,
       BuildDone, HeldBy, Own, RowsIn, AllMem, SpillUnion, DataParts
  <2>2. QED
    BY <2>1 DEF RestInv
<1>6. CASE LeaderReclaim
  <2>1. NothingLost'
    <3>1. \A r \in Rows : Placed(r) => Placed(r)'
      BY <1>6 DEF LeaderReclaim, SpillAll, RestInv, SpillInv, TypeOK, Placed, HeldBy, Own, RowsIn, AllMem, SpillUnion, DataParts
    <3>2. QED
      BY <3>1, <1>6, NothingLostStep DEF LeaderReclaim, SpillAll, RestInv
  <2>2. Owned' /\ SpillRouted' /\ DiskSpilled' /\ InputDone' /\ BuildPhase'
        /\ CancelledIffAborted' /\ IdleTableEmpty' /\ DiskUnserved'
        /\ ProbingPublished' /\ TableServed' /\ PublishedAfterBuild'
        /\ RestoreComplete' /\ Reconciled'
    BY <1>6 DEF LeaderReclaim, SpillAll, RestInv, SpillInv, TypeOK, Owned,
       SpillRouted, DiskSpilled, InputDone, BuildPhase, CancelledIffAborted,
       IdleTableEmpty, DiskUnserved, ProbingPublished, TableServed,
       PublishedAfterBuild, RestoreComplete, Reconciled, BuildDone,
       BuildPhase, HeldBy, Own, RowsIn, AllMem, SpillUnion, DataParts
  <2>3. QED
    BY <2>1, <2>2 DEF RestInv
<1>7. CASE BuildTable
  <2>1. DiskUnserved'
    <3>1. AllMem \cap disk = {}
      BY MemOffDisk DEF RestInv, SpillInv
    <3>2. QED
      BY <3>1, <1>7 DEF BuildTable, RestInv, SpillInv, TypeOK, DiskUnserved
  <2>2. RestoreComplete'
    <3>1. \A e \in Builders : HeldBy(e) = mem[e]
      BY <1>7 DEF BuildTable, RestInv, SpillInv, TypeOK, InputDone, LeaderWaits,
                  BatchOnlyWhenRunning, HeldBy
    <3>2. Rows \subseteq served' \cup disk'
      BY <1>7, <3>1 DEF BuildTable, RestInv, NothingLost, AllMem
    <3>3. disk = RowsIn(disk, SpillUnion)
      BY DEF RestInv, SpillInv, TypeOK, DiskSpilled, RowsIn, SpillUnion
    <3>4. RowsIn(AllMem, SpillUnion) = {}
      BY <1>7 DEF BuildTable, RestInv, Reconciled
    <3>5. QED
      BY <1>7, <3>2, <3>3, <3>4 DEF BuildTable, RestoreComplete
  <2>3. NothingLost'
    <3>1. \A r \in Rows : Placed(r) => Placed(r)'
      BY <1>7 DEF BuildTable, RestInv, SpillInv, TypeOK, Placed, HeldBy, Own, RowsIn, AllMem, SpillUnion, DataParts
    <3>2. QED
      BY <3>1, <1>7, NothingLostStep DEF BuildTable, RestInv
  <2>4. Owned' /\ SpillRouted' /\ DiskSpilled' /\ InputDone' /\ BuildPhase'
        /\ CancelledIffAborted' /\ IdleTableEmpty' /\ ProbingPublished'
        /\ TableServed' /\ PublishedAfterBuild' /\ Reconciled'
    BY <1>7 DEF BuildTable, RestInv, SpillInv, TypeOK, Owned, SpillRouted,
       DiskSpilled, InputDone, BuildPhase, CancelledIffAborted,
       IdleTableEmpty, ProbingPublished, TableServed, PublishedAfterBuild,
       Reconciled, BuildDone, LeaderWaits, HeldBy, Own, RowsIn, AllMem,
       SpillUnion, DataParts
  <2>5. QED
    BY <2>1, <2>2, <2>3, <2>4 DEF RestInv
<1>8. ASSUME NEW q \in Parts, RestoreSpill(q)
      PROVE RestInv'
  <2>1. Owned' /\ SpillRouted' /\ DiskSpilled' /\ InputDone' /\ BuildPhase'
        /\ CancelledIffAborted' /\ IdleTableEmpty' /\ DiskUnserved'
        /\ ProbingPublished' /\ TableServed' /\ PublishedAfterBuild'
        /\ RestoreComplete' /\ NothingLost' /\ Reconciled'
    BY <1>8 DEF RestoreSpill, RestInv, SpillInv, TypeOK, Owned, SpillRouted,
       DiskSpilled, InputDone, BuildPhase, CancelledIffAborted,
       IdleTableEmpty, DiskUnserved, ProbingPublished, TableServed,
       PublishedAfterBuild, RestoreComplete, NothingLost, Reconciled,
       BuildDone, LeaderWaits, HeldBy, Own, RowsIn, AllMem, SpillUnion,
       DataParts
  <2>2. QED
    BY <2>1 DEF RestInv
<1>9. ASSUME NEW p \in Probers, GetHashTable(p)
      PROVE RestInv'
  <2>1. Owned' /\ SpillRouted' /\ DiskSpilled' /\ InputDone' /\ BuildPhase'
        /\ CancelledIffAborted' /\ IdleTableEmpty' /\ DiskUnserved'
        /\ ProbingPublished' /\ TableServed' /\ PublishedAfterBuild'
        /\ RestoreComplete' /\ NothingLost' /\ Reconciled'
    BY <1>9 DEF GetHashTable, RestInv, SpillInv, TypeOK, Owned, SpillRouted,
       DiskSpilled, InputDone, BuildPhase, CancelledIffAborted,
       IdleTableEmpty, DiskUnserved, ProbingPublished, TableServed,
       PublishedAfterBuild, RestoreComplete, NothingLost, Reconciled,
       BuildDone, HeldBy, Own, RowsIn, AllMem, SpillUnion, DataParts
  <2>2. QED
    BY <2>1 DEF RestInv
<1>10. ASSUME NEW p \in Probers, ProbeFinish(p)
      PROVE RestInv'
  <2>1. Owned' /\ SpillRouted' /\ DiskSpilled' /\ InputDone' /\ BuildPhase'
        /\ CancelledIffAborted' /\ IdleTableEmpty' /\ DiskUnserved'
        /\ ProbingPublished' /\ TableServed' /\ PublishedAfterBuild'
        /\ RestoreComplete' /\ NothingLost' /\ Reconciled'
    BY <1>10 DEF ProbeFinish, RestInv, SpillInv, TypeOK, Owned, SpillRouted,
       DiskSpilled, InputDone, BuildPhase, CancelledIffAborted,
       IdleTableEmpty, DiskUnserved, ProbingPublished, TableServed,
       PublishedAfterBuild, RestoreComplete, NothingLost, Reconciled,
       BuildDone, ProbingPublished, HeldBy, Own, RowsIn, AllMem, SpillUnion,
       DataParts
  <2>2. QED
    BY <2>1 DEF RestInv
<1>11. ASSUME NEW p \in Probers, ProbeObserveAbort(p)
      PROVE RestInv'
  <2>1. Owned' /\ SpillRouted' /\ DiskSpilled' /\ InputDone' /\ BuildPhase'
        /\ CancelledIffAborted' /\ IdleTableEmpty' /\ DiskUnserved'
        /\ ProbingPublished' /\ TableServed' /\ PublishedAfterBuild'
        /\ RestoreComplete' /\ NothingLost' /\ Reconciled'
    BY <1>11 DEF ProbeObserveAbort, RestInv, SpillInv, TypeOK, Owned,
       SpillRouted, DiskSpilled, InputDone, BuildPhase, CancelledIffAborted,
       IdleTableEmpty, DiskUnserved, ProbingPublished, TableServed,
       PublishedAfterBuild, RestoreComplete, NothingLost, Reconciled,
       BuildDone, HeldBy, Own, RowsIn, AllMem, SpillUnion, DataParts
  <2>2. QED
    BY <2>1 DEF RestInv
<1>12. CASE Abort
  <2>1. Owned' /\ SpillRouted' /\ DiskSpilled' /\ InputDone' /\ BuildPhase'
        /\ CancelledIffAborted' /\ IdleTableEmpty' /\ DiskUnserved'
        /\ ProbingPublished' /\ TableServed' /\ PublishedAfterBuild'
        /\ RestoreComplete' /\ NothingLost' /\ Reconciled'
    BY <1>12 DEF Abort, RestInv, SpillInv, TypeOK, Owned, SpillRouted,
       DiskSpilled, InputDone, BuildPhase, CancelledIffAborted,
       IdleTableEmpty, DiskUnserved, ProbingPublished, TableServed,
       PublishedAfterBuild, RestoreComplete, NothingLost, Reconciled,
       BuildDone, HeldBy, Own, RowsIn, AllMem, SpillUnion, DataParts
  <2>2. QED
    BY <2>1 DEF RestInv
<1>13. CASE UNCHANGED vars
  <2>1. Owned' /\ SpillRouted' /\ DiskSpilled' /\ InputDone' /\ BuildPhase'
        /\ CancelledIffAborted' /\ IdleTableEmpty' /\ DiskUnserved'
        /\ ProbingPublished' /\ TableServed' /\ PublishedAfterBuild'
        /\ RestoreComplete' /\ NothingLost' /\ Reconciled'
    BY <1>13 DEF vars, RestInv, SpillInv, TypeOK, Owned, SpillRouted,
       DiskSpilled, InputDone, BuildPhase, CancelledIffAborted,
       IdleTableEmpty, DiskUnserved, ProbingPublished, TableServed,
       PublishedAfterBuild, RestoreComplete, NothingLost, Reconciled,
       BuildDone, HeldBy, Own, RowsIn, AllMem, SpillUnion, DataParts
  <2>2. QED
    BY <2>1 DEF RestInv
<1>14. QED
  BY <1>1, <1>2, <1>3, <1>4, <1>5, <1>6, <1>7, <1>8, <1>9, <1>10, <1>11, <1>12, <1>13 DEF Next

\* The initial state satisfies BridgeInv.
LEMMA InitBridgeInv == Init => BridgeInv
<1> SUFFICES ASSUME Init PROVE BridgeInv
  OBVIOUS
<1>1. SpillInv
  BY InitTypeOK DEF Init, SpillInv, SpillConsistent, BatchOnlyWhenRunning,
                    LeaderWaits, RowsIn
<1>2. NothingLost
  BY OwnerAssumption DEF Init, NothingLost, HeldBy
<1>3. RestInv
  BY <1>2, OwnerAssumption, BuildersAssumption
  DEF Init, RestInv, Owned, SpillRouted, DiskSpilled, InputDone, BuildPhase,
      CancelledIffAborted, IdleTableEmpty, DiskUnserved, ProbingPublished,
      TableServed, PublishedAfterBuild, RestoreComplete, Reconciled, BuildDone,
      HeldBy, Own, RowsIn, AllMem
<1>4. QED
  BY <1>1, <1>3 DEF BridgeInv

\* BridgeInv holds in every state of a behaviour: besides SpillInv, every
\* row is held somewhere, the spilled partitions on disk are exactly the
\* partitions some driver spilled, the bridge state follows the build and
\* probe phases, and a published table holds the restored partition and
\* no partition still waiting on disk, whatever the order in which the
\* build drivers, the leader's reconciliation, the probe drivers and the
\* restores interleave.
THEOREM BridgeInvariance == Spec => []BridgeInv
  BY InitBridgeInv, BridgeStep, PTL DEF Spec

\* While a table is in use after the build, it holds no row of a partition
\* still to restore and every spilled row waits in such a partition: the
\* leader's reconciliation of the peers' spilled partitions and the
\* restores keep the table and the spill files apart (TableConsistent),
\* for every number of drivers, rows and partitions.
THEOREM TableConsistency == Spec => []TableConsistent
<1>1. BridgeInv => TableConsistent
  BY DEF BridgeInv, RestInv, RestoreComplete, BuildDone, TableConsistent
<1>2. QED
  BY <1>1, BridgeInvariance, PTL

\* Each step of the join is a step of the bridge's promise, or leaves the
\* bridge, its current table and the released rows alone.
LEMMA RefinementStep ==
  BridgeInv /\ [Next]_vars => [Bridge!Next]_Bridge!vars
<1> SUFFICES ASSUME BridgeInv, [Next]_vars PROVE [Bridge!Next]_Bridge!vars
  OBVIOUS
<1> USE DEF BridgeInv, RestInv, SpillInv
<1>1. CASE UNCHANGED <<bridge, table, served>>
  BY <1>1 DEF Bridge!vars
<1>2. CASE BuildTable
  <2>1. bridge = "Building" /\ served = {} /\ table = {}
    BY <1>2 DEF BuildTable, BuildPhase
  <2>2. AllMem \in SUBSET Rows
    BY UnionTypes
  <2>3. Bridge!Publish(AllMem)
    BY <1>2, <2>1 DEF BuildTable, Bridge!Publish
  <2>4. QED
    BY <2>2, <2>3 DEF Bridge!Next
<1>3. ASSUME NEW q \in Parts, RestoreSpill(q) PROVE [Bridge!Next]_Bridge!vars
  <2>1. table = {} /\ disk \cap served = {}
    BY <1>3 DEF RestoreSpill, IdleTableEmpty, DiskUnserved
  <2>2. RowsIn(disk, {q}) \in SUBSET Rows
    BY DEF TypeOK, RowsIn
  <2>3. Bridge!Publish(RowsIn(disk, {q}))
    BY <1>3, <2>1 DEF RestoreSpill, Bridge!Publish, RowsIn
  <2>4. QED
    BY <2>2, <2>3 DEF Bridge!Next
<1>4. ASSUME NEW p \in Probers, ProbeFinish(p) PROVE [Bridge!Next]_Bridge!vars
  <2>1. CASE \A o \in Probers \ {p} : pstate[o] = "WaitForPeers"
    <3>1. bridge = "Published" /\ table \subseteq served
      BY <1>4 DEF ProbeFinish, ProbingPublished, TableServed
    <3>2. toRestore = {} => served = Rows
      BY <1>4, <3>1 DEF ProbeFinish, PublishedAfterBuild, RestoreComplete,
                        TypeOK, RowsIn
    <3>3. Bridge!Release
      BY <1>4, <2>1, <3>1, <3>2 DEF ProbeFinish, Bridge!Release
    <3>4. QED
      BY <3>3 DEF Bridge!Next
  <2>2. CASE ~\A o \in Probers \ {p} : pstate[o] = "WaitForPeers"
    BY <1>4, <2>2 DEF ProbeFinish, Bridge!vars
  <2>3. QED
    BY <2>1, <2>2
<1>5. CASE Abort
  <2>1. Bridge!Cancel
    BY <1>5 DEF Abort, CancelledIffAborted, TypeOK, BridgeStates, Bridge!Cancel
  <2>2. QED
    BY <2>1 DEF Bridge!Next
<1>6. QED
  BY <1>1, <1>2, <1>3, <1>4, <1>5
  DEF Next, vars, AddInputBegin, AddInputEnd, Reclaim, NoMoreInput,
      BuildObserveAbort, LeaderReclaim, GetHashTable, ProbeObserveAbort

\* The hash join implements the safety part of the bridge's promise
\* (BridgeRefinement without its fairness): tables are published only
\* while the bridge is building, none shares a row with a released one,
\* and the bridge closes only after every build row was joined, for every
\* number of drivers, rows and partitions.
THEOREM RefinesBridgeSafety == Spec => Bridge!Init /\ [][Bridge!Next]_Bridge!vars
<1>1. Init => Bridge!Init
  BY DEF Init, Bridge!Init
<1>2. QED
  BY <1>1, BridgeInvariance, RefinementStep, PTL DEF Spec

=============================================================================
