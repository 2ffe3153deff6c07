------------------------- MODULE HashJoinRowsProofs -------------------------
(* Without an abort, the hash join neither loses nor duplicates a build   *)
(* row (RowsConserved), and a probe side that has finished has seen every *)
(* build row in a published table and left no spill file (CompleteAndClean),*)
(* and no newly published table repeats a served row (NoRowJoinedTwice),  *)
(* for every number of drivers, rows and partitions.                      *)
EXTENDS HashJoinBridgeProofs, FiniteSetTheorems

\* The places of a row are pairwise disjoint: addInput, the reclaims, the
\* leader's reconciliation, the table build and the restores each move
\* rows from one place to another and never copy them.
PlacesDisjoint ==
  \A d \in Builders :
    /\ pending[d] \cap (toMem[d] \cup toSpill[d] \cup mem[d] \cup disk \cup served) = {}
    /\ toMem[d] \cap (toSpill[d] \cup mem[d] \cup disk \cup served) = {}
    /\ toSpill[d] \cap (mem[d] \cup disk \cup served) = {}
    /\ mem[d] \cap (disk \cup served) = {}

\* Without an abort, a probe driver finishes only with the bridge closed
\* on the last partition, after the build; and a closed bridge has nothing
\* left to restore.
ClosedDone ==
  ~aborted =>
    /\ (\E p \in Probers : pstate[p] = "Finished") => bridge = "Closed"
    /\ bridge = "Closed" => toRestore = {} /\ BuildDone


\* Two build drivers hold no row in common: each holds only its own input.
LEMMA HeldApart ==
  ASSUME Owned, NEW d \in Builders, NEW e \in Builders, d # e
  PROVE  HeldBy(d) \cap HeldBy(e) = {}
BY DEF Owned, Own

\* Every step keeps the places of the rows disjoint.
LEMMA DisjointStep ==
  BridgeInv /\ PlacesDisjoint /\ [Next]_vars => PlacesDisjoint'
<1> SUFFICES ASSUME BridgeInv, PlacesDisjoint, [Next]_vars
             PROVE  PlacesDisjoint'
  OBVIOUS
<1> USE DEF BridgeInv, RestInv, SpillInv
<1>0. \A d, e \in Builders : d # e => HeldBy(d) \cap HeldBy(e) = {}
  BY HeldApart
<1>1. ASSUME NEW d \in Builders, NEW B \in SUBSET Rows, AddInputBegin(d, B)
      PROVE  PlacesDisjoint'
  BY <1>1 DEF AddInputBegin, PlacesDisjoint, TypeOK, RowsIn
<1>2. ASSUME NEW d \in Builders, AddInputEnd(d)
      PROVE  PlacesDisjoint'
  BY <1>0, <1>2 DEF AddInputEnd, PlacesDisjoint, TypeOK, HeldBy
<1>3. ASSUME NEW d \in Builders, Reclaim(d)
      PROVE  PlacesDisjoint'
  BY <1>0, <1>3 DEF Reclaim, PlacesDisjoint, TypeOK, HeldBy
<1>4. ASSUME NEW P, SpillAll(P),
             UNCHANGED <<pending, toMem, toSpill, served>>
      PROVE  PlacesDisjoint'
  <2>1. \A e \in Builders : mem'[e] \subseteq mem[e]
    BY <1>4 DEF SpillAll
  <2>2. \A e \in Builders : RowsIn(AllMem, P) \cap HeldBy(e) \subseteq mem[e]
    BY <1>0 DEF HeldBy, AllMem, RowsIn
  <2>3. \A e \in Builders : RowsIn(AllMem, P) \cap mem'[e] = {}
    BY <1>4 DEF SpillAll, RowsIn, AllMem, TypeOK
  <2>. QED  BY <1>4, <2>1, <2>2, <2>3 DEF SpillAll, PlacesDisjoint, HeldBy
<1>5. ASSUME NEW d \in Builders, NoMoreInput(d)
      PROVE  PlacesDisjoint'
  <2>1. CASE \A e \in Builders \ {d} : bstate[e] = "WaitForPeers"
    BY <1>4, <1>5, <2>1 DEF NoMoreInput
  <2>2. CASE ~\A e \in Builders \ {d} : bstate[e] = "WaitForPeers"
    BY <1>5, <2>2 DEF NoMoreInput, PlacesDisjoint
  <2>. QED  BY <2>1, <2>2
<1>6. CASE LeaderReclaim
  BY <1>4, <1>6 DEF LeaderReclaim
<1>7. CASE BuildTable
  <2>1. \A e \in Builders : AllMem \cap HeldBy(e) \subseteq mem[e]
    BY <1>0 DEF HeldBy, AllMem
  <2>. QED  BY <1>7, <2>1 DEF BuildTable, PlacesDisjoint, HeldBy, TypeOK, AllMem
<1>8. ASSUME NEW q \in Parts, RestoreSpill(q)
      PROVE  PlacesDisjoint'
  BY <1>8 DEF RestoreSpill, PlacesDisjoint, RowsIn
<1>9. ASSUME NEW d \in Builders, BuildObserveAbort(d)
      PROVE  PlacesDisjoint'
  BY <1>9 DEF BuildObserveAbort, PlacesDisjoint, TypeOK
<1>10. CASE UNCHANGED <<pending, toMem, toSpill, mem, disk, served>>
  BY <1>10 DEF PlacesDisjoint
<1>. QED
  BY <1>1, <1>2, <1>3, <1>5, <1>6, <1>7, <1>8, <1>9, <1>10
  DEF Next, vars, GetHashTable, ProbeFinish, ProbeObserveAbort, Abort


\* Every step keeps ClosedDone.  Only the last probe driver finishing on a
\* table with nothing left to restore closes the bridge and finishes the
\* probes; that table was published after the build (PublishedAfterBuild).
\* Once the bridge is closed no build step, restore or probe step can run
\* (each needs a building or published bridge, a leader or a running
\* driver, none of which a closed bridge allows).
LEMMA ClosedDoneStep ==
  BridgeInv /\ ClosedDone /\ [Next]_vars => ClosedDone'
<1> SUFFICES ASSUME BridgeInv, ClosedDone, [Next]_vars, ~aborted'
             PROVE  ClosedDone'
  BY DEF ClosedDone
<1> USE DEF BridgeInv, RestInv, SpillInv
<1>1. ~aborted
  BY DEF Next, vars, AddInputBegin, AddInputEnd, Reclaim, NoMoreInput,
         BuildObserveAbort, LeaderReclaim, BuildTable, RestoreSpill,
         GetHashTable, ProbeFinish, ProbeObserveAbort, Abort
<1>2. bridge # "Closed" => \A p \in Probers : pstate[p] # "Finished"
  BY <1>1 DEF ClosedDone
<1>3. ASSUME NEW p \in Probers, ProbeFinish(p) PROVE ClosedDone'
  <2>1. bridge = "Published" /\ BuildDone
    BY <1>1, <1>3 DEF ProbeFinish, ProbingPublished, PublishedAfterBuild
  <2>2. \A o \in Probers : pstate[o] # "Finished"
    BY <1>2, <2>1
  <2>3. UNCHANGED <<bstate, leader, toRestore, aborted>>
    BY <1>3 DEF ProbeFinish
  <2>4. BuildDone'
    BY <2>1, <2>3 DEF BuildDone
  <2>5. CASE \A o \in Probers \ {p} : pstate[o] = "WaitForPeers"
    <3>1. CASE toRestore = {}
      BY <1>3, <2>3, <2>4, <2>5, <3>1 DEF ProbeFinish, ClosedDone
    <3>2. CASE toRestore # {}
      <4>1. bridge' = "Building" /\ pstate' = [o \in Probers |-> "WaitForBuild"]
        BY <1>3, <2>5, <3>2 DEF ProbeFinish
      <4>. QED  BY <4>1 DEF ClosedDone
    <3>. QED  BY <3>1, <3>2
  <2>6. CASE ~\A o \in Probers \ {p} : pstate[o] = "WaitForPeers"
    <3>1. bridge' = "Published" /\ pstate' = [pstate EXCEPT ![p] = "WaitForPeers"]
      BY <1>3, <2>1, <2>6 DEF ProbeFinish
    <3>. QED  BY <2>2, <3>1 DEF ClosedDone
  <2>. QED  BY <2>5, <2>6
<1>4. ASSUME NEW p \in Probers, GetHashTable(p) PROVE ClosedDone'
  BY <1>2, <1>4 DEF GetHashTable, ClosedDone
<1>5. CASE BuildTable \/ \E q \in Parts : RestoreSpill(q)
  <2>1. bridge = "Building"
    BY <1>1, <1>5 DEF BuildTable, RestoreSpill, BuildPhase
  <2>. QED  BY <1>2, <1>5, <2>1 DEF BuildTable, RestoreSpill, ClosedDone
<1>6. ASSUME NEW d \in Builders,
             \/ \E B \in SUBSET Rows : AddInputBegin(d, B)
             \/ AddInputEnd(d) \/ Reclaim(d) \/ NoMoreInput(d)
      PROVE  ClosedDone'
  <2>1. CASE bstate[d] = "Running"
    <3>1. bridge = "Building"
      BY <1>1, <2>1 DEF BuildPhase
    <3>. QED
      BY <1>2, <1>6, <3>1
      DEF AddInputBegin, AddInputEnd, Reclaim, NoMoreInput, ClosedDone
  <2>2. CASE bstate[d] # "Running"
    \* Only AddInputEnd runs outside Running, and it keeps the flags.
    BY <1>6, <2>2
    DEF AddInputBegin, AddInputEnd, Reclaim, Reclaimable, NoMoreInput,
        ClosedDone, BuildDone
  <2>. QED  BY <2>1, <2>2
<1>7. CASE LeaderReclaim
  BY <1>7 DEF LeaderReclaim, ClosedDone, BuildDone
<1>8. CASE UNCHANGED vars
  BY <1>8 DEF vars, ClosedDone, BuildDone
<1>. QED
  BY <1>1, <1>3, <1>4, <1>5, <1>6, <1>7, <1>8
  DEF Next, BuildObserveAbort, ProbeObserveAbort, Abort

\* The invariant the two theorems rest on.
RowsInv == BridgeInv /\ PlacesDisjoint /\ ClosedDone

\* Initially every row is unread and nothing is spilled, served or closed.
LEMMA InitRowsInv == Init => RowsInv
<1> SUFFICES ASSUME Init PROVE RowsInv
  OBVIOUS
<1>1. BridgeInv
  BY InitBridgeInv
<1>2. PlacesDisjoint /\ ClosedDone
  BY DEF Init, PlacesDisjoint, ClosedDone
<1>. QED  BY <1>1, <1>2 DEF RowsInv

\* Every step keeps RowsInv.
LEMMA RowsInvStep == RowsInv /\ [Next]_vars => RowsInv'
BY BridgeStep, DisjointStep, ClosedDoneStep DEF RowsInv

\* No build row is ever in two places at once, for every number of
\* drivers, rows and partitions: addInput's batches, the reclaims, the
\* leader's SpillAll and reconciliation, the table build and the restores
\* move a row and never leave a copy behind.
THEOREM DisjointPlaces == Spec => []PlacesDisjoint
<1>1. RowsInv => PlacesDisjoint
  BY DEF RowsInv
<1>. QED  BY InitRowsInv, RowsInvStep, <1>1, PTL DEF Spec

\* Without an abort, a probe driver is finished only when the bridge has
\* closed, and the bridge closes only after the build and with no spilled
\* partition left to restore: HashProbe cannot finish on a table while a
\* restore is still due.
THEOREM ClosedAfterDone == Spec => []ClosedDone
<1>1. RowsInv => ClosedDone
  BY DEF RowsInv
<1>. QED  BY InitRowsInv, RowsInvStep, <1>1, PTL DEF Spec

\* RowsInv places each row exactly once.
LEMMA ConservedFromInv == RowsInv => RowsConserved
<1> SUFFICES ASSUME RowsInv, ~aborted, NEW r \in Rows
             PROVE  /\ \A d \in Builders : r \in HeldBy(d) => d = Owner[r]
                    /\ LET d == Owner[r]
                           places == <<r \in pending[d], r \in toMem[d],
                                       r \in toSpill[d], r \in mem[d],
                                       r \in disk, r \in served>>
                       IN  Cardinality({i \in 1..6 : places[i]}) = 1
  BY DEF RowsConserved
<1> USE DEF RowsInv, BridgeInv, RestInv
<1>1. \A e \in Builders : r \in HeldBy(e) => e = Owner[r]
  BY DEF Owned, Own
<1> DEFINE d == Owner[r]
           places == <<r \in pending[d], r \in toMem[d], r \in toSpill[d],
                       r \in mem[d], r \in disk, r \in served>>
           I == {i \in 1..6 : places[i]}
<1>2. d \in Builders
  BY OwnerAssumption
<1>3. r \in HeldBy(d) \/ r \in disk \/ r \in served
  BY <1>1 DEF NothingLost
<1>4. \E k \in 1..6 : I = {k}
  <2>0. /\ places[1] = (r \in pending[d]) /\ places[2] = (r \in toMem[d])
        /\ places[3] = (r \in toSpill[d]) /\ places[4] = (r \in mem[d])
        /\ places[5] = (r \in disk) /\ places[6] = (r \in served)
        /\ 1..6 = {1, 2, 3, 4, 5, 6}
    OBVIOUS
  <2>1. CASE r \in pending[d]
    <3>1. I = {1}
      BY <1>2, <2>0, <2>1 DEF PlacesDisjoint, DiskUnserved
    <3>. QED  BY <3>1
  <2>2. CASE r \in toMem[d]
    <3>1. I = {2}
      BY <1>2, <2>0, <2>2 DEF PlacesDisjoint, DiskUnserved
    <3>. QED  BY <3>1
  <2>3. CASE r \in toSpill[d]
    <3>1. I = {3}
      BY <1>2, <2>0, <2>3 DEF PlacesDisjoint, DiskUnserved
    <3>. QED  BY <3>1
  <2>4. CASE r \in mem[d]
    <3>1. I = {4}
      BY <1>2, <2>0, <2>4 DEF PlacesDisjoint, DiskUnserved
    <3>. QED  BY <3>1
  <2>5. CASE r \in disk
    <3>1. I = {5}
      BY <1>2, <2>0, <2>5 DEF PlacesDisjoint, DiskUnserved
    <3>. QED  BY <3>1
  <2>6. CASE r \in served
    <3>1. I = {6}
      BY <1>2, <2>0, <2>6 DEF PlacesDisjoint, DiskUnserved
    <3>. QED  BY <3>1
  <2>. QED  BY <1>3, <2>1, <2>2, <2>3, <2>4, <2>5, <2>6 DEF HeldBy
<1>5. Cardinality(I) = 1
  BY <1>4, FS_Singleton
<1>. QED  BY <1>1, <1>5

\* Without an abort, every build row is in exactly one place at every
\* moment: unread, in a batch being copied, in its own driver's container,
\* in a spill file, or in a table that was published.  Spilling during
\* input, the leader's reconciliation and the restores move rows and never
\* lose or copy one, for every number of drivers, rows and partitions.
THEOREM RowsConservation == Spec => []RowsConserved
<1>. QED  BY InitRowsInv, RowsInvStep, ConservedFromInv, PTL DEF Spec

\* A probe side that finished without an abort has had every build row in
\* a published table, and no spill file is left: the restore hand-off
\* cannot close the bridge with a partition still on disk.
LEMMA CleanFromInv == RowsInv => CompleteAndClean
<1> SUFFICES ASSUME RowsInv, ~aborted, \A p \in Probers : pstate[p] = "Finished"
             PROVE  served = Rows /\ disk = {}
  BY DEF CompleteAndClean
<1> USE DEF RowsInv, BridgeInv, RestInv, SpillInv
<1>1. toRestore = {} /\ BuildDone
  BY ProbersAssumption DEF ClosedDone
<1>2. Rows \subseteq served \cup disk /\ disk = RowsIn(disk, {})
  BY <1>1 DEF RestoreComplete
<1>3. disk = {}
  BY <1>2 DEF RowsIn
<1>. QED  BY <1>2, <1>3 DEF TypeOK

\* When every probe driver has finished and the task was not aborted,
\* each build row has been in a published table and no spill file is
\* left, for every number of drivers, rows and partitions.
THEOREM CompleteClean == Spec => []CompleteAndClean
<1>. QED  BY InitRowsInv, RowsInvStep, CleanFromInv, PTL DEF Spec


\* Only the table build and a restore newly publish a table, and neither
\* publishes a row already served: the build comes before anything is
\* served (BuildPhase), and a restore reads rows from disk, which holds no
\* served row (DiskUnserved).
LEMMA PublishFresh ==
  ASSUME BridgeInv, [Next]_vars
  PROVE  (bridge' = "Published" /\ bridge # "Published") => table' \cap served = {}
<1> SUFFICES ASSUME bridge' = "Published", bridge # "Published"
             PROVE  table' \cap served = {}
  OBVIOUS
<1> USE DEF BridgeInv, RestInv, SpillInv
<1>1. CASE BuildTable
  BY <1>1 DEF BuildTable, BuildPhase
<1>2. ASSUME NEW q \in Parts, RestoreSpill(q) PROVE table' \cap served = {}
  BY <1>2 DEF RestoreSpill, DiskUnserved, RowsIn
<1>3. ASSUME NEW p \in Probers, ProbeFinish(p) PROVE FALSE
  <2>0. ~aborted /\ pstate[p] \in {"Running", "WaitForPeers"}
    BY <1>3 DEF ProbeFinish
  <2>1. bridge = "Published"
    BY <2>0 DEF ProbingPublished
  <2>. QED  BY <1>3, <2>1 DEF ProbeFinish
<1>. QED
  BY <1>1, <1>2, <1>3
  DEF Next, vars, AddInputBegin, AddInputEnd, Reclaim, NoMoreInput,
      BuildObserveAbort, LeaderReclaim, GetHashTable, ProbeObserveAbort,
      Abort

\* No table the bridge newly publishes, first build or restore, holds a
\* row of a table published before: no build row is joined twice, for
\* every number of drivers, rows and partitions.
THEOREM NoDoubleJoin == Spec => NoRowJoinedTwice
<1>1. BridgeInv /\ [Next]_vars =>
        [(bridge' = "Published" /\ bridge # "Published") => table' \cap served = {}]_vars
  BY PublishFresh
<1>. QED  BY <1>1, BridgeInvariance, PTL DEF NoRowJoinedTwice, Spec

=============================================================================
