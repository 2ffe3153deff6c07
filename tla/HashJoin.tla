------------------------------- MODULE HashJoin -------------------------------
(***************************************************************************)
(* The hash join operator pair of one join node: N build drivers that     *)
(* accumulate build rows in per-driver row containers and may spill them  *)
(* by partition when the memory arbitrator reclaims, the last build       *)
(* driver (the leader) that reconciles the spilled partitions of all      *)
(* peers, builds the hash table and publishes it on the join bridge, and  *)
(* the probe drivers that wait on the bridge, probe the table, and, when  *)
(* the last of them finishes, hand control back to the build side so the *)
(* next spilled partition is restored from disk and probed.               *)
(*                                                                         *)
(* A build row is a model value.  Its only data that matters here is the  *)
(* build driver it is fed to (Owner) and the spill partition its key hash *)
(* falls into (PartOf).  Probe rows are abstracted away: what the         *)
(* properties tell apart is which build rows a probe round joins against. *)
(***************************************************************************)
EXTENDS Naturals, FiniteSets

CONSTANTS
  Builders,     \* the build drivers of the join node
  Probers,      \* the probe drivers of the join node
  Rows,         \* the build-side rows
  Parts,        \* the spill partitions of one spill level
  Owner,        \* Owner[r]: the build driver row r is fed to
  PartOf,       \* PartOf[r]: the spill partition of r's key hash
  SpillEnabled  \* joinSpillEnabled

ASSUME BuildersAssumption == Builders # {}
ASSUME ProbersAssumption == Probers # {}
ASSUME OwnerAssumption == Owner \in [Rows -> Builders]
ASSUME PartOfAssumption == PartOf \in [Rows -> Parts]
ASSUME SpillEnabledAssumption == SpillEnabled \in BOOLEAN

VARIABLES
  bstate,     \* bstate[d]: state of HashBuild operator d
  pending,    \* pending[d]: build input not yet given to addInput of d
  toMem,      \* toMem[d]: rows of the batch in addInput, bound for the container
  toSpill,    \* toSpill[d]: rows of the batch in addInput, bound for the spiller
  mem,        \* mem[d]: rows in the row container of d
  spilled,    \* spilled[d]: partitions the spiller of d has spilled
  disk,       \* rows in spill files not yet restored
  leader,     \* TRUE while the last build driver is in finishHashBuild
  bridge,     \* state of the join bridge
  table,      \* rows of the hash table currently published
  toRestore,  \* spilled partitions published with the table, not yet restored
  served,     \* rows of every table published so far (history)
  pstate,     \* pstate[p]: state of HashProbe operator p
  aborted     \* the task has been aborted

vars == <<bstate, pending, toMem, toSpill, mem, spilled, disk, leader,
          bridge, table, toRestore, served, pstate, aborted>>

BuildStates == {"Running", "WaitForPeers", "WaitForProbe", "Finished"}
ProbeStates == {"WaitForBuild", "Running", "WaitForPeers", "Finished"}
BridgeStates == {"Building", "Published", "Cancelled", "Closed"}

\* The rows of a set S whose key hash falls into one of the partitions P.
RowsIn(S, P) == {r \in S : PartOf[r] \in P}

\* The partitions the rows of S fall into.
DataParts(S) == {PartOf[r] : r \in S}

\* The rows held in the row containers of all build drivers.
AllMem == UNION {mem[d] : d \in Builders}

\* The union of the partitions spilled by any build driver.
SpillUnion == UNION {spilled[d] : d \in Builders}

TypeOK ==
  /\ bstate \in [Builders -> BuildStates]
  /\ pending \in [Builders -> SUBSET Rows]
  /\ toMem \in [Builders -> SUBSET Rows]
  /\ toSpill \in [Builders -> SUBSET Rows]
  /\ mem \in [Builders -> SUBSET Rows]
  /\ spilled \in [Builders -> SUBSET Parts]
  /\ disk \in SUBSET Rows
  /\ leader \in BOOLEAN
  /\ bridge \in BridgeStates
  /\ table \in SUBSET Rows
  /\ toRestore \in SUBSET Parts
  /\ served \in SUBSET Rows
  /\ pstate \in [Probers -> ProbeStates]
  /\ aborted \in BOOLEAN

Init ==
  /\ bstate = [d \in Builders |-> "Running"]
  /\ pending = [d \in Builders |-> {r \in Rows : Owner[r] = d}]
  /\ toMem = [d \in Builders |-> {}]
  /\ toSpill = [d \in Builders |-> {}]
  /\ mem = [d \in Builders |-> {}]
  /\ spilled = [d \in Builders |-> {}]
  /\ disk = {}
  /\ leader = FALSE
  /\ bridge = "Building"
  /\ table = {}
  /\ toRestore = {}
  /\ served = {}
  /\ pstate = [p \in Probers |-> "WaitForBuild"]
  /\ aborted = FALSE

-----------------------------------------------------------------------------
(* Build side.                                                             *)

\* addInput, first half: the batch B is split by the spiller's current
\* spilled partitions into the rows it will spill and the rows it will copy
\* into the container, and memory for the copy is reserved.  The operator
\* is inside a non-reclaimable section until the copy is done.
AddInputBegin(d, B) ==
  /\ ~aborted
  /\ bstate[d] = "Running"
  /\ toMem[d] \cup toSpill[d] = {}
  /\ B # {} /\ B \subseteq pending[d]
  /\ pending' = [pending EXCEPT ![d] = @ \ B]
  /\ toSpill' = [toSpill EXCEPT ![d] = RowsIn(B, spilled[d])]
  /\ toMem' = [toMem EXCEPT ![d] = B \ RowsIn(B, spilled[d])]
  /\ UNCHANGED <<bstate, mem, spilled, disk, leader, bridge, table,
                 toRestore, served, pstate, aborted>>

\* Mutant: the spill half of the batch is never written out.
AddInputEndDropSpill(d) ==
  /\ toMem[d] \cup toSpill[d] # {}
  /\ mem' = [mem EXCEPT ![d] = @ \cup toMem[d]]
  /\ toMem' = [toMem EXCEPT ![d] = {}]
  /\ toSpill' = [toSpill EXCEPT ![d] = {}]
  /\ UNCHANGED <<bstate, pending, spilled, disk, leader, bridge, table,
                 toRestore, served, pstate, aborted>>

\* addInput, second half: the rows of spilled partitions go to the spill
\* files, the others into the row container.
AddInputEnd(d) ==
  /\ toMem[d] \cup toSpill[d] # {}
  /\ mem' = [mem EXCEPT ![d] = @ \cup toMem[d]]
  /\ disk' = disk \cup toSpill[d]
  /\ toMem' = [toMem EXCEPT ![d] = {}]
  /\ toSpill' = [toSpill EXCEPT ![d] = {}]
  /\ UNCHANGED <<bstate, pending, spilled, leader, bridge, table, toRestore,
                 served, pstate, aborted>>

\* Mutant: a reclaim is accepted while a batch is being copied.
ReclaimableInBatch(d) ==
  /\ SpillEnabled
  /\ ~aborted
  /\ bstate[d] = "Running"

\* The arbitrator may reclaim from build driver d only in a reclaimable
\* section: spilling enabled, still taking input (not in the no-more-input
\* barrier, not the leader building the table) and not in the middle of
\* copying a batch.
Reclaimable(d) ==
  /\ SpillEnabled
  /\ ~aborted
  /\ bstate[d] = "Running"
  /\ toMem[d] \cup toSpill[d] = {}

\* Mutant: the spiller records the spilled rows' ids as its partitions.
ReclaimRecordsRows(d) ==
  /\ Reclaimable(d)
  /\ mem[d] # {}
  /\ spilled' = [spilled EXCEPT ![d] = @ \cup mem[d]]
  /\ disk' = disk \cup mem[d]
  /\ mem' = [mem EXCEPT ![d] = {}]
  /\ UNCHANGED <<bstate, pending, toMem, toSpill, leader, bridge, table,
                 toRestore, served, pstate, aborted>>

\* Reclaim: the spiller of d spills every partition that holds rows of its
\* container and erases them, leaving the container empty.
Reclaim(d) ==
  /\ Reclaimable(d)
  /\ mem[d] # {}
  /\ spilled' = [spilled EXCEPT ![d] = @ \cup DataParts(mem[d])]
  /\ disk' = disk \cup mem[d]
  /\ mem' = [mem EXCEPT ![d] = {}]
  /\ UNCHANGED <<bstate, pending, toMem, toSpill, leader, bridge, table,
                 toRestore, served, pstate, aborted>>

\* Mutant: the rows are written to disk but not erased from the containers.
SpillAllNoErase(P) ==
  /\ disk' = disk \cup RowsIn(AllMem, P)
  /\ mem' = mem
  /\ spilled' = [d \in Builders |-> spilled[d] \cup P]

\* Spill the rows of partitions P of every driver's container and record P
\* as spilled by every driver.
SpillAll(P) ==
  /\ disk' = disk \cup RowsIn(AllMem, P)
  /\ mem' = [d \in Builders |-> mem[d] \ RowsIn(mem[d], P)]
  /\ spilled' = [d \in Builders |-> spilled[d] \cup P]

\* Mutant: the leader does not reconcile the peers' spilled partitions.
NoMoreInputNoReconcile(d) ==
  /\ ~aborted
  /\ bstate[d] = "Running"
  /\ pending[d] = {} /\ toMem[d] \cup toSpill[d] = {}
  /\ bstate' = [bstate EXCEPT ![d] = "WaitForPeers"]
  /\ leader' = (\A e \in Builders \ {d} : bstate[e] = "WaitForPeers")
  /\ UNCHANGED <<pending, toMem, toSpill, mem, disk, spilled, bridge, table,
                 toRestore, served, pstate, aborted>>

\* noMoreInput of driver d.  A driver that is not the last one waits for
\* its peers.  The last one becomes the leader: it collects the peers'
\* containers and, if any peer spilled, spills the rows of the union of
\* spilled partitions from every container so the on-disk picture is
\* consistent.
NoMoreInput(d) ==
  /\ ~aborted
  /\ bstate[d] = "Running"
  /\ pending[d] = {} /\ toMem[d] \cup toSpill[d] = {}
  /\ bstate' = [bstate EXCEPT ![d] = "WaitForPeers"]
  /\ IF \A e \in Builders \ {d} : bstate[e] = "WaitForPeers"
       THEN /\ leader' = TRUE
            /\ SpillAll(SpillUnion)
       ELSE UNCHANGED <<leader, mem, disk, spilled>>
  /\ UNCHANGED <<pending, toMem, toSpill, bridge, table, toRestore, served,
                 pstate, aborted>>

\* ensureTableFits: the leader reserves memory for the table inside a
\* reclaimable section; the arbitrator spills every partition holding rows
\* of the collected containers.
LeaderReclaim ==
  /\ SpillEnabled /\ leader /\ ~aborted
  /\ AllMem # {}
  /\ SpillAll(DataParts(AllMem))
  /\ UNCHANGED <<bstate, pending, toMem, toSpill, leader, bridge, table,
                 toRestore, served, pstate, aborted>>

\* Mutant: the build drivers finish even when partitions wait on disk.
BuildTableFinishAll ==
  /\ leader /\ ~aborted
  /\ table' = AllMem
  /\ mem' = [d \in Builders |-> {}]
  /\ toRestore' = SpillUnion
  /\ served' = served \cup AllMem
  /\ bridge' = "Published"
  /\ leader' = FALSE
  /\ bstate' = [d \in Builders |-> "Finished"]
  /\ UNCHANGED <<pending, toMem, toSpill, spilled, disk, pstate, aborted>>

\* The leader builds the table over the unspilled rows of all containers
\* (non-reclaimable) and publishes {table, spilled partitions} on the
\* bridge.  The build drivers finish, or wait for the probe side when
\* spilled partitions remain to be restored.
BuildTable ==
  /\ leader /\ ~aborted
  /\ table' = AllMem
  /\ mem' = [d \in Builders |-> {}]
  /\ toRestore' = SpillUnion
  /\ served' = served \cup AllMem
  /\ bridge' = "Published"
  /\ leader' = FALSE
  /\ bstate' = [d \in Builders |->
                  IF SpillUnion = {} THEN "Finished" ELSE "WaitForProbe"]
  /\ UNCHANGED <<pending, toMem, toSpill, spilled, disk, pstate, aborted>>

\* After the probe side has finished with the current table, the build side
\* restores one spilled partition q: it reads q's rows from the spill files,
\* builds a table of them and publishes it.
RestoreSpill(q) ==
  /\ ~aborted
  /\ bridge = "Building"
  /\ \A d \in Builders : bstate[d] = "WaitForProbe"
  /\ q \in toRestore
  /\ table' = RowsIn(disk, {q})
  /\ disk' = disk \ RowsIn(disk, {q})
  /\ toRestore' = toRestore \ {q}
  /\ served' = served \cup RowsIn(disk, {q})
  /\ bridge' = "Published"
  /\ bstate' = [d \in Builders |->
                  IF toRestore \ {q} = {} THEN "Finished" ELSE "WaitForProbe"]
  /\ UNCHANGED <<pending, toMem, toSpill, mem, spilled, leader, pstate,
                 aborted>>

-----------------------------------------------------------------------------
(* Probe side.                                                             *)

\* getHashTable: a probe driver blocked on the bridge resumes once a table
\* is published.
GetHashTable(p) ==
  /\ ~aborted
  /\ pstate[p] = "WaitForBuild"
  /\ bridge = "Published"
  /\ pstate' = [pstate EXCEPT ![p] = "Running"]
  /\ UNCHANGED <<bstate, pending, toMem, toSpill, mem, spilled, disk, leader,
                 bridge, table, toRestore, served, aborted>>

\* Mutant: the last probe driver closes the bridge without looking at the
\* spilled partitions.
ProbeFinishIgnoringSpill(p) ==
  /\ ~aborted
  /\ pstate[p] = "Running"
  /\ IF \A o \in Probers \ {p} : pstate[o] = "WaitForPeers"
       THEN /\ pstate' = [o \in Probers |-> "Finished"]
            /\ bridge' = "Closed"
            /\ table' = {}
       ELSE /\ pstate' = [pstate EXCEPT ![p] = "WaitForPeers"]
            /\ UNCHANGED <<bridge, table>>
  /\ UNCHANGED <<bstate, pending, toMem, toSpill, mem, spilled, disk, leader,
                 toRestore, served, aborted>>

\* A probe driver reaches the end of its input for the current table.  It
\* waits for its peers; the last one either closes the bridge (nothing left
\* on disk) or notifies the build side to restore the next partition, and
\* all probe drivers wait for that table.  Either way the last probe
\* releases the hash table it probed.
ProbeFinish(p) ==
  /\ ~aborted
  /\ pstate[p] = "Running"
  /\ IF \A o \in Probers \ {p} : pstate[o] = "WaitForPeers"
       THEN /\ table' = {}
            /\ IF toRestore = {}
                 THEN /\ pstate' = [o \in Probers |-> "Finished"]
                      /\ bridge' = "Closed"
                 ELSE /\ pstate' = [o \in Probers |-> "WaitForBuild"]
                      /\ bridge' = "Building"
       ELSE /\ pstate' = [pstate EXCEPT ![p] = "WaitForPeers"]
            /\ UNCHANGED <<bridge, table>>
  /\ UNCHANGED <<bstate, pending, toMem, toSpill, mem, spilled, disk, leader,
                 toRestore, served, aborted>>

-----------------------------------------------------------------------------
(* Cancellation.                                                           *)

\* The task is aborted externally; the bridge is cancelled, which unblocks
\* every waiter.
Abort ==
  /\ ~aborted
  /\ bridge # "Closed"
  /\ aborted' = TRUE
  /\ bridge' = "Cancelled"
  /\ UNCHANGED <<bstate, pending, toMem, toSpill, mem, spilled, disk, leader,
                 table, toRestore, served, pstate>>

\* A build driver observes the abort at its next checkpoint and finishes
\* with the error; an in-flight batch is discarded.
BuildObserveAbort(d) ==
  /\ aborted /\ bstate[d] # "Finished"
  /\ bstate' = [bstate EXCEPT ![d] = "Finished"]
  /\ toMem' = [toMem EXCEPT ![d] = {}]
  /\ toSpill' = [toSpill EXCEPT ![d] = {}]
  /\ leader' = FALSE
  /\ UNCHANGED <<pending, mem, spilled, disk, bridge, table, toRestore,
                 served, pstate, aborted>>

\* A probe driver observes the abort and finishes with the error.
ProbeObserveAbort(p) ==
  /\ aborted /\ pstate[p] # "Finished"
  /\ pstate' = [pstate EXCEPT ![p] = "Finished"]
  /\ UNCHANGED <<bstate, pending, toMem, toSpill, mem, spilled, disk, leader,
                 bridge, table, toRestore, served, aborted>>

\* Every driver of the join node has finished.
AllFinished ==
  /\ \A d \in Builders : bstate[d] = "Finished"
  /\ \A p \in Probers : pstate[p] = "Finished"

Next ==
  \/ \E d \in Builders :
       \/ \E B \in SUBSET Rows : AddInputBegin(d, B)
       \/ AddInputEnd(d)
       \/ Reclaim(d)
       \/ NoMoreInput(d)
       \/ BuildObserveAbort(d)
  \/ LeaderReclaim
  \/ BuildTable
  \/ \E q \in Parts : RestoreSpill(q)
  \/ \E p \in Probers : GetHashTable(p) \/ ProbeFinish(p) \/ ProbeObserveAbort(p)
  \/ Abort

\* Drivers run on their own threads and are scheduled until they block;
\* arbitration and abort are external events without fairness.
Fairness ==
  /\ \A d \in Builders :
       /\ WF_vars(\E B \in SUBSET Rows : AddInputBegin(d, B))
       /\ WF_vars(AddInputEnd(d))
       /\ WF_vars(NoMoreInput(d))
       /\ WF_vars(BuildObserveAbort(d))
  /\ WF_vars(BuildTable)
  /\ WF_vars(\E q \in Parts : RestoreSpill(q))
  /\ \A p \in Probers :
       /\ WF_vars(GetHashTable(p))
       /\ WF_vars(ProbeFinish(p))
       /\ WF_vars(ProbeObserveAbort(p))

Spec == Init /\ [][Next]_vars /\ Fairness


-----------------------------------------------------------------------------
(* Properties.                                                             *)

\* The rows build driver d still holds: unread, in a batch, or in memory.
HeldBy(d) == pending[d] \cup toMem[d] \cup toSpill[d] \cup mem[d]

\* Unless the task was aborted (which discards an in-flight batch), every
\* build row is in exactly one place: held by its own build driver (and in
\* one of that driver's places only), in a spill file, or in a table that
\* has been published.  Spilling during input, the leader's reconciliation
\* and the restores must neither lose nor duplicate a row.
RowsConserved ==
  ~aborted =>
    \A r \in Rows :
      /\ \A d \in Builders : r \in HeldBy(d) => d = Owner[r]
      /\ LET d == Owner[r]
             places == <<r \in pending[d], r \in toMem[d], r \in toSpill[d],
                         r \in mem[d], r \in disk, r \in served>>
         IN  Cardinality({i \in 1..6 : places[i]}) = 1

\* A build driver never holds in its container, or is about to copy into
\* it, a row of a partition its spiller has already spilled: addInput
\* decides where each row goes from the spilled partitions, and a reclaim
\* must not spill a partition between that decision and the copy.
SpillConsistent ==
  \A d \in Builders : RowsIn(mem[d] \cup toMem[d], spilled[d]) = {}

\* While a table is in use, it holds no row of a partition still to be
\* restored, and every row on disk belongs to such a partition: the leader
\* must spill the union of all peers' spilled partitions before building,
\* or a row is joined twice, or never.
TableConsistent ==
  (~aborted /\ bridge \in {"Published", "Building"} /\ ~leader
            /\ \A d \in Builders : bstate[d] \in {"WaitForProbe", "Finished"}) =>
    /\ RowsIn(table, toRestore) = {}
    /\ disk = RowsIn(disk, toRestore)

\* When the probe side has finished normally, each build row has been in
\* exactly one published table and no spill file is left.
CompleteAndClean ==
  ((\A p \in Probers : pstate[p] = "Finished") /\ ~aborted) =>
    (served = Rows /\ disk = {})

\* A table the bridge newly publishes (first build or restore) contains no
\* row of a table published before: no build row is joined twice.
NoRowJoinedTwice ==
  [][(bridge' = "Published" /\ bridge # "Published") => table' \cap served = {}]_vars

\* Every run ends with all drivers finished: the build barrier, the bridge
\* and the restore hand-off cannot leave a driver waiting forever.
Termination == <>AllFinished

\* The join implements the bridge's promise (JoinBridge): tables are
\* published one at a time, each shares no row with those the probe side
\* has released, the bridge closes only once every build row has been in
\* a released table, and, under the drivers' fairness, the build side
\* publishes and the probe side releases every table.  The bridge's
\* released rows are the rows served in tables other than the current one.
Bridge == INSTANCE JoinBridge
            WITH state <- bridge, current <- table, done <- served \ table

BridgeRefinement == Bridge!Spec

=============================================================================
