---------------------------- MODULE SpillLevels ----------------------------
(***************************************************************************)
(* Recursive spilling of a hash join with one driver (spec.md 4.3 and     *)
(* 4.5, and the HashJoinTest cases exceededMaxSpillLevel,                  *)
(* noSpillLevelLimit and maxSpillBytes that fix its behaviour).            *)
(*                                                                         *)
(* The join processes one partition at a time: first the whole input      *)
(* (ctx = <<>>), then each spilled partition, named by the sequence of    *)
(* partition numbers that led to it.  While a partition's build input is  *)
(* consumed, memory may be reclaimed: the rows of some partitions, chosen *)
(* by the hash bits [Off(ctx), Off(ctx) + NumBits), go to disk, and later *)
(* rows of those partitions follow them.  Probe rows of a spilled         *)
(* partition are written beside it; the others are joined with the table. *)
(* When the probe input is exhausted the next spilled partition is        *)
(* restored, one level down.  A restored partition whose spiller would    *)
(* exceed maxSpillLevel or the hash width is processed in place and is    *)
(* not reclaimable (exceededMaxSpillLevelLimit).  The query fails with    *)
(* SpillLimitExceeded when a spill is attempted after the spilled total   *)
(* has crossed a positive maxSpillBytes.                                  *)
(***************************************************************************)
EXTENDS Integers, Sequences, FiniteSets

CONSTANTS
  W,               \* width of the key hash in bits (64 in the code)
  StartBit,        \* kSpillStartPartitionBit
  NumBits,         \* kSpillNumPartitionBits
  MaxSpillLevel,   \* maxSpillLevel; -1 means no limit
  MaxSpillBytes,   \* kMaxSpillBytes, counted in rows; 0 means no limit
  BuildRows, ProbeRows,
  Key,             \* the join key of each row
  Hash             \* the hash of each key

ASSUME NumBitsAssumption == NumBits \in Nat \ {0}
ASSUME WidthAssumption == W \in Nat
ASSUME StartBitAssumption == StartBit \in Nat /\ StartBit + NumBits <= W
ASSUME LevelAssumption == MaxSpillLevel \in Nat \cup {-1}
ASSUME BytesAssumption == MaxSpillBytes \in Nat
\* A query's build input is finite, so a reclaim spills finitely many rows.
ASSUME RowsAssumption == IsFiniteSet(BuildRows)

Parts == 0 .. (2^NumBits - 1)

\* Bits [off, off + NumBits) of hash h: the partition of a row at a level.
PartOf(h, off) == (h \div 2^off) % 2^NumBits

\* The first hash bit a spiller of partition id partitions on.
Off(id) == StartBit + Len(id) * NumBits

\* Spilled partition ids, one level deeper than the hash width allows so
\* that a spill past the limit is a state the properties can see.
MaxDepth == (W - StartBit) \div NumBits + 1
Ids == UNION {[1 .. n -> Parts] : n \in 1 .. MaxDepth}

\* SpillConfig::exceedSpillLevelLimit(startBitOffset) for the spiller that
\* would partition on bits from off.  Mutants: the width test off by one,
\* and the width test missing.
ExceedLimitWidthOffByOne(off) ==
  \/ off > W
  \/ MaxSpillLevel # -1 /\ (off - StartBit) \div NumBits > MaxSpillLevel
ExceedLimitNoWidth(off) ==
  MaxSpillLevel # -1 /\ (off - StartBit) \div NumBits > MaxSpillLevel
ExceedSpillLevelLimit(off) ==
  \/ off + NumBits > W
  \/ MaxSpillLevel # -1 /\ (off - StartBit) \div NumBits > MaxSpillLevel

\* The matching pairs the join must produce.
Reference == {pr \in BuildRows \X ProbeRows : Key[pr[1]] = Key[pr[2]]}

VARIABLES
  ctx,           \* the partition being processed; <<>> is the whole input
  phase,         \* "build", "probe", "done" or "failed"
  buildIn,       \* build rows of ctx not yet added
  mem,           \* build rows in the row container / hash table
  spilledParts,  \* partitions of ctx the spiller has spilled
  exceeded,      \* exceededMaxSpillLevelLimit_ for ctx
  probeIn,       \* probe rows of ctx not yet probed
  pending,       \* spilled partitions not yet restored
  diskB, diskP,  \* the build and probe rows of each spilled partition
  out,           \* the joined pairs
  dup,           \* a pair has been produced twice
  spilledBytes   \* the query's spilled total

vars == <<ctx, phase, buildIn, mem, spilledParts, exceeded, probeIn, pending,
          diskB, diskP, out, dup, spilledBytes>>

\* The partition of row r within ctx, and the id of its spill partition.
Part(r) == PartOf(Hash[Key[r]], Off(ctx))
Child(r) == Append(ctx, Part(r))

TypeOK ==
  /\ ctx \in Ids \cup {<<>>}
  /\ phase \in {"build", "probe", "done", "failed"}
  /\ buildIn \subseteq BuildRows /\ mem \subseteq BuildRows
  /\ spilledParts \subseteq Parts /\ exceeded \in BOOLEAN
  /\ probeIn \subseteq ProbeRows /\ pending \subseteq Ids
  /\ diskB \in [Ids -> SUBSET BuildRows] /\ diskP \in [Ids -> SUBSET ProbeRows]
  /\ out \subseteq BuildRows \X ProbeRows /\ dup \in BOOLEAN
  /\ spilledBytes \in Nat

Init ==
  /\ ctx = <<>> /\ phase = "build"
  /\ buildIn = BuildRows /\ mem = {}
  /\ spilledParts = {} /\ exceeded = FALSE
  /\ probeIn = ProbeRows /\ pending = {}
  /\ diskB = [id \in Ids |-> {}] /\ diskP = [id \in Ids |-> {}]
  /\ out = {} /\ dup = FALSE /\ spilledBytes = 0

\* Spill::checkSpillLimit: the total has crossed a positive limit.
LimitExceeded == MaxSpillBytes > 0 /\ spilledBytes > MaxSpillBytes

\* The variables a step that only reads or writes the build input keeps.
probeVars == <<probeIn, diskP, out, dup>>

\* HashBuild::addInput of row r of a partition that is not spilled: the
\* row goes to the row container.
AddBuildInput(r) ==
  /\ phase = "build" /\ r \in buildIn /\ Part(r) \notin spilledParts
  /\ buildIn' = buildIn \ {r} /\ mem' = mem \cup {r}
  /\ UNCHANGED <<ctx, phase, spilledParts, exceeded, pending, diskB,
                 spilledBytes>>
  /\ UNCHANGED probeVars

\* HashBuild::spillInput: row r of a spilled partition is appended to
\* that partition's file.
SpillBuildInput(r) ==
  /\ phase = "build" /\ r \in buildIn /\ Part(r) \in spilledParts
  /\ ~LimitExceeded
  /\ buildIn' = buildIn \ {r}
  /\ diskB' = [id \in Ids |-> IF id = Child(r) THEN diskB[id] \cup {r}
                                               ELSE diskB[id]]
  /\ spilledBytes' = spilledBytes + 1
  /\ UNCHANGED <<ctx, phase, mem, spilledParts, exceeded, pending>>
  /\ UNCHANGED probeVars

\* Mutant: reclaim does not check exceededMaxSpillLevelLimit_.
ReclaimPastLimit(S) ==
  /\ phase = "build" /\ S \ spilledParts # {} /\ ~LimitExceeded
  /\ LET moved == {r \in mem : Part(r) \in S}
     IN  /\ mem' = mem \ moved
         /\ diskB' = [id \in Ids |-> diskB[id] \cup {r \in moved : Child(r) = id}]
         /\ spilledBytes' = spilledBytes + Cardinality(moved)
  /\ spilledParts' = spilledParts \cup S
  /\ pending' = pending \cup {Append(ctx, q) : q \in S}
  /\ UNCHANGED <<ctx, phase, buildIn, exceeded>>
  /\ UNCHANGED probeVars

\* HashBuild::reclaim, which the arbitrator may call while the build input
\* is consumed (the test calls it from finishHashBuild) unless the
\* operator cannot reclaim (canReclaim is false once the level limit is
\* exceeded): the rows of partitions S are spilled and erased from the
\* row container, and those partitions count as spilled from now on.
Reclaim(S) ==
  /\ phase = "build" /\ ~exceeded /\ S \ spilledParts # {}
  /\ ~LimitExceeded
  /\ LET moved == {r \in mem : Part(r) \in S}
     IN  /\ mem' = mem \ moved
         /\ diskB' = [id \in Ids |-> diskB[id] \cup {r \in moved : Child(r) = id}]
         /\ spilledBytes' = spilledBytes + Cardinality(moved)
  /\ spilledParts' = spilledParts \cup S
  /\ pending' = pending \cup {Append(ctx, q) : q \in S}
  /\ UNCHANGED <<ctx, phase, buildIn, exceeded>>
  /\ UNCHANGED probeVars

\* HashBuild::finishHashBuild: the table is built from the row container
\* and the probe side starts.
FinishBuild ==
  /\ phase = "build" /\ buildIn = {}
  /\ phase' = "probe"
  /\ UNCHANGED <<ctx, buildIn, mem, spilledParts, exceeded, pending, diskB,
                 spilledBytes>>
  /\ UNCHANGED probeVars

\* The pairs probe row p joins with in the table.
Matches(p) == {b \in mem : Key[b] = Key[p]} \X {p}

\* Mutant: the probe joins every row with the table, spilled or not.
ProbeInputIgnoringSpill(p) ==
  /\ phase = "probe" /\ p \in probeIn
  /\ probeIn' = probeIn \ {p}
  /\ out' = out \cup Matches(p)
  /\ dup' = (dup \/ Matches(p) \cap out # {})
  /\ UNCHANGED <<ctx, phase, buildIn, mem, spilledParts, exceeded, pending,
                 diskB, diskP, spilledBytes>>

\* HashProbe::addInput of probe row p of a partition the build side did
\* not spill: p is joined with the table.
ProbeInput(p) ==
  /\ phase = "probe" /\ p \in probeIn /\ Part(p) \notin spilledParts
  /\ probeIn' = probeIn \ {p}
  /\ out' = out \cup Matches(p)
  /\ dup' = (dup \/ Matches(p) \cap out # {})
  /\ UNCHANGED <<ctx, phase, buildIn, mem, spilledParts, exceeded, pending,
                 diskB, diskP, spilledBytes>>

\* Mutant: the probe input is spilled without Spill::checkSpillLimit.
SpillProbeInputUnchecked(p) ==
  /\ phase = "probe" /\ p \in probeIn /\ Part(p) \in spilledParts
  /\ probeIn' = probeIn \ {p}
  /\ diskP' = [id \in Ids |-> IF id = Child(p) THEN diskP[id] \cup {p}
                                               ELSE diskP[id]]
  /\ spilledBytes' = spilledBytes + 1
  /\ UNCHANGED <<ctx, phase, buildIn, mem, spilledParts, exceeded, pending,
                 diskB, out, dup>>

\* HashProbe::spillInput: probe row p of a spilled partition is written
\* beside that partition's build rows, with the same partition bits.
SpillProbeInput(p) ==
  /\ phase = "probe" /\ p \in probeIn /\ Part(p) \in spilledParts
  /\ ~LimitExceeded
  /\ probeIn' = probeIn \ {p}
  /\ diskP' = [id \in Ids |-> IF id = Child(p) THEN diskP[id] \cup {p}
                                               ELSE diskP[id]]
  /\ spilledBytes' = spilledBytes + 1
  /\ UNCHANGED <<ctx, phase, buildIn, mem, spilledParts, exceeded, pending,
                 diskB, out, dup>>

\* A spill attempt, by a reclaim or by a row of a spilled partition, after
\* the query's spilled total has crossed a positive maxSpillBytes throws
\* SpillLimitExceeded and the query fails.
SpillRefused ==
  /\ LimitExceeded
  /\ \/ phase = "build" /\ ~exceeded /\ spilledParts # Parts
     \/ phase = "build" /\ \E r \in buildIn : Part(r) \in spilledParts
     \/ phase = "probe" /\ \E p \in probeIn : Part(p) \in spilledParts
  /\ phase' = "failed"
  /\ UNCHANGED <<ctx, buildIn, mem, spilledParts, exceeded, pending, diskB,
                 spilledBytes>>
  /\ UNCHANGED probeVars

\* Mutant: the restored partition stays in the spilled partition set.
RestoreKeepPending(id) ==
  /\ phase = "probe" /\ probeIn = {} /\ id \in pending
  /\ ctx' = id /\ phase' = "build"
  /\ buildIn' = diskB[id] /\ probeIn' = diskP[id]
  /\ diskB' = [diskB EXCEPT ![id] = {}] /\ diskP' = [diskP EXCEPT ![id] = {}]
  /\ UNCHANGED pending
  /\ mem' = {} /\ spilledParts' = {}
  /\ exceeded' = ExceedSpillLevelLimit(Off(id))
  /\ UNCHANGED <<out, dup, spilledBytes>>

\* Mutant: the new partition's spiller starts with the old one's spilled
\* partition set.
RestoreNoReset(id) ==
  /\ phase = "probe" /\ probeIn = {} /\ id \in pending
  /\ ctx' = id /\ phase' = "build"
  /\ buildIn' = diskB[id] /\ probeIn' = diskP[id]
  /\ diskB' = [diskB EXCEPT ![id] = {}] /\ diskP' = [diskP EXCEPT ![id] = {}]
  /\ pending' = pending \ {id}
  /\ mem' = {} /\ UNCHANGED spilledParts
  /\ exceeded' = ExceedSpillLevelLimit(Off(id))
  /\ UNCHANGED <<out, dup, spilledBytes>>

\* The probe input of ctx is exhausted and spilled partition id is
\* restored (HashBuild::setupSpiller with the spill partition, and the
\* probe's reopening of the matching probe file): its build rows are read
\* back as the new build input, its probe rows as the probe input, the
\* table is cleared, and the new spiller partitions on the next bits
\* unless that exceeds the level limit, which is then recorded.
Restore(id) ==
  /\ phase = "probe" /\ probeIn = {} /\ id \in pending
  /\ ctx' = id /\ phase' = "build"
  /\ buildIn' = diskB[id] /\ probeIn' = diskP[id]
  /\ diskB' = [diskB EXCEPT ![id] = {}] /\ diskP' = [diskP EXCEPT ![id] = {}]
  /\ pending' = pending \ {id}
  /\ mem' = {} /\ spilledParts' = {}
  /\ exceeded' = ExceedSpillLevelLimit(Off(id))
  /\ UNCHANGED <<out, dup, spilledBytes>>

\* The probe input is exhausted and no spilled partition is left: the
\* join has produced its output.
Finish ==
  /\ phase = "probe" /\ probeIn = {} /\ pending = {}
  /\ phase' = "done"
  /\ UNCHANGED <<ctx, buildIn, mem, spilledParts, exceeded, probeIn, pending,
                 diskB, diskP, out, dup, spilledBytes>>

Next ==
  \/ \E r \in BuildRows : AddBuildInput(r) \/ SpillBuildInput(r)
  \/ \E S \in SUBSET Parts : Reclaim(S)
  \/ FinishBuild
  \/ \E p \in ProbeRows : ProbeInput(p) \/ SpillProbeInput(p)
  \/ SpillRefused
  \/ \E id \in Ids : Restore(id)
  \/ Finish

\* The driver runs whenever it has input, a table to finish or a spilled
\* partition to restore; reclaim is the arbitrator's and not assumed.
Spec == Init /\ [][Next]_vars
             /\ WF_vars(\E r \in BuildRows : AddBuildInput(r) \/ SpillBuildInput(r))
             /\ WF_vars(FinishBuild)
             /\ WF_vars(\E p \in ProbeRows : ProbeInput(p) \/ SpillProbeInput(p))
             /\ WF_vars(SpillRefused)
             /\ WF_vars(\E id \in Ids : Restore(id))
             /\ WF_vars(Finish)

-----------------------------------------------------------------------------
(* Properties.                                                             *)

\* However reclaims interleave with the input, at whichever levels the
\* partitions are spilled, restored or processed in place, no pair is
\* joined twice or joined without matching, and a join that finishes has
\* joined every matching pair: the reference query of exceededMaxSpillLevel
\* and noSpillLevelLimit.  It fails if a probe row is not routed to the
\* partition its build rows were spilled to, or a restored partition's
\* spiller inherits state from the one before.
JoinExact ==
  /\ ~dup
  /\ out \subseteq Reference
  /\ phase = "done" => out = Reference

\* No partition is spilled past maxSpillLevel, nor on hash bits beyond the
\* width: a spilled partition's bits end within W (noSpillLevelLimit stops
\* at level 3 with bits from 51 in threes), and with a limit its level is
\* at most maxSpillLevel (exceededMaxSpillLevel: with limit 0 the restored
\* partitions are processed in place and never reclaimed).
LevelBound ==
  \A id \in pending :
    /\ Off(id) <= W
    /\ MaxSpillLevel = -1 \/ Len(id) - 1 <= MaxSpillLevel

\* A row of a spilled partition is still to be read: the driver must write
\* it to that partition's file before its side of the join can finish.
SpillDue ==
  \/ phase = "build" /\ \E r \in buildIn : Part(r) \in spilledParts
  \/ phase = "probe" /\ \E p \in probeIn : Part(p) \in spilledParts

\* maxSpillBytes is enforced (the maxSpillBytes test's {16MB, true} case):
\* once the query's spilled total has crossed a positive limit, a query
\* that still has a row to spill ends failed with SpillLimitExceeded; it
\* cannot finish by spilling past the limit or by leaving the row behind.
\* Crossing the limit takes reclaims and spills at several levels.
LimitEnforced == (LimitExceeded /\ SpillDue) ~> (phase = "failed")

\* The recursion bottoms out: every run of the join finishes or fails,
\* even with no level limit, because the hash has finitely many bits.
Termination == <>(phase \in {"done", "failed"})

\* The join implements what the query promises its caller (JoinOutput):
\* each probe step emits matching pairs not emitted before, the join
\* finishes only with the whole reference result, a refused spill fails
\* the query, and under the driver's fairness every run ends.  Every phase
\* before "done" or "failed" is the query running.
Query == INSTANCE JoinOutput
           WITH Pairs <- Reference, out <- out,
                status <- IF phase \in {"done", "failed"} THEN phase ELSE "running"

QueryRefinement == Query!Spec

=============================================================================
