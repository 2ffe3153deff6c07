# TLA+ models of the Velox hash join, function registry and Spark CAST

This directory holds TLA+ models of the hash join of this repository, its
join-type semantics, the scalar function registry, and the Spark SQL CAST and
TRY_CAST special forms. They are
checked with TLC and, where possible, proved with TLAPS. The implementation of the
join (HashBuild, HashProbe, HashJoinBridge, Spiller) is not under `src/`. What
is under `src/` is the test suite that drives it, `src/velox/exec/tests/HashJoinTest.cpp`.
So every action is modelled from the design document (`spec.md`) and from
the behaviour those tests pin down. Each action's `map` entry in `PROJECT.json`
names the test that exercises it, or is marked `spec_modelled` where no test
line stands for it.

## The system

One hash join node runs as two pipelines of drivers:

* **Build drivers** (HashBuild). Each driver receives part of the build input
  in batches (`addInput`) and copies the rows into its own row container. When
  spilling is enabled, the memory arbitrator may *reclaim* from a driver. The
  driver's spiller then writes every partition holding rows to disk and empties
  the container. Later batches route the rows of spilled partitions straight to
  the spiller. A reclaim that arrives inside a non-reclaimable section (the
  allocation of an `addInput` batch, or waiting for the probe) spills nothing.
* **The last build driver** (the leader). It reaches `noMoreInput` after all
  its peers and runs `finishHashBuild`. It spills, on every peer, each partition
  that any peer spilled. It may spill more while making the table fit
  (`ensureTableFits`). It then builds one hash table from all the containers
  and publishes it, together with the set of spilled partitions, on the join
  bridge.
* **The join bridge**. It hands the table to the probe side. It also hands a
  request back to the build side when the probes need the next spilled
  partition.
* **Probe drivers** (HashProbe). They wait for the table, probe it, and wait
  for their peers. The last of them releases the table. It then either closes
  the bridge (nothing is left on disk) or asks the build side to restore the
  next spilled partition, which is built into a table and probed in turn.
* **Abort**. Task termination cancels the bridge. Every waiting driver then
  observes the error and finishes.

What the probe produces for each join type is a separate question. It is the
per-row logic of the probe: null keys, a residual filter in three-valued logic,
and null-aware semantics.

## Modules

| module | models | state and actions |
|---|---|---|
| `HashJoin` | build drivers, row containers, spiller, leader, bridge, probe drivers, abort | build state, pending input, the in-flight batch split into memory and spill parts, container rows, spilled partitions per driver, disk, leader flag, bridge, table, partitions to restore, rows served, probe state, abort flag. Actions: `AddInputBegin`/`AddInputEnd` (the two halves of `addInput`, with the reclaim window between them), `Reclaim`, `NoMoreInput` (with the leader's `SpillAll` reconciliation inside it), `LeaderReclaim` (ensureTableFits), `BuildTable`, `RestoreSpill`, `GetHashTable`, `ProbeFinish`, `Abort`, `BuildObserveAbort`, `ProbeObserveAbort` |
| `HashJoinProofs` | proofs about `HashJoin` | type correctness and spill consistency, with the strengthened invariant `SpillInv` (itself a theorem, `SpillInvariant`) |
| `JoinTypes` | probe output per join type, and the tests' DuckDB reference queries | constant inputs chosen by `Init`: two key sequences with NULLs and a filter-outcome table. The hash side (`Hash*`) follows spec §4.5. The reference side (`Ref*`) is the SQL of the tests in three-valued logic |
| `FunctionRegistry` | the scalar function registry (`FunctionRegistryTest.cpp`) | `simple[n]`: signature → implementation; `vector[n]`: a vector function's signature list and implementation, or None; `result`: what the last registration returned. `Init` is the fixture's registry (`registerTestFunctions` and the priority test's signatures). Actions: `RegisterSimple`, `RegisterVector` (each with overwrite), `RemoveFunction`, all on the name the coercion and overwrite tests use. Operators: `Put` (insert a signature into a name's map), `SanitizeName`, `GetFunctionSignatures`, `Binds`, `Rank`, `ResolveSimple`, `ResolveVector`, `ResolveFunction`, `ResolveWithCoercions` |
| `FunctionRegistryProofs` | proofs about `FunctionRegistry` | `TypeCorrect`, `OverwriteSafe` |
| `JoinBridge` | what the join bridge promises, with drivers and spill files left out | `state` (Building, Published, Closed, Cancelled), `current` (the published table), `done` (rows of released tables). Actions: `Publish(T)`, `Release`, `Cancel` |
| `HashJoinBridgeProofs` | proofs about `HashJoin` against `JoinBridge` | the row-tracking invariant `BridgeInv`; `BridgeInvariance`, `TableConsistency`, `RefinesBridgeSafety` |
| `SparkCast` | `SparkCastExpr.cpp`: both `constructSpecialForm` functions, and evaluation of the expression they build | `call` (the `compiledChildren` passed), `children` (the caller's vector afterwards), `expr` (the `SparkCastExpr`: child, `trackCpuUsage`, `isTryCast`, the hooks' `allowOverflow`), `err`, `form`, `rows` and `out` (the last evaluated batch and its results). Actions: `CompileCast`, `CompileTryCast` (each `Rejected` by the arity check or `Accepted`), `Evaluate` |
| `SparkCastProofs` | proofs about `SparkCast` for every target width | |
| `SpillLevels` | one driver's recursive spilling (spec §4.3, §4.5; the `exceededMaxSpillLevel`, `noSpillLevelLimit`, `spillFileSize` and `maxSpillBytes` tests) | `ctx` (the partition being processed, a sequence of partition numbers; `<<>>` is the whole input), `phase`, `buildIn`/`probeIn` (its remaining input), `mem` (the table), `spilledParts` (its spiller's spilled partitions), `exceeded` (`exceededMaxSpillLevelLimit_`), `pending`, `diskB`/`diskP` (spilled partitions and their rows), `out`, `dup`, `spilledBytes`. Actions: `AddBuildInput`, `SpillBuildInput`, `Reclaim(S)`, `FinishBuild`, `ProbeInput`, `SpillProbeInput`, `SpillRefused`, `Restore(id)`, `Finish` |
| `SpillLevelsProofs` | proofs about `SpillLevels` for every width, start bit, bit count and limit | the level invariant `LInv`; `LevelInvariant`, `LevelBounded` |
| `JoinTypesProofs` | proofs about `JoinTypes` for every key set and every input | `OuterJoinsCorrect`, `SemiAntiCorrect`, `NullAwareCorrect` |
| `SpillJoinProofs` | proofs about `SpillLevels` for every width, bit count, limits, rows, keys and hashes | the join invariant `JInv`; `JoinInvariant`, `JoinExactness`, `TypeCorrect`, `RefinesQuerySafety` |
| `JoinOutput` | what a join query promises its caller, with partitions, levels and spill files left out | `status` (running, done, failed), `out` (pairs emitted). Actions: `Emit(P)` (new matching pairs), `Complete` (only with every matching pair), `Fail` |
| `HashJoinRowsProofs` | proofs about `HashJoin` on top of `BridgeInv` | `PlacesDisjoint`, `ClosedDone`; `DisjointPlaces`, `ClosedAfterDone`, `RowsConservation`, `CompleteClean`, `NoDoubleJoin` |
| `MCHashJoin`, `MCHashJoinIInv`, `MCHashJoinBridgeInv`, `MCJoinTypes`, `MCFunctionRegistry`, `MCSparkCast`, `MCSparkCastIInv`, `MCSpillLevels`, `MCSpillLevelsLInv` | model-checking instances | |

A build row is a model value with an owner driver (`Owner`) and a spill
partition (`PartOf`). Bytes, hash bits and spill files are abstracted away:
a container and the disk are sets of rows, and the spiller's state is a set
of partitions.

`SpillLevels` puts the hash bits back, for one driver. A row's key has a
hash of `W` bits. The spiller of partition `ctx` partitions on bits
`[Off(ctx), Off(ctx) + NumBits)`, where `Off(ctx) = StartBit + Len(ctx) *
NumBits`. A restored partition is processed in place, and its operator
refuses reclaim, when `exceedSpillLevelLimit` holds: its spiller's bits
would run past the width, or its level would pass `maxSpillLevel`.
`HashBuild`, `HashProbe` and `Spiller` are not under `src/`, so the module
is written from spec §4.3 and §4.5. Where a test fixes a behaviour, the map
names the test:
* `noSpillLevelLimit` stops at level 3 with bits from 51 in threes;
* `exceededMaxSpillLevel` records the limit on restore and asserts that no
  reclaim reaches an operator past the limit;
* `spillFileSize` spills as many probe partitions as build partitions;
* `maxSpillBytes` has limit 0 meaning no limit.

A reclaim spills a chosen set of partitions, all of them or only some, with
their rows in the container. Later rows of those partitions follow them to
disk. Bytes are counted in rows.

## Runs

* `hashjoin_core` (`MCHashJoin.cfg`) uses 2 build drivers, 2 probe drivers,
  5 rows and 2 partitions. Builder b1 owns r1, r2 and r3; r1, r2 and r4 are in
  q1. Every driver then has rows in both partitions, so one driver can spill a
  partition that a peer still holds in memory, and a batch can mix spilled and
  unspilled partitions. The run has 18,372 distinct states. It checks these
  properties:
  * `RowsConserved`: every row is in exactly one place, held only by its owner.
  * `SpillConsistent`: no container holds a row of a partition its driver spilled.
  * `TableConsistent`: a published table and the disk split the rows along the
    partitions still to restore.
  * `CompleteAndClean`: when the probes finish, every row has been served and
    the disk is empty.
  * `NoRowJoinedTwice`: an action property over consecutive publications.
  * `Termination`: liveness, under the fairness below.
* `hashjoin_spill_inductive` checks `SpillInv`, the invariant that the proof
  of `SpillConsistency` rests on, on the same instance.
* `jointypes` ranges over every probe and build input of up to 2 rows, over
  keys {1, 2} and NULL, and over every TRUE/FALSE/NULL filter table. On each
  input it checks that every join type equals its reference query:
  `OuterJoinsMatch`, `SemiAntiMatch` and `NullAwareJoinsMatch`. Two rows a side
  are enough for a NULL and a non-NULL key on the same side, duplicate keys,
  and an empty side.
* `registry` (`MCFunctionRegistry.cfg`) starts from the fixture. It explores
  every sequence of the registrations and removals the tests make on `foo`:
  * the four binary simple signatures and the two vector signature lists;
  * two implementations;
  * with and without overwrite;
  * in two spellings of the name.

  That gives 3,890 states. It checks these properties:
  * `PriorityMatchesTests`: signature listing and exact resolution give what
    the fixture tests assert. The cases cover wrong names and types, variadic
    arity 0..2, mixed-case names, vector functions, and the
    priority order among five signatures that bind.
  * `CoercionMatchesTests`: in the two registry states of
    `resolveFunctionWithCoercions`, the expected cheapest coercions are chosen.
    The tests register "foo" with simple signatures or with a vector
    signature list, never both, so `ResolveWithCoercions` assumes no order
    between the two maps: in a mixed registry every cheapest signature of
    either map is a possible outcome, and no property is stated about such
    registries.
  * `OverwriteRespected`, an action property about
    `FunctionRegistryOverwriteTest`, which registers foo, is refused, then
    overwrites. After a refused registration (overwrite false on a
    registered signature), every two-argument call of `foo` runs the same
    implementation as before. After an accepted one, a call with exactly the
    registered argument types runs the new implementation. A history variable
    `last` records the last simple registration for this property. The
    mutant reports the refusal but writes the entry anyway.
* `hashjoin_refines_bridge` (`MCHashJoinBridge.cfg`) checks on the same
  instance that the join implements `JoinBridge`. The refinement mapping is:
  * the abstract `state` is the bridge;
  * the abstract `current` is the table;
  * the abstract `done` is `served \ table`, the rows of the tables the
    probe side has released.

  `BridgeRefinement` is the abstract `Spec`, fairness included, checked as
  a temporal property. Every publication is a `Publish` of rows not yet
  released, the last probe's release is a `Release`, and an abort is a
  `Cancel`. All other steps leave the three mapped values unchanged. The
  bridge may close only after every build row has been joined, and under the
  drivers' fairness every table is published and released. The mutant whose
  last probe closes the bridge with partitions still on disk breaks it.
* `hashjoin_bridge_inductive` checks `BridgeInv`, the invariant that the
  proofs in `HashJoinBridgeProofs` rest on, and the two invariants that
  `HashJoinRowsProofs` adds to it: `PlacesDisjoint` and `ClosedDone`.
  A leader reconciliation that writes rows to disk without erasing them
  breaks `PlacesDisjoint`. A last probe that closes the bridge with
  partitions still on disk breaks `ClosedDone`.
* `sparkcast` (`MCSparkCast.cfg`) uses a TINYINT target (`Half = 128`) and two
  compiled children. It explores every sequence of CAST and TRY_CAST calls
  with 0, 1 or 2 children, each followed by evaluations on batches of one or
  two rows. A row is an integral value among -300, -129, -128, 0, 127, 128,
  255 and 300, or a string that does not parse. Those values lie at both ends
  of the range, one past each end, and far enough out to wrap more than once.
  The run has 7,091 states. It checks these properties:
  * `CastTotal`: no row fails, and every result is NULL or in the target
    range. This is what `isTryCast = true` buys.
  * `OverflowOnlyDifference`: the code's comment that CAST and TRY_CAST
    differ only on overflow. On every evaluated row the two constructors'
    expressions agree, except that an overflowing value wraps under CAST
    and is NULL under TRY_CAST.
  * `SingleChildMoved`: an expression exists only after a call with exactly
    one child. It holds that child, and the caller's slot has been moved
    from. A rejected call throws `VeloxRuntimeError` and leaves the children
    alone.

  The mutants are:
  * a CAST built like Velox's non-try cast;
  * TRY_CAST hooks copied from CAST's;
  * an arity check that accepts two children;
  * the check written as a user-error check.
* `sparkcast_inductive` checks the invariant of `SparkCastProofs`.
* `spill_levels_limited` and `spill_levels_unlimited` (`MCSpillLevels`)
  use a 4-bit hash split one bit at a time from bit 1, so that the width
  allows levels 0 to 2. There are four build rows and two probe rows. Keys
  `k1` and `k2` collide on every bit, `k4` separates at level 0 and `k3`
  separates from `k1` only at level 2. Reclaims come at any point of any
  partition's build input.
  * The limited run has `maxSpillLevel = 1`, so the level limit stops the
    recursion before the width does. It also has a limit of 6 spilled rows,
    which some runs cross at level 1 and then fail. It has 508 states.
  * The unlimited run has `maxSpillLevel = -1` and `maxSpillBytes = 0`, and
    recurses to the width. It has 39,530 states.

  The runs check these properties:
  * `JoinExact`: no pair is joined twice or without matching, and a finished
    join has the reference query's pairs.
  * `LevelBound`: no partition is spilled past the level limit or on bits
    beyond the width.
  * `LimitEnforced` (limited run): once the spilled total has crossed a
    positive limit, a query with a row of a spilled partition still to read
    ends failed with SpillLimitExceeded. It cannot finish by writing the row
    past the limit or by leaving it behind. Crossing the limit takes spills
    at two levels. The mutant spills probe input without the limit check.
  * `Termination`: the recursion ends even with no level limit.
* `spill_levels_limited` also checks that recursive spilling implements
  `JoinOutput`. The mapping keeps `out` and collapses `phase` to running,
  done or failed. `QueryRefinement` is the abstract `Spec`, fairness
  included: every probe step emits only new matching pairs, the join
  completes only with the whole reference result, a refused spill is a
  failure, and every run ends. The mutant keeps a restored partition
  pending, so the driver restores it again forever.

  The mutants are:
  * a probe that joins rows of spilled partitions with the table;
  * a reclaim that ignores `exceeded`;
  * the width test dropped, or off by one;
  * a restored partition that inherits the old spilled set, or stays pending;
  * probe input spilled without the spill limit check.
* `spill_levels_inductive` checks the invariants of `SpillLevelsProofs`
  (`LInv`) and of `SpillJoinProofs` (`JInv`) on the limited instance. A
  probe that joins rows of spilled partitions with the table breaks `JInv`.
  `JInv` was also checked on the unlimited instance (39,530 states); the
  proof covers every instance.
* `jointypes_spec_null_anti` is a violation run. Spec §4.5 says a probe-side
  NULL makes the whole null-aware anti join empty. The tests (for example
  `nullAwareAntiJoinWithNull`, line 338) compare it with `NOT IN`. That keeps
  a NULL-key probe row when the filtered build side is empty, and keeps the
  unmatched non-NULL rows when no build key is NULL. TLC finds the violation
  with probe `<<NULL>>` and an empty build side. This is recorded as a
  finding. spec.md's own example 4 (line 390) agrees with `NOT IN`.

Each property of a passing run has a mutant in `PROJECT.json`, a plausible
bug in the modelled code that TLC catches. Examples:
* a reclaim allowed while a batch is in flight;
* a leader that does not reconcile the peers' spilled partitions;
* a last probe that closes the bridge with partitions on disk;
* a NULL filter outcome treated as a pass.

### Fairness

Weak fairness is assumed on every driver step except `Reclaim`,
`LeaderReclaim` and `Abort`:
* A driver that is runnable is run by the executor until it blocks.
* A blocked driver is woken by the bridge's or the barrier's future when the
  condition it waits on holds.
* Reclaim and abort are external events that need never happen, so they get
  no fairness.

Deadlock checking is off because the join really does stop when every driver
has finished. `Termination` is what catches a driver left waiting.

`SpillLevels` assumes weak fairness on each step of its one driver: input,
finishing the build, probing, restoring, finishing, and failing on a refused
spill. `Reclaim` is the arbitrator's and gets none. Its runs also turn
deadlock checking off, because "done" and "failed" are final. `Termination`
catches a driver that stops elsewhere.

## Proofs (TLAPS)

`HashJoinProofs` proves the following for all values of the constants that
satisfy the named assumptions of `HashJoin`:

* `TypeCorrect`: `Spec => []TypeOK`. It follows from `InitTypeOK` and
  `TypeStep`, which has one step per action. `UnionTypes` bounds the unions
  of the containers and of the spilled sets.
* `SpillConsistency`: `Spec => []SpillConsistent`. `SpillConsistent` is not
  inductive by itself. A `Reclaim` adds partitions to `spilled[d]` and is safe
  only because no batch is in flight, and `NoMoreInput`'s `SpillAll` is safe
  only because the batch is empty. The inductive invariant `SpillInv` adds
  three things:
  * `TypeOK`;
  * `BatchOnlyWhenRunning`: a batch is in flight only while its driver is
    Running;
  * `LeaderWaits`: the leader exists only when every builder waits for its
    peers, so `LeaderReclaim` touches no in-flight batch.

  TLC checks it first (run `hashjoin_spill_inductive`). The proof then shows
  `Init => SpillInv`, `SpillInv /\ [Next]_vars => SpillInv'` (lemma
  `SpillStep`, one step per action) and `SpillInv => SpillConsistent`.
* `SpillInvariant`: `Spec => []SpillInv`, from `InitSpillInv` and
  `SpillStep`. The two facts `SpillInv` adds are themselves claims about
  the barrier: addInput is never interleaved with the leader's reconciliation.

`SparkCastProofs` proves the following for every `Half > 0` (every width
of the target type), every set of input values and every set of children:
* `Invariance` (`IInv`, the inductive invariant below);
* `TypeCorrect`;
* `CastTotality` (`CastTotal`);
* `OverflowOnly` (`OverflowOnlyDifference`);
* `ChildMoved` (`SingleChildMoved`).

They rest on the inductive invariant `IInv`. It strengthens the properties
with three facts:
* the current expression is exactly what its form's constructor built from
  the one child of the last call;
* the results are that expression's on the last batch;
* the lemmas `WrapInRange` (the wrap-around lands in `-Half .. Half - 1`,
  proved with modular arithmetic by SMT), `EvalTryTotal` and
  `AgreementHolds`.

`HashJoinBridgeProofs` proves three theorems:
* `BridgeInvariance`: `Spec => []BridgeInv`.
* `TableConsistency`: `Spec => []TableConsistent`.
* `RefinesBridgeSafety`: `Spec => Bridge!Init /\ [][Bridge!Next]_Bridge!vars`,
  the safety part of `BridgeRefinement`.

Both rest on `BridgeInv`, which `hashjoin_bridge_inductive` checks first. It
adds these conjuncts to `SpillInv`:
* Row ownership: a driver holds only its own rows.
* Spill routing: a batch's spill half is in spilled partitions, and every row
  on disk is in a partition its owner spilled.
* Phase facts: before the build nothing is served, and the bridge is
  building; a published table or a running probe implies the build is over.
* `CancelledIffAborted`.
* `DiskUnserved`: no row is both on disk and served.
* `NothingLost`: no row is lost, and each is held, on disk or served.
* `Reconciled`: the leader's containers hold no row of a spilled partition.
* `RestoreComplete`: after the build, every row is served or waits on disk
  in a partition still to restore.

The key lemma `MemOffDisk` puts these together: no container row is on
disk, because `SpillConsistent` keeps container rows out of spilled
partitions and every disk row is in one. The step proof `BridgeStep` has one
step per action. Under it there is one step for each conjunct the action can
disturb, and one for the rest. `RefinementStep` then maps each action:
* `BuildTable` and `RestoreSpill` to `Publish`;
* the last `ProbeFinish` to `Release`;
* `Abort` to `Cancel`;
* every other step to a stutter.

`SpillLevelsProofs` proves these theorems for every hash width, start bit,
number of partition bits and limit allowed by the named assumptions of
`SpillLevels`:
* `LevelBounded`: `Spec => []LevelBound`.
* `LevelInvariant`: `Spec => []LInv`.

`LevelBound` alone is not inductive. A reclaim spills the children of
`ctx`, so the invariant `LInv` adds `RoomBelow`: a ctx that may still be
reclaimed has room for one more level within both the width and the limit.
A restore re-establishes `RoomBelow` through the `exceedSpillLevelLimit`
check that it records in `exceeded`. `LevelFromOffset` recovers a
partition's level from its first bit. It is a fact of nonlinear
arithmetic, proved by SMT. `FailStep` shows that only a refused spill makes
a query fail, and that no step leaves "failed".

`HashJoinRowsProofs` proves two more theorems about `HashJoin` for every
number of drivers, rows and partitions:
* `RowsConservation`: `Spec => []RowsConserved`. `NothingLost` (in
  `BridgeInv`) gives each row at least one place. `PlacesDisjoint` gives
  it at most one: the six places of a row (pending, the two halves of a
  batch, the container, disk, served) are pairwise disjoint. Every action
  moves rows from one place to another. Across drivers the places are
  apart because each driver holds only its own rows (`HeldApart`). The
  count of the set of places that hold a row is then 1 (`FS_Singleton`).
* `CompleteClean`: `Spec => []CompleteAndClean`. The invariant
  `ClosedDone` adds two facts. Without an abort, a finished probe means a
  closed bridge. A closed bridge has nothing left to restore, and the
  build is over. Only the last `ProbeFinish` on a table with nothing to
  restore closes the bridge. That table was published after the build
  (`PublishedAfterBuild`). No build, restore or probe step runs on a
  closed bridge. `RestoreComplete` then gives `served = Rows` and
  `disk = {}`.

Both rest on `RowsInv == BridgeInv /\ PlacesDisjoint /\ ClosedDone`, which
`hashjoin_bridge_inductive` checks. The two new conjuncts are theorems of
their own: `DisjointPlaces` (`Spec => []PlacesDisjoint`) and
`ClosedAfterDone` (`Spec => []ClosedDone`).

The same module proves the action property `NoRowJoinedTwice` as
`NoDoubleJoin`, from `BridgeInv` alone (lemma `PublishFresh`). Only
`BuildTable` and `RestoreSpill` newly publish a table. The build runs
before anything is served (`BuildPhase`). A restore reads rows from disk,
and disk holds no served row (`DiskUnserved`). A `ProbeFinish` runs only
on a published bridge (`ProbingPublished`), so it never newly publishes.

`SpillJoinProofs` proves two theorems about `SpillLevels` for every
width, start bit, bit count, level and byte limit, set of rows, keys and
hash function:
* `JoinExactness`: `Spec => []JoinExact`.
* `TypeCorrect`: `Spec => []TypeOK`.
* `JoinInvariant`: `Spec => []JInv`.
* `RefinesQuerySafety`: `Spec => Query!Init /\ [][Query!Next]_Query!vars`,
  the safety part of `QueryRefinement`.

`JoinExact` is not inductive, because a probe row joins only the build
rows that are in the table when it is probed. The invariant `JInv` adds
`TypeOK`, `LInv` and three groups of facts:
* `SpillRouting` says where the rows of the current partition may be:
  * every spilled partition is pending;
  * a partition that is not pending has no probe rows on disk;
  * the table holds no row of a spilled partition;
  * only a reclaimable partition has spilled partitions.
* `ProbeOnce` says each probe row is in one place until it is probed:
  * it is in the input or on one pending file;
  * a joined pair's probe row has been probed.
* `PairsTogether` says where the build row of each matching pair is:
  * while the probe row is input, the build row is still to come, in the
    table, or spilled to the partition the probe row will follow (rows
    with equal keys have equal partition bits, `SameKeySamePart`);
  * a probe row on disk has its build rows beside it;
  * a probed row has been joined with them.

`ChildInIds` shows that the child of a partition with room in the hash is
a partition id. It rests on `FieldsFit`, a nonlinear fact proved by SMT.
The proof needs `RowsAssumption`, that the build input is finite, to count
a reclaim's spilled rows. There is one step lemma per action
(`AddBuildStep` ... `RestoreStep`), and under each there is one step per
conjunct group. `Restore` is the heart of the proof: the restored file's
probe rows are on no other file, and its build rows are beside them, so
they become input together.

`QueryStep` maps each step between two `JInv` states to the query's
promise. A `ProbeInput` whose row has matches is `Emit` of those matches:
they are matching pairs and were not emitted before, because `JInv'` keeps
`out` within `Reference` and `dup` false. `Finish` is `Complete`, because
`JoinExact` gives `out = Reference` once the phase is done. `SpillRefused`
is `Fail`. Every other step leaves `out` and the mapped status alone.

`JoinTypesProofs` proves that the join-type equivalences hold for every
set of key values, every bound on the rows, every pair of inputs and every
filter outcome table. The run enumerates only two rows and two keys.
* `OuterJoinsCorrect`: `Spec => []OuterJoinsMatch`.
* `SemiAntiCorrect`: `Spec => []SemiAntiMatch`.
* `NullAwareCorrect`: `Spec => []NullAwareJoinsMatch`.

`JoinTypes` has no steps: `Next` leaves the inputs alone. So each theorem
is a fact about the operators on any input that `Init` allows. The key
lemma is `OnIffHit`: SQL's `t.k = u.k AND filter` is TRUE exactly for the
pairs the probe finds (`Hit`), because `Eq3` is never TRUE on a NULL key
(`Eq3Cases`). It gives the inner, outer, semi and anti joins.
`RefInIsMatch` and `RightInIsMatch` handle the null-aware joins. The set
of comparison outcomes of `IN` contains TRUE exactly on a hit, and NULL
exactly when the probe's `Unknown` (or `RightUnknown`) holds, so `AnyOf3`
of it is the probe's three-valued match. Two filters of `JoinTypes` were
written as `{<<i, j>> \in PI \X BI : ...}`. tlapm does not parse that
tuple pattern, so they are now written with a bound pair `pr`, which
means the same.

The following are only model-checked:
* `Termination`, `LimitEnforced` and the fairness halves of `BridgeRefinement` and
  `QueryRefinement`, because liveness and ENABLED are beyond the prover;
* the registry's resolution properties (`PriorityMatchesTests`,
  `CoercionMatchesTests`). They are facts about one
  concrete fixture: its names, signatures, priorities and widening table,
  on the finitely many registries the tests' calls reach. TLC decides them
  on every one of those states, and a proof would only enumerate the same
  cases of string-valued types.

`FunctionRegistryProofs` proves two theorems about `FunctionRegistry`, on
every registry that the registrations and removals on `foo` reach from the
fixture:
* `TypeCorrect`: `Spec => []TypeOK`. `FixtureTypes` and `FooVectorTypes`
  show that the fixture and the test's vector lists use only known
  signatures, with non-empty lists (`TupleSeq`).
* `OverwriteSafe`: `Spec => OverwriteRespected`, the action property of
  `FunctionRegistryOverwriteTest`. The invariant `FooInv` says that `foo`'s
  simple functions are always a map from some of the test's binary
  signatures to its two implementations. A refused registration changes
  neither map, so every call runs what it ran before. An accepted one puts
  `Binary(t)` into that map. `BindsBinary` shows that among binary
  signatures only `Binary(t)` binds the call `<<t, t>>`, because none of
  them has a `T` or `any` parameter. `RankInt` makes its priority a number,
  so it is the best-ranked one, and the call runs the new implementation
  (`RunsRegistered`). Every other step records no registration.
  `NoneAssumption` (None is no registration record) rules those steps out.

For these proofs the fixture's maps are written with function
constructors, `CASE` and `Put` instead of TLC's `:>` and `@@`, which the
prover cannot expand. The values are the same, and the run reaches the
same 3,890 states.

## Not modelled (yet)

* Spill levels and `maxSpillBytes` with several drivers. `SpillLevels` has
  one driver, as `exceededMaxSpillLevel` does, and does not model spill
  files or their sizes. The `spillPartitionBitsOverlap` check compares the
  start bit with bits the hash table itself uses, and that code is not
  under `src/`.
* Probe-side spilling (`probeSpillOnWaitForPeers`, `hashProbeSpill*`).
* Dynamic filters pushed into the probe scan (`dynamicFilters*`).
* Output batching, lazy vectors and memory accounting in bytes.
* In `FunctionRegistryTest.cpp`, the following are not modelled:
  * function metadata (determinism, companion functions);
  * special forms and the row constructor;
  * signatures over map and array type constructors with type variables;
  * custom types.

  The implementations of name sanitizing, the priority order and the coercion
  costs are not under `src/`. They are written so that they reproduce what
  the tests assert, and are marked `spec_modelled` in the map.
* In `SparkCastExpr.cpp`, the `QueryConfig` and the target `TypePtr` are
  passed through unchanged and are abstracted to one target range. `CastExpr`
  and `SparkCastHooks` are not under `src/`. The evaluation `Eval` is written
  from the constructors' comment and covers integral narrowing and
  unparsable strings. The casts of out-of-range strings, of decimals, of
  timestamps and of other types are not modelled.

These are the plan for the next modules. Each will get a module, a run aimed
at the hazards listed in `PROJECT.json`, and proofs where the invariants allow.
