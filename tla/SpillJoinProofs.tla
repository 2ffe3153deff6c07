-------------------------- MODULE SpillJoinProofs --------------------------
(***************************************************************************)
(* Proof that recursive spilling joins every matching pair exactly once   *)
(* (JoinExact), and that the spill state keeps its type (TypeOK), for     *)
(* every width, start bit, number of partition bits, limits, rows, keys   *)
(* and hashes.                                                            *)
(***************************************************************************)
EXTENDS SpillLevelsProofs, FiniteSetTheorems, SequenceTheorems

\* A probe row waits on disk in a spilled partition not yet restored.
OnPendingDisk(p) == \E id \in pending : p \in diskP[id]

\* A probe row has been probed: it is neither input of ctx nor on disk.
Consumed(p) == p \notin probeIn /\ ~OnPendingDisk(p)

\* Where the rows of the current partition ctx may be.
SpillRouting ==
  /\ spilledParts # {} => ~exceeded
  /\ \A q \in spilledParts : Append(ctx, q) \in pending
  /\ \A id \in Ids \ pending : diskP[id] = {}
  /\ \A b \in mem : Part(b) \notin spilledParts
  /\ phase = "probe" => buildIn = {}
  /\ phase = "done" => probeIn = {} /\ pending = {}

\* Every probe row is in exactly one place until it is probed, and a pair
\* is joined only once its probe row has been probed.
ProbeOnce ==
  /\ \A p \in probeIn : ~OnPendingDisk(p)
  /\ \A id1, id2 \in pending : id1 # id2 => diskP[id1] \cap diskP[id2] = {}
  /\ \A pr \in out : Consumed(pr[2])

\* A matching pair stays together: while its probe row is input of ctx its
\* build row is still to come, in the table, or spilled to the partition
\* the probe row will be spilled to; a probe row on disk has its build rows
\* beside it; and a probed row has been joined with them.
PairsTogether ==
  \A pr \in Reference :
    LET b == pr[1]
        p == pr[2]
    IN  /\ p \in probeIn /\ phase \in {"build", "probe"} =>
             \/ phase = "build" /\ b \in buildIn
             \/ b \in mem
             \/ Part(b) \in spilledParts /\ b \in diskB[Child(b)]
        /\ \A id \in pending : p \in diskP[id] => b \in diskB[id]
        /\ Consumed(p) => pr \in out

\* JoinExact is not inductive: a probe row joins only what is in the table
\* when it is probed, so the invariant must say where each matching build
\* row is while its probe row waits, and that the level invariant LInv
\* keeps every spilled partition a partition id.
JInv ==
  /\ TypeOK
  /\ LInv
  /\ SpillRouting
  /\ ProbeOnce
  /\ PairsTogether
  /\ JoinExact

-----------------------------------------------------------------------------
(* Lemmas about the partition ids.                                        *)

\* A whole number of NumBits-bit fields that fits in x bits is at most
\* x \div NumBits.
LEMMA FieldsFit ==
  ASSUME NEW m \in Nat, NEW x \in Nat, m * NumBits <= x
  PROVE  m <= x \div NumBits
BY NumBitsAssumption, SMT

\* The child of a partition whose spiller partitions within the hash
\* width is a partition id.
LEMMA ChildInIds ==
  ASSUME NEW c \in Seq(Parts), NEW q \in Parts, Off(c) + NumBits <= W
  PROVE  Append(c, q) \in Ids
<1>1. Append(c, q) \in [1 .. Len(c) + 1 -> Parts]
  <2>1. Append(c, q) \in Seq(Parts) /\ Len(Append(c, q)) = Len(c) + 1
    BY AppendProperties
  <2>. QED  BY <2>1, LenProperties
<1>2. (Len(c) + 1) * NumBits <= W - StartBit
  <2>1. Len(c) \in Nat
    BY LenProperties
  <2>2. (Len(c) + 1) * NumBits = Len(c) * NumBits + NumBits
    BY <2>1, NumBitsAssumption
  <2>3. Off(c) = StartBit + Len(c) * NumBits
    BY DEF Off
  <2>. QED  BY <2>1, <2>2, <2>3, NumBitsAssumption, StartBitAssumption,
               WidthAssumption
<1>3. Len(c) + 1 \in Nat /\ W - StartBit \in Nat
  BY LenProperties, StartBitAssumption, WidthAssumption, NumBitsAssumption
<1>4. Len(c) + 1 <= (W - StartBit) \div NumBits
  BY <1>2, <1>3, FieldsFit
<1>5. Len(c) + 1 \in 1 .. MaxDepth
  BY <1>3, <1>4, NumBitsAssumption DEF MaxDepth
<1>. QED  BY <1>1, <1>5 DEF Ids

\* Initially every probe row is input and nothing is spilled or joined.
LEMMA InitJInv == Init => JInv
<1> SUFFICES ASSUME Init PROVE JInv
  OBVIOUS
<1>1. LInv
  BY InitLInv
<1>2. TypeOK
  <2>1. <<>> \in Ids \cup {<<>>} /\ 0 \in Nat
    OBVIOUS
  <2>. QED  BY <2>1 DEF Init, TypeOK
<1>3. SpillRouting /\ ProbeOnce
  BY DEF Init, SpillRouting, ProbeOnce, OnPendingDisk, Consumed
<1>4. PairsTogether
  BY DEF Init, PairsTogether, Reference, OnPendingDisk, Consumed
<1>5. JoinExact
  BY DEF Init, JoinExact
<1>. QED  BY <1>1, <1>2, <1>3, <1>4, <1>5 DEF JInv

-----------------------------------------------------------------------------
(* One lemma per action: each keeps JInv.                                 *)

\* A step that keeps ctx keeps every row's partition and child.
LEMMA SameCtx ==
  ASSUME ctx' = ctx
  PROVE  \A x : Part(x)' = Part(x) /\ Child(x)' = Child(x)
BY DEF Part, Child, Off

\* Adding a build row moves it from the input to the table.
LEMMA AddBuildStep ==
  ASSUME JInv, NEW r \in BuildRows, AddBuildInput(r)
  PROVE  JInv'
<1>1. LInv'
  BY LInvStep DEF JInv, Next
<1>2. \A x : Part(x)' = Part(x) /\ Child(x)' = Child(x)
  BY SameCtx DEF AddBuildInput
<1>3. TypeOK'
  BY DEF JInv, TypeOK, AddBuildInput, probeVars
<1>4. SpillRouting'
  BY <1>2 DEF JInv, SpillRouting, AddBuildInput, probeVars
<1>5. ProbeOnce'
  BY DEF JInv, ProbeOnce, OnPendingDisk, Consumed, AddBuildInput, probeVars
<1>6. PairsTogether'
  BY <1>2 DEF JInv, PairsTogether, OnPendingDisk, Consumed, AddBuildInput,
              probeVars
<1>7. JoinExact'
  BY DEF JInv, JoinExact, AddBuildInput, probeVars
<1>. QED  BY <1>1, <1>3, <1>4, <1>5, <1>6, <1>7 DEF JInv

\* Spilling a build row of a spilled partition appends it to the file of
\* that partition, which is where its probe rows will go.
LEMMA SpillBuildStep ==
  ASSUME JInv, NEW r \in BuildRows, SpillBuildInput(r)
  PROVE  JInv'
<1>1. LInv'
  BY LInvStep DEF JInv, Next
<1>2. \A x : Part(x)' = Part(x) /\ Child(x)' = Child(x)
  BY SameCtx DEF SpillBuildInput
<1>3. \A id \in Ids : diskB[id] \subseteq diskB'[id]
  BY DEF SpillBuildInput
<1>4. TypeOK'
  BY DEF JInv, TypeOK, SpillBuildInput, probeVars
<1>5. SpillRouting'
  BY <1>2 DEF JInv, SpillRouting, SpillBuildInput, probeVars
<1>6. ProbeOnce'
  BY DEF JInv, ProbeOnce, OnPendingDisk, Consumed, SpillBuildInput,
         probeVars
<1>7. PairsTogether'
  <2>1. r \in diskB'[Child(r)]
    <3>1. Child(r) \in pending
      BY DEF JInv, SpillRouting, SpillBuildInput, Child
    <3>2. Child(r) \in Ids
      BY <3>1 DEF JInv, TypeOK
    <3>. QED  BY <3>2 DEF SpillBuildInput
  <2>2. pending \subseteq Ids
    BY DEF JInv, TypeOK
  <2>3. \A b \in BuildRows : Part(b) \in spilledParts => Child(b) \in Ids
    BY <2>2 DEF JInv, SpillRouting, Child
  <2>. SUFFICES ASSUME NEW pr \in Reference
                PROVE  /\ pr[2] \in probeIn' /\ phase' \in {"build", "probe"} =>
                          \/ phase' = "build" /\ pr[1] \in buildIn'
                          \/ pr[1] \in mem'
                          \/ Part(pr[1])' \in spilledParts'
                             /\ pr[1] \in diskB'[Child(pr[1])']
                       /\ \A id \in pending' : pr[2] \in diskP'[id] => pr[1] \in diskB'[id]
                       /\ Consumed(pr[2])' => pr \in out'
    BY DEF PairsTogether
  <2>4. pr[1] \in BuildRows
    BY DEF Reference
  <2>5. CASE pr[1] = r
    BY <1>2, <1>3, <2>1, <2>2, <2>5
    DEF JInv, PairsTogether, OnPendingDisk, Consumed, SpillBuildInput,
        probeVars
  <2>6. CASE pr[1] # r
    BY <1>2, <1>3, <2>2, <2>3, <2>4, <2>6
    DEF JInv, PairsTogether, OnPendingDisk, Consumed, SpillBuildInput,
        probeVars
  <2>. QED  BY <2>5, <2>6
<1>8. JoinExact'
  BY DEF JInv, JoinExact, SpillBuildInput, probeVars
<1>. QED  BY <1>1, <1>4, <1>5, <1>6, <1>7, <1>8 DEF JInv

\* Finishing the build starts the probe with the whole build input placed.
LEMMA FinishBuildStep ==
  ASSUME JInv, FinishBuild
  PROVE  JInv'
<1>1. LInv'
  BY LInvStep DEF JInv, Next
<1>2. \A x : Part(x)' = Part(x) /\ Child(x)' = Child(x)
  BY SameCtx DEF FinishBuild
<1>3. TypeOK' /\ SpillRouting' /\ ProbeOnce'
  BY <1>2 DEF JInv, TypeOK, SpillRouting, ProbeOnce, OnPendingDisk,
              Consumed, FinishBuild, probeVars
<1>4. PairsTogether'
  BY <1>2 DEF JInv, PairsTogether, OnPendingDisk, Consumed, FinishBuild,
              probeVars
<1>5. JoinExact'
  BY DEF JInv, JoinExact, FinishBuild, probeVars
<1>. QED  BY <1>1, <1>3, <1>4, <1>5 DEF JInv

\* A refused spill ends the query with nothing joined that did not match.
LEMMA SpillRefusedStep ==
  ASSUME JInv, SpillRefused
  PROVE  JInv'
<1>1. LInv'
  BY LInvStep DEF JInv, Next
<1>2. \A x : Part(x)' = Part(x) /\ Child(x)' = Child(x)
  BY SameCtx DEF SpillRefused
<1>3. TypeOK' /\ SpillRouting' /\ ProbeOnce'
  BY <1>2 DEF JInv, TypeOK, SpillRouting, ProbeOnce, OnPendingDisk,
              Consumed, SpillRefused, probeVars
<1>4. PairsTogether'
  BY <1>2 DEF JInv, PairsTogether, OnPendingDisk, Consumed, SpillRefused,
              probeVars
<1>5. JoinExact'
  BY DEF JInv, JoinExact, SpillRefused, probeVars
<1>. QED  BY <1>1, <1>3, <1>4, <1>5 DEF JInv

\* The join finishes when every probe row has been probed, and then every
\* matching pair has been joined.
LEMMA FinishStep ==
  ASSUME JInv, Finish
  PROVE  JInv'
<1>1. LInv'
  BY LInvStep DEF JInv, Next
<1>2. \A x : Part(x)' = Part(x) /\ Child(x)' = Child(x)
  BY SameCtx DEF Finish
<1>3. TypeOK' /\ SpillRouting' /\ ProbeOnce'
  BY <1>2 DEF JInv, TypeOK, SpillRouting, ProbeOnce, OnPendingDisk,
              Consumed, Finish
<1>4. PairsTogether'
  BY <1>2 DEF JInv, PairsTogether, OnPendingDisk, Consumed, Finish
<1>5. \A pr \in Reference : pr \in out
  BY DEF JInv, PairsTogether, OnPendingDisk, Consumed, Finish
<1>6. JoinExact'
  BY <1>5 DEF JInv, JoinExact, Finish
<1>. QED  BY <1>1, <1>3, <1>4, <1>6 DEF JInv

\* Rows with the same key fall in the same partition at every level.
LEMMA SameKeySamePart ==
  ASSUME NEW b, NEW p, Key[b] = Key[p]
  PROVE  Part(b) = Part(p) /\ Child(b) = Child(p)
BY DEF Part, Child

\* Probing a row of a partition kept in memory joins it with its build
\* rows, which are all in the table: none is still input (the build is
\* finished) and none spilled (its partition is not).
LEMMA ProbeStep ==
  ASSUME JInv, NEW p \in ProbeRows, ProbeInput(p)
  PROVE  JInv'
<1>1. LInv'
  BY LInvStep DEF JInv, Next
<1>2. \A x : Part(x)' = Part(x) /\ Child(x)' = Child(x)
  BY SameCtx DEF ProbeInput
<1>3. Matches(p) \subseteq Reference
  BY DEF JInv, TypeOK, Matches, Reference
<1>4. Matches(p) \cap out = {}
  BY DEF JInv, ProbeOnce, Consumed, Matches, ProbeInput
<1>5. \A x : Consumed(x) => Consumed(x)'
  BY DEF Consumed, OnPendingDisk, ProbeInput
<1>6. Consumed(p)'
  BY DEF JInv, ProbeOnce, Consumed, OnPendingDisk, ProbeInput
<1>7. TypeOK'
  BY <1>3 DEF JInv, TypeOK, ProbeInput, Reference
<1>8. SpillRouting'
  BY <1>2 DEF JInv, SpillRouting, ProbeInput
<1>9. ProbeOnce'
  BY <1>5, <1>6 DEF JInv, ProbeOnce, OnPendingDisk, ProbeInput, Matches
<1>10. PairsTogether'
  <2>. SUFFICES ASSUME NEW pr \in Reference
                PROVE  /\ pr[2] \in probeIn' /\ phase' \in {"build", "probe"} =>
                          \/ phase' = "build" /\ pr[1] \in buildIn'
                          \/ pr[1] \in mem'
                          \/ Part(pr[1])' \in spilledParts'
                             /\ pr[1] \in diskB'[Child(pr[1])']
                       /\ \A id \in pending' : pr[2] \in diskP'[id] => pr[1] \in diskB'[id]
                       /\ Consumed(pr[2])' => pr \in out'
    BY DEF PairsTogether
  <2>1. Key[pr[1]] = Key[pr[2]] /\ pr = <<pr[1], pr[2]>>
    BY DEF Reference
  <2>2. CASE pr[2] = p
    <3>1. Part(pr[1]) = Part(p)
      BY <2>1, <2>2, SameKeySamePart
    <3>2. pr[1] \in mem
      BY <2>2, <3>1 DEF JInv, PairsTogether, SpillRouting, ProbeInput
    <3>3. pr \in out'
      BY <2>1, <2>2, <3>2 DEF ProbeInput, Matches
    <3>. QED  BY <2>2, <3>3 DEF JInv, PairsTogether, ProbeInput
  <2>3. CASE pr[2] # p
    BY <1>2, <2>3 DEF JInv, PairsTogether, Consumed, OnPendingDisk, ProbeInput
  <2>. QED  BY <2>2, <2>3
<1>11. JoinExact'
  BY <1>3, <1>4 DEF JInv, JoinExact, ProbeInput
<1>. QED  BY <1>1, <1>7, <1>8, <1>9, <1>10, <1>11 DEF JInv

\* Spilling a probe row writes it beside its build rows, into the file of
\* the one pending partition of its hash bits.
LEMMA SpillProbeStep ==
  ASSUME JInv, NEW p \in ProbeRows, SpillProbeInput(p)
  PROVE  JInv'
<1>1. LInv'
  BY LInvStep DEF JInv, Next
<1>2. \A x : Part(x)' = Part(x) /\ Child(x)' = Child(x)
  BY SameCtx DEF SpillProbeInput
<1>3. Child(p) \in pending /\ Child(p) \in Ids
  BY DEF JInv, SpillRouting, TypeOK, SpillProbeInput, Child
<1>4. ~OnPendingDisk(p) /\ p \in probeIn
  BY DEF JInv, ProbeOnce, SpillProbeInput
<1>5. \A id \in Ids : diskP'[id] = IF id = Child(p) THEN diskP[id] \cup {p}
                                                    ELSE diskP[id]
  BY DEF SpillProbeInput
<1>6. \A x : x # p => (OnPendingDisk(x)' <=> OnPendingDisk(x))
                      /\ (Consumed(x)' <=> Consumed(x))
  BY <1>5 DEF JInv, TypeOK, OnPendingDisk, Consumed, SpillProbeInput
<1>7. \A id \in pending : p \in diskP'[id] <=> id = Child(p)
  BY <1>3, <1>4, <1>5 DEF JInv, TypeOK, OnPendingDisk
<1>8. TypeOK'
  BY <1>5 DEF JInv, TypeOK, SpillProbeInput
<1>9. SpillRouting'
  BY <1>2, <1>3, <1>5 DEF JInv, SpillRouting, SpillProbeInput
<1>10. ProbeOnce'
  <2>1. \A id1, id2 \in pending' :
          id1 # id2 => diskP'[id1] \cap diskP'[id2] = {}
    <3> SUFFICES ASSUME NEW id1 \in pending, NEW id2 \in pending, id1 # id2
                 PROVE  diskP'[id1] \cap diskP'[id2] = {}
      BY DEF SpillProbeInput
    <3>1. id1 \in Ids /\ id2 \in Ids
      BY DEF JInv, TypeOK
    <3>2. diskP[id1] \cap diskP[id2] = {}
      BY DEF JInv, ProbeOnce
    <3>3. p \notin diskP'[id1] \/ p \notin diskP'[id2]
      BY <1>7
    <3>. QED  BY <1>5, <3>1, <3>2, <3>3
  <2>2. \A pr \in out' : Consumed(pr[2])'
    BY <1>4, <1>6 DEF JInv, ProbeOnce, Consumed, SpillProbeInput
  <2>3. \A x \in probeIn' : ~OnPendingDisk(x)'
    BY <1>6 DEF JInv, ProbeOnce, SpillProbeInput
  <2>. QED  BY <2>1, <2>2, <2>3 DEF ProbeOnce
<1>11. PairsTogether'
  <2>. SUFFICES ASSUME NEW pr \in Reference
                PROVE  /\ pr[2] \in probeIn' /\ phase' \in {"build", "probe"} =>
                          \/ phase' = "build" /\ pr[1] \in buildIn'
                          \/ pr[1] \in mem'
                          \/ Part(pr[1])' \in spilledParts'
                             /\ pr[1] \in diskB'[Child(pr[1])']
                       /\ \A id \in pending' : pr[2] \in diskP'[id] => pr[1] \in diskB'[id]
                       /\ Consumed(pr[2])' => pr \in out'
    BY DEF PairsTogether
  <2>1. Key[pr[1]] = Key[pr[2]]
    BY DEF Reference
  <2>2. CASE pr[2] = p
    <3>1. Part(pr[1]) = Part(p) /\ Child(pr[1]) = Child(p)
      BY <2>1, <2>2, SameKeySamePart
    <3>2. pr[1] \notin mem
      BY <3>1 DEF JInv, SpillRouting, SpillProbeInput
    <3>3. pr[1] \in diskB[Child(p)]
      BY <2>2, <3>1, <3>2 DEF JInv, PairsTogether, SpillProbeInput
    <3>4. OnPendingDisk(p)'
      BY <1>3, <1>5 DEF OnPendingDisk, SpillProbeInput
    <3>. QED  BY <1>7, <2>2, <3>3, <3>4 DEF Consumed, SpillProbeInput
  <2>3. CASE pr[2] # p
    <3>1. \A id \in pending : pr[2] \in diskP'[id] <=> pr[2] \in diskP[id]
      BY <1>5, <2>3 DEF JInv, TypeOK
    <3>. QED
      BY <1>2, <1>6, <2>3, <3>1
      DEF JInv, PairsTogether, SpillProbeInput
  <2>. QED  BY <2>2, <2>3
<1>12. JoinExact'
  BY DEF JInv, JoinExact, SpillProbeInput
<1>. QED  BY <1>1, <1>8, <1>9, <1>10, <1>11, <1>12 DEF JInv

\* A reclaim moves the table's rows of partitions S to the files of the
\* children of ctx, which have room in the hash (RoomBelow) and hold no
\* probe rows yet, so no probe row changes place.
LEMMA ReclaimStep ==
  ASSUME JInv, NEW S \in SUBSET Parts, Reclaim(S)
  PROVE  JInv'
<1> DEFINE moved == {x \in mem : Part(x) \in S}
<1>1. LInv'
  BY LInvStep DEF JInv, Next
<1>2. \A x : Part(x)' = Part(x) /\ Child(x)' = Child(x)
  BY SameCtx DEF Reclaim
<1>3. \A q \in S : Append(ctx, q) \in Ids
  <2>1. ~exceeded /\ ctx \in Seq(Parts)
    BY DEF JInv, LInv, Reclaim
  <2>2. Off(ctx) + NumBits <= W
    BY <2>1 DEF JInv, LInv, RoomBelow
  <2>. QED  BY <2>1, <2>2, ChildInIds
<1>4. /\ pending' = pending \cup {Append(ctx, q) : q \in S}
      /\ \A id \in pending' \ pending : diskP[id] = {}
      /\ diskP' = diskP /\ probeIn' = probeIn /\ out' = out /\ dup' = dup
  BY <1>3 DEF JInv, SpillRouting, Reclaim, probeVars
<1>5. /\ mem' = mem \ moved
      /\ diskB' = [id \in Ids |-> diskB[id] \cup {x \in moved : Child(x) = id}]
      /\ spilledParts' = spilledParts \cup S
  BY DEF Reclaim
<1>6. \A x : /\ OnPendingDisk(x)' <=> OnPendingDisk(x)
             /\ Consumed(x)' <=> Consumed(x)
  BY <1>4 DEF OnPendingDisk, Consumed
<1>7. TypeOK'
  <2>1. IsFiniteSet(moved) /\ Cardinality(moved) \in Nat
    <3>1. moved \subseteq BuildRows
      BY DEF JInv, TypeOK
    <3>. QED  BY <3>1, RowsAssumption, FS_Subset, FS_CardinalityType
  <2>2. spilledBytes' \in Nat
    BY <2>1 DEF JInv, TypeOK, Reclaim
  <2>3. pending' \subseteq Ids
    BY <1>3, <1>4 DEF JInv, TypeOK
  <2>4. diskB' \in [Ids -> SUBSET BuildRows]
    BY <1>5 DEF JInv, TypeOK
  <2>. QED  BY <1>4, <1>5, <2>2, <2>3, <2>4 DEF JInv, TypeOK, Reclaim
<1>8. SpillRouting'
  BY <1>2, <1>4, <1>5 DEF JInv, SpillRouting, Reclaim
<1>9. ProbeOnce'
  BY <1>4, <1>6 DEF JInv, ProbeOnce
<1>10. PairsTogether'
  <2>1. \A id \in Ids : diskB[id] \subseteq diskB'[id]
    BY <1>5
  <2>2. pending \subseteq Ids
    BY DEF JInv, TypeOK
  <2>3. \A x \in moved : x \in diskB'[Child(x)] /\ Part(x) \in spilledParts'
    BY <1>3, <1>5 DEF Child
  <2>4. \A x \in BuildRows : Part(x) \in spilledParts => Child(x) \in Ids
    BY <2>2 DEF JInv, SpillRouting, Child
  <2>. SUFFICES ASSUME NEW pr \in Reference
                PROVE  /\ pr[2] \in probeIn' /\ phase' \in {"build", "probe"} =>
                          \/ phase' = "build" /\ pr[1] \in buildIn'
                          \/ pr[1] \in mem'
                          \/ Part(pr[1])' \in spilledParts'
                             /\ pr[1] \in diskB'[Child(pr[1])']
                       /\ \A id \in pending' : pr[2] \in diskP'[id] => pr[1] \in diskB'[id]
                       /\ Consumed(pr[2])' => pr \in out'
    BY DEF PairsTogether
  <2>5. pr[1] \in BuildRows
    BY DEF Reference
  <2>6. \A id \in pending' : pr[2] \in diskP'[id] => pr[1] \in diskB'[id]
    BY <1>4, <2>1, <2>2 DEF JInv, PairsTogether
  <2>7. Consumed(pr[2])' => pr \in out'
    BY <1>4, <1>6 DEF JInv, PairsTogether
  <2>. QED
    BY <1>2, <1>4, <1>5, <2>1, <2>3, <2>4, <2>5, <2>6, <2>7
    DEF JInv, PairsTogether, Reclaim
<1>11. JoinExact'
  BY <1>4 DEF JInv, JoinExact, Reclaim
<1>. QED  BY <1>1, <1>7, <1>8, <1>9, <1>10, <1>11 DEF JInv

\* Restoring a spilled partition makes its files the new input: its probe
\* rows are on no other file (ProbeOnce) and its build rows are beside
\* them (PairsTogether), so every waiting pair is still together.
LEMMA RestoreStep ==
  ASSUME JInv, NEW id0 \in Ids, Restore(id0)
  PROVE  JInv'
<1>1. LInv'
  BY LInvStep DEF JInv, Next
<1>2. /\ id0 \in pending /\ probeIn = {} /\ pending' = pending \ {id0}
      /\ ctx' = id0 /\ phase' = "build" /\ mem' = {} /\ spilledParts' = {}
      /\ buildIn' = diskB[id0] /\ probeIn' = diskP[id0]
      /\ out' = out /\ dup' = dup /\ spilledBytes' = spilledBytes
      /\ diskB' = [diskB EXCEPT ![id0] = {}]
      /\ diskP' = [diskP EXCEPT ![id0] = {}]
  BY DEF Restore
<1>3. \A id \in pending' : diskP'[id] = diskP[id] /\ diskB'[id] = diskB[id]
  BY <1>2 DEF JInv, TypeOK
<1>4. \A x : OnPendingDisk(x)' => OnPendingDisk(x)
  BY <1>2, <1>3 DEF OnPendingDisk
<1>5. \A x : Consumed(x)' <=> Consumed(x)
  <2>2. \A x : OnPendingDisk(x) => OnPendingDisk(x)' \/ x \in probeIn'
    BY <1>2, <1>3 DEF OnPendingDisk
  <2>3. \A x : Consumed(x)' => Consumed(x)
    BY <1>2, <2>2 DEF Consumed
  <2>4. \A x : Consumed(x) => Consumed(x)'
    BY <1>2, <1>4 DEF Consumed, OnPendingDisk
  <2>. QED  BY <2>3, <2>4
<1>6. TypeOK'
  <2>1. ctx' \in Ids \cup {<<>>} /\ pending' \subseteq Ids
    BY <1>2 DEF JInv, TypeOK
  <2>2. buildIn' \subseteq BuildRows /\ probeIn' \subseteq ProbeRows
    BY <1>2 DEF JInv, TypeOK
  <2>3. diskB' \in [Ids -> SUBSET BuildRows] /\ diskP' \in [Ids -> SUBSET ProbeRows]
    BY <1>2 DEF JInv, TypeOK
  <2>4. exceeded' \in BOOLEAN
    BY <1>1 DEF LInv
  <2>. QED  BY <1>2, <2>1, <2>2, <2>3, <2>4 DEF JInv, TypeOK
<1>7. SpillRouting'
  <2>1. \A id \in Ids \ pending' : diskP'[id] = {}
    BY <1>2 DEF JInv, SpillRouting, TypeOK
  <2>. QED  BY <1>2, <2>1 DEF SpillRouting
<1>8. ProbeOnce'
  <2>1. \A x \in probeIn' : ~OnPendingDisk(x)'
    BY <1>2, <1>3 DEF JInv, ProbeOnce, OnPendingDisk
  <2>2. \A id1, id2 \in pending' : id1 # id2 => diskP'[id1] \cap diskP'[id2] = {}
    BY <1>2, <1>3 DEF JInv, ProbeOnce
  <2>3. \A pr \in out' : Consumed(pr[2])'
    BY <1>2, <1>5 DEF JInv, ProbeOnce
  <2>. QED  BY <2>1, <2>2, <2>3 DEF ProbeOnce
<1>9. PairsTogether'
  <2>. SUFFICES ASSUME NEW pr \in Reference
                PROVE  /\ pr[2] \in probeIn' /\ phase' \in {"build", "probe"} =>
                          \/ phase' = "build" /\ pr[1] \in buildIn'
                          \/ pr[1] \in mem'
                          \/ Part(pr[1])' \in spilledParts'
                             /\ pr[1] \in diskB'[Child(pr[1])']
                       /\ \A id \in pending' : pr[2] \in diskP'[id] => pr[1] \in diskB'[id]
                       /\ Consumed(pr[2])' => pr \in out'
    BY DEF PairsTogether
  <2>1. pr[2] \in probeIn' => pr[1] \in buildIn'
    BY <1>2 DEF JInv, PairsTogether
  <2>2. \A id \in pending' : pr[2] \in diskP'[id] => pr[1] \in diskB'[id]
    BY <1>2, <1>3 DEF JInv, PairsTogether
  <2>3. Consumed(pr[2])' => pr \in out'
    BY <1>2, <1>5 DEF JInv, PairsTogether
  <2>. QED  BY <1>2, <2>1, <2>2, <2>3
<1>10. JoinExact'
  BY <1>2 DEF JInv, JoinExact
<1>. QED  BY <1>1, <1>6, <1>7, <1>8, <1>9, <1>10 DEF JInv

\* A stuttering step keeps JInv.
LEMMA StutterStep ==
  ASSUME JInv, UNCHANGED vars
  PROVE  JInv'
<1>1. LInv'
  BY LInvStep DEF JInv
<1>2. \A x : Part(x)' = Part(x) /\ Child(x)' = Child(x)
  BY SameCtx DEF vars
<1>. QED
  BY <1>1, <1>2
  DEF vars, JInv, TypeOK, SpillRouting, ProbeOnce, PairsTogether,
      OnPendingDisk, Consumed, JoinExact

\* Every step keeps JInv.
LEMMA JInvStep == JInv /\ [Next]_vars => JInv'
<1> SUFFICES ASSUME JInv, [Next]_vars PROVE JInv'
  OBVIOUS
<1>1. CASE \E r \in BuildRows : AddBuildInput(r) \/ SpillBuildInput(r)
  BY <1>1, AddBuildStep, SpillBuildStep
<1>2. CASE \E S \in SUBSET Parts : Reclaim(S)
  BY <1>2, ReclaimStep
<1>3. CASE \E p \in ProbeRows : ProbeInput(p) \/ SpillProbeInput(p)
  BY <1>3, ProbeStep, SpillProbeStep
<1>4. CASE \E id \in Ids : Restore(id)
  BY <1>4, RestoreStep
<1>. QED
  BY <1>1, <1>2, <1>3, <1>4, FinishBuildStep, SpillRefusedStep, FinishStep,
     StutterStep DEF Next

-----------------------------------------------------------------------------
(* Theorems.                                                              *)

\* However reclaims interleave with the build and probe input, at every
\* level and for every hash, no pair is joined twice or without matching,
\* and a finished join has joined every matching pair.
THEOREM JoinExactness == Spec => []JoinExact
<1>1. JInv => JoinExact
  BY DEF JInv
<1>. QED  BY InitJInv, JInvStep, <1>1, PTL DEF Spec

\* In every state, each partition ctx has spilled waits to be restored
\* and the table holds none of its rows; every probe row is in one place,
\* the input or one pending partition's file, until it is probed; the
\* build row of a matching pair is wherever its probe row will meet it
\* (to come, in the table, or in the same spilled partition); and the
\* output is exact so far.  Reclaims at any point of the build input, restores
\* one level down and processing in place keep all of it.
THEOREM JoinInvariant == Spec => []JInv
  BY InitJInv, JInvStep, PTL DEF Spec

-----------------------------------------------------------------------------
(* Refinement of the query's promise (JoinOutput).                        *)

\* The query's status under the refinement mapping.
QStatus == IF phase \in {"done", "failed"} THEN phase ELSE "running"

\* Each step of the join, between two states of JInv, is a step of the
\* query's promise or leaves its status and output alone: only a probe
\* emits pairs, Finish completes and SpillRefused fails the query.
LEMMA QueryStep ==
  JInv /\ JInv' /\ [Next]_vars => [Query!Next]_Query!vars
<1> SUFFICES ASSUME JInv, JInv', [Next]_vars PROVE [Query!Next]_Query!vars
  OBVIOUS
<1>1. CASE UNCHANGED <<out, QStatus>>
  BY <1>1 DEF Query!vars, QStatus
<1>2. ASSUME NEW p \in ProbeRows, ProbeInput(p) PROVE [Query!Next]_Query!vars
  <2>1. phase = "probe" /\ phase' = "probe" /\ out' = out \cup Matches(p)
    BY <1>2 DEF ProbeInput
  <2>2. Matches(p) \subseteq Reference /\ Matches(p) \cap out = {}
    BY <1>2, <2>1 DEF JInv, JoinExact, ProbeInput
  <2>3. CASE Matches(p) = {}
    BY <2>1, <2>3 DEF Query!vars
  <2>4. CASE Matches(p) # {}
    <3>1. Query!Emit(Matches(p))
      BY <2>1, <2>2, <2>4 DEF Query!Emit
    <3>2. Matches(p) \in SUBSET Reference
      BY <2>2
    <3>. QED  BY <3>1, <3>2 DEF Query!Next
  <2>. QED  BY <2>3, <2>4
<1>3. CASE SpillRefused
  <2>1. phase \in {"build", "probe"} /\ phase' = "failed" /\ out' = out
    BY <1>3 DEF SpillRefused, probeVars
  <2>2. Query!Fail
    BY <2>1 DEF Query!Fail
  <2>. QED  BY <2>2 DEF Query!Next
<1>4. CASE Finish
  <2>1. out = Reference
    BY <1>4 DEF Finish, JInv, JoinExact
  <2>2. Query!Complete
    BY <1>4, <2>1 DEF Finish, Query!Complete
  <2>. QED  BY <2>2 DEF Query!Next
<1>5. ASSUME NEW r \in BuildRows, AddBuildInput(r) \/ SpillBuildInput(r)
      PROVE  UNCHANGED <<out, QStatus>>
  BY <1>5 DEF AddBuildInput, SpillBuildInput, probeVars, QStatus
<1>6. ASSUME NEW S \in SUBSET Parts, Reclaim(S) PROVE UNCHANGED <<out, QStatus>>
  BY <1>6 DEF Reclaim, probeVars, QStatus
<1>7. ASSUME NEW p \in ProbeRows, SpillProbeInput(p) PROVE UNCHANGED <<out, QStatus>>
  BY <1>7 DEF SpillProbeInput, QStatus
<1>8. ASSUME NEW id \in Ids, Restore(id) PROVE UNCHANGED <<out, QStatus>>
  BY <1>8 DEF Restore, QStatus
<1>9. FinishBuild => UNCHANGED <<out, QStatus>>
  BY DEF FinishBuild, probeVars, QStatus
<1>10. UNCHANGED vars => UNCHANGED <<out, QStatus>>
  BY DEF vars, QStatus
<1>. QED
  BY <1>1, <1>2, <1>3, <1>4, <1>5, <1>6, <1>7, <1>8, <1>9, <1>10 DEF Next

\* Recursive spilling implements the safety part of the query's promise
\* (QueryRefinement without its fairness): however reclaims interleave
\* with the input and at whichever levels partitions are restored or
\* processed in place, every probe step emits only matching pairs not
\* emitted before, the join finishes only with the whole reference
\* result, and a finished or failed query emits nothing more, for every
\* width, start bit, bit count, limits, rows, keys and hashes.
THEOREM RefinesQuerySafety == Spec => Query!Init /\ [][Query!Next]_Query!vars
<1>1. Init => Query!Init
  BY DEF Init, Query!Init
<1>2. Spec => []JInv
  BY JoinInvariant
<1>. QED  BY <1>1, <1>2, QueryStep, PTL DEF Spec

\* The spill state keeps its type: in particular every spilled partition
\* is a partition id of at most MaxDepth levels, and the spilled total is
\* a natural number.
THEOREM TypeCorrect == Spec => []TypeOK
<1>1. JInv => TypeOK
  BY DEF JInv
<1>. QED  BY InitJInv, JInvStep, <1>1, PTL DEF Spec

=============================================================================
