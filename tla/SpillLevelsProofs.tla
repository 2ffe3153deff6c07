------------------------- MODULE SpillLevelsProofs -------------------------
(***************************************************************************)
(* Proof that no partition is ever spilled past maxSpillLevel or the hash *)
(* width, for every width, start bit, number of partition bits and limit. *)
(***************************************************************************)
EXTENDS SpillLevels, TLAPS

\* LevelBound is not inductive: a reclaim spills the children of ctx, so
\* the invariant must also say that a reclaimable ctx has room for one
\* more level, which is what the restore's exceedSpillLevelLimit check
\* records in exceeded.
RoomBelow ==
  ~exceeded => /\ Off(ctx) + NumBits <= W
               /\ MaxSpillLevel = -1 \/ Len(ctx) <= MaxSpillLevel

LInv ==
  /\ ctx \in Seq(Parts) /\ pending \subseteq Seq(Parts) /\ exceeded \in BOOLEAN
  /\ RoomBelow
  /\ LevelBound


\* The level of a partition is recovered from its first bit: dividing the
\* Len(id) * NumBits bits above the start bit by NumBits gives Len(id).
LEMMA LevelFromOffset ==
  ASSUME NEW id \in Seq(Parts)
  PROVE  (Off(id) - StartBit) \div NumBits = Len(id)
<1>1. \A m \in Nat : (m * NumBits) \div NumBits = m
  BY NumBitsAssumption, SMT
<1>2. Off(id) - StartBit = Len(id) * NumBits
  BY StartBitAssumption, NumBitsAssumption DEF Off
<1>. QED  BY <1>1, <1>2

\* Initially nothing is spilled and the whole input may spill to level 0.
LEMMA InitLInv == Init => LInv
<1> SUFFICES ASSUME Init PROVE LInv
  OBVIOUS
<1>1. ctx = <<>> /\ pending = {} /\ exceeded = FALSE
  BY DEF Init
<1>2. Off(ctx) = StartBit /\ Len(ctx) = 0
  BY <1>1, StartBitAssumption, NumBitsAssumption DEF Off
<1>3. RoomBelow
  BY <1>2, StartBitAssumption, LevelAssumption DEF RoomBelow
<1>4. ctx \in Seq(Parts)
  BY <1>1
<1>. QED  BY <1>1, <1>3, <1>4 DEF LInv, LevelBound

\* Every step keeps LInv.  Only a reclaim adds spilled partitions, one
\* level below a ctx that RoomBelow says has room, and only a restore
\* changes ctx, recording in exceeded whether the new ctx has room.
LEMMA LInvStep == LInv /\ [Next]_vars => LInv'
<1> SUFFICES ASSUME LInv, [Next]_vars PROVE LInv'
  OBVIOUS
<1>. USE DEF LInv
<1>1. ASSUME NEW S \in SUBSET Parts, Reclaim(S) PROVE LInv'
  <2>1. \A q \in S : /\ Append(ctx, q) \in Seq(Parts)
                     /\ Off(Append(ctx, q)) = Off(ctx) + NumBits
                     /\ Len(Append(ctx, q)) - 1 = Len(ctx)
    BY NumBitsAssumption, StartBitAssumption DEF Off
  <2>2. ~exceeded /\ pending' = pending \cup {Append(ctx, q) : q \in S}
        /\ ctx' = ctx /\ exceeded' = exceeded
    BY <1>1 DEF Reclaim
  <2>3. pending' \subseteq Seq(Parts)
    BY <2>1, <2>2
  <2>4. RoomBelow'
    BY <2>2 DEF RoomBelow, Off
  <2>5. LevelBound'
    BY <2>1, <2>2 DEF RoomBelow, LevelBound
  <2>6. ctx' \in Seq(Parts) /\ exceeded' \in BOOLEAN
    BY <2>2
  <2>. QED  BY <2>3, <2>4, <2>5, <2>6
<1>2. ASSUME NEW id \in Ids, Restore(id) PROVE LInv'
  <2>1. id \in pending /\ ctx' = id /\ pending' = pending \ {id}
        /\ exceeded' = ExceedSpillLevelLimit(Off(id))
    BY <1>2 DEF Restore
  <2>2. (Off(id) - StartBit) \div NumBits = Len(id)
    <3>1. id \in Seq(Parts)
      BY <2>1
    <3>. QED  BY <3>1, LevelFromOffset
  <2>3. RoomBelow'
    <3>1. Len(id) \in Nat /\ Off(id) \in Int
      BY <2>1, StartBitAssumption, NumBitsAssumption DEF Off
    <3>2. ~exceeded' => Off(id) + NumBits <= W
      BY <2>1, <3>1, WidthAssumption, NumBitsAssumption
         DEF ExceedSpillLevelLimit
    <3>3. ~exceeded' => MaxSpillLevel = -1 \/ Len(id) <= MaxSpillLevel
      BY <2>1, <2>2, <3>1, LevelAssumption DEF ExceedSpillLevelLimit
    <3>. QED  BY <2>1, <3>2, <3>3 DEF RoomBelow
  <2>4. LevelBound'
    BY <2>1 DEF LevelBound
  <2>5. ctx' \in Seq(Parts)
    BY <2>1
  <2>6. pending' \subseteq Seq(Parts)
    BY <2>1
  <2>7. exceeded' \in BOOLEAN
    BY <2>1 DEF ExceedSpillLevelLimit
  <2>. QED  BY <2>3, <2>4, <2>5, <2>6, <2>7
<1>3. CASE UNCHANGED <<ctx, pending, exceeded>>
  BY <1>3 DEF RoomBelow, LevelBound, Off
<1>4. QED
  <2>1. ASSUME NEW r \in BuildRows, AddBuildInput(r) \/ SpillBuildInput(r)
        PROVE  UNCHANGED <<ctx, pending, exceeded>>
    BY <2>1 DEF AddBuildInput, SpillBuildInput
  <2>2. ASSUME NEW p \in ProbeRows, ProbeInput(p) \/ SpillProbeInput(p)
        PROVE  UNCHANGED <<ctx, pending, exceeded>>
    BY <2>2 DEF ProbeInput, SpillProbeInput
  <2>3. FinishBuild \/ SpillRefused \/ Finish \/ UNCHANGED vars
        => UNCHANGED <<ctx, pending, exceeded>>
    BY DEF FinishBuild, SpillRefused, Finish, vars
  <2>. QED  BY <1>1, <1>2, <1>3, <2>1, <2>2, <2>3 DEF Next

\* In every state, a ctx whose spiller may still reclaim has room for one
\* more level below it (the restore's exceedSpillLevelLimit check records
\* exactly when it has not), and every spilled partition is within the
\* level limit and the hash width.
THEOREM LevelInvariant == Spec => []LInv
  BY InitLInv, LInvStep, PTL DEF Spec

\* No run spills a partition past maxSpillLevel or past the hash width.
THEOREM LevelBounded == Spec => []LevelBound
<1>1. LInv => LevelBound
  BY DEF LInv
<1>. QED  BY InitLInv, LInvStep, <1>1, PTL DEF Spec

=============================================================================
