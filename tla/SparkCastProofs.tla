-------------------------- MODULE SparkCastProofs --------------------------
(* Proofs about the Spark CAST and TRY_CAST special forms of SparkCast,   *)
(* for every width of the target type.                                     *)
EXTENDS SparkCast, TLAPS

\* Wrap-around always lands in the target type's range.
LEMMA WrapInRange ==
  ASSUME NEW v \in Int
  PROVE  Wrap(v) \in Low..High
  BY HalfAssumption DEF Wrap, Low, High

\* The expression the last call constructed for its form.
Constructed(f, cs, t) ==
  IF f = "cast" THEN ConstructCast(cs, t) ELSE ConstructTryCast(cs, t)

\* The inductive invariant: an expression, if there is one, is what the
\* constructor of the last call's form built from its single child, and
\* the results, if any, are that expression's on the last batch.
IInv ==
  /\ TypeOK
  /\ SingleChildMoved
  /\ expr # None => /\ form \in {"cast", "try_cast"}
                    /\ expr = Constructed(form, call, expr.track)
  /\ out # None => /\ expr # None
                   /\ DOMAIN out = DOMAIN rows
                   /\ \A i \in DOMAIN rows : out[i] = Eval(expr, rows[i])

\* The vectors a call may pass are sequences of children.
LEMMA ChildVectorsSeq == ChildVectors \subseteq Seq(Children)
<1> SUFFICES ASSUME NEW cs \in ChildVectors PROVE cs \in Seq(Children)
  OBVIOUS
<1>1. PICK n \in 0..2 : cs \in [1..n -> Children]
  BY DEF ChildVectors
<1>2. QED
  BY <1>1

\* The batches are sequences of input rows.
LEMMA BatchesSeq == Batches \subseteq Seq(Inputs)
<1> SUFFICES ASSUME NEW b \in Batches PROVE b \in Seq(Inputs)
  OBVIOUS
<1>1. PICK n \in 1..2 : b \in [1..n -> Inputs]
  BY DEF Batches
<1>2. QED
  BY <1>1

\* Both constructors build a well-typed expression from a one-child call.
LEMMA ConstructTypes ==
  ASSUME NEW cs \in Seq(Children), Len(cs) = 1, NEW t \in BOOLEAN
  PROVE  /\ ConstructCast(cs, t) \in CastExprs
         /\ ConstructTryCast(cs, t) \in CastExprs
  BY DEF ConstructCast, ConstructTryCast, CastExprs

\* A cast yields a result on every row.
LEMMA EvalType ==
  ASSUME NEW e \in CastExprs, NEW x \in Inputs
  PROVE  Eval(e, x) \in Results
  <1>0. x.val \in Int
    BY ValuesAssumption DEF Inputs
  <1>1. x.val \in Int /\ Wrap(x.val) \in Int
    BY <1>0, WrapInRange, HalfAssumption DEF Low, High
  <1>2. \A v \in Int : Value(v) \in Results
    BY DEF Value, Results
  <1>3. Null \in Results /\ Error \in Results
    BY DEF Null, Error, Results
  <1>4. QED
    BY <1>1, <1>2, <1>3 DEF Eval

\* Init establishes the invariant.
LEMMA InitIInv == Init => IInv
  BY DEF Init, IInv, TypeOK, SingleChildMoved

\* A call, accepted or rejected, keeps the invariant.
LEMMA CompileStep ==
  ASSUME IInv, NEW f \in {"cast", "try_cast"}, NEW cs \in ChildVectors,
         NEW t \in BOOLEAN,
         call' = cs, form' = f, out' = None, UNCHANGED rows,
         \/ Rejected(cs)
         \/ Accepted(cs, Constructed(f, cs, t))
  PROVE  IInv'
  <1>1. cs \in Seq(Children)
    BY ChildVectorsSeq
  <1>2. CASE Rejected(cs)
    BY <1>1, <1>2 DEF Rejected, IInv, TypeOK, SingleChildMoved
  <1>3. CASE Accepted(cs, Constructed(f, cs, t))
    <2>1. Len(cs) = 1
      BY <1>3 DEF Accepted, ArityOk
    <2>2. Constructed(f, cs, t) \in CastExprs
      BY <1>1, <2>1, ConstructTypes DEF Constructed
    <2>3. Constructed(f, cs, t).track = t /\ Constructed(f, cs, t).child = cs[1]
      BY DEF Constructed, ConstructCast, ConstructTryCast
    <2>4. [cs EXCEPT ![1] = None] = <<None>>
      BY <1>1, <2>1
    <2>9. <<None>> \in Seq(Children \cup {None})
      OBVIOUS
    <2>5. TypeOK'
      BY <1>1, <1>3, <2>2, <2>4, <2>9 DEF Accepted, IInv, TypeOK
    <2>6. SingleChildMoved'
      BY <1>3, <2>1, <2>3, <2>4 DEF Accepted, SingleChildMoved
    <2>7. expr' = Constructed(form', call', expr'.track)
      BY <1>3, <2>3 DEF Accepted
    <2>8. QED
      BY <1>3, <2>5, <2>6, <2>7 DEF IInv
  <1>4. QED
    BY <1>2, <1>3

\* Every step keeps the invariant.
LEMMA IInvStep == IInv /\ [Next]_vars => IInv'
<1> SUFFICES ASSUME IInv, [Next]_vars PROVE IInv'
  OBVIOUS
<1>1. ASSUME NEW cs \in ChildVectors, NEW t \in BOOLEAN, CompileCast(cs, t)
      PROVE IInv'
  BY <1>1, CompileStep DEF CompileCast, Constructed
<1>2. ASSUME NEW cs \in ChildVectors, NEW t \in BOOLEAN, CompileTryCast(cs, t)
      PROVE IInv'
  BY <1>2, CompileStep DEF CompileTryCast, Constructed
<1>3. ASSUME NEW b \in Batches, Evaluate(b) PROVE IInv'
  <2>1. b \in Seq(Inputs)
    BY BatchesSeq
  <2>2. \A i \in DOMAIN b : Eval(expr, b[i]) \in Results
    BY <1>3, <2>1, EvalType DEF Evaluate, IInv, TypeOK
  <2>3. out' \in Seq(Results)
    BY <1>3, <2>1, <2>2 DEF Evaluate
  <2>4. QED
    BY <1>3, <2>1, <2>3 DEF Evaluate, IInv, TypeOK, SingleChildMoved
<1>4. CASE UNCHANGED vars
  BY <1>4 DEF vars, IInv, TypeOK, SingleChildMoved
<1>5. QED
  BY <1>1, <1>2, <1>3, <1>4 DEF Next

\* An expression built with isTryCast never throws and, whatever its
\* overflow flag, yields NULL or a value of the target type.
LEMMA EvalTryTotal ==
  ASSUME NEW e \in CastExprs, e.isTryCast, NEW x \in Inputs
  PROVE  Eval(e, x) \in {Value(v) : v \in Low..High} \cup {Null}
  <1>1. x.val \in Int
    BY ValuesAssumption DEF Inputs
  <1>2. Wrap(x.val) \in Low..High
    BY <1>1, WrapInRange
  <1>3. QED
    BY <1>2 DEF Eval

\* On every row the two constructors agree except on overflow.
LEMMA AgreementHolds ==
  ASSUME NEW cs \in Seq(Children), Len(cs) = 1, NEW t \in BOOLEAN,
         NEW x \in Inputs
  PROVE  CastAgreement(cs, t, x)
  BY DEF CastAgreement, Eval, ConstructCast, ConstructTryCast

\* The invariant gives each of the properties the run checks.
LEMMA IInvProperties ==
  IInv => TypeOK /\ CastTotal /\ OverflowOnlyDifference /\ SingleChildMoved
<1> SUFFICES ASSUME IInv
             PROVE  TypeOK /\ CastTotal /\ OverflowOnlyDifference
                    /\ SingleChildMoved
  OBVIOUS
<1>1. CASE out = None
  BY <1>1 DEF IInv, CastTotal, OverflowOnlyDifference
<1>2. CASE out # None
  <2>1. /\ expr \in CastExprs /\ form \in {"cast", "try_cast"}
        /\ expr = Constructed(form, call, expr.track)
        /\ Len(call) = 1 /\ call \in Seq(Children) /\ rows \in Seq(Inputs)
        /\ DOMAIN out = DOMAIN rows
        /\ \A i \in DOMAIN rows : out[i] = Eval(expr, rows[i])
    BY <1>2 DEF IInv, TypeOK, SingleChildMoved
  <2>2. expr.isTryCast /\ expr.track \in BOOLEAN
    BY <2>1 DEF Constructed, ConstructCast, ConstructTryCast, CastExprs
  <2>3. \A i \in DOMAIN rows : rows[i] \in Inputs
    BY <2>1
  <2>4. CastTotal
    BY <2>1, <2>2, <2>3, EvalTryTotal DEF CastTotal
  <2>5. OverflowOnlyDifference
    BY <2>1, <2>2, <2>3, AgreementHolds DEF OverflowOnlyDifference, Constructed
  <2>6. QED
    BY <2>4, <2>5 DEF IInv
<1>3. QED
  BY <1>1, <1>2

\* IInv holds in every state of a behaviour: every expression the two
\* constructSpecialForm functions build holds its call's one child, with
\* the isTryCast and allowOverflow flags its constructor sets, and its
\* output on every batch is the row-wise evaluation, for every width.
THEOREM Invariance == Spec => []IInv
  BY InitIInv, IInvStep, PTL DEF Spec

\* Type correctness of the constructors and of evaluation.
THEOREM TypeCorrect == Spec => []TypeOK
  BY Invariance, IInvProperties, PTL

\* A Spark CAST or TRY_CAST with ANSI mode off never fails on a row and
\* never yields a value outside the target type, for every width.
THEOREM CastTotality == Spec => []CastTotal
  BY Invariance, IInvProperties, PTL

\* CAST and TRY_CAST differ only on overflow, for every width.
THEOREM OverflowOnly == Spec => []OverflowOnlyDifference
  BY Invariance, IInvProperties, PTL

\* Each constructed expression holds the one child of its call, which the
\* caller no longer holds.
THEOREM ChildMoved == Spec => []SingleChildMoved
  BY Invariance, IInvProperties, PTL

=============================================================================
