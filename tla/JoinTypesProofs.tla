-------------------------- MODULE JoinTypesProofs --------------------------
(* The hash probe of every join type produces exactly what its SQL        *)
(* reference query returns, for every set of key values, every pair of    *)
(* inputs with NULL keys anywhere and every filter outcome table, not     *)
(* only the two-row instance the run enumerates.                          *)
EXTENDS JoinTypes, TLAPS

\* The inputs the join is evaluated on.
TypeOK ==
  /\ probe \in Inputs /\ build \in Inputs
  /\ filter \in [PI \X BI -> Bool3]

\* A bounded input is a sequence of values.
LEMMA InputValues ==
  ASSUME NEW s \in Inputs
  PROVE  \A i \in 1..Len(s) : s[i] \in Vals
<1>1. PICK n \in 0..MaxRows : s \in [1..n -> Vals]
  BY DEF Inputs
<1>2. Len(s) = n
  BY <1>1, MaxRowsAssumption
<1>. QED  BY <1>1, <1>2

\* The reference's join condition holds exactly for the pairs the hash
\* probe finds: SQL's t.k = u.k is never TRUE on a NULL key, and the
\* conjunction with the filter is TRUE only when both are.
LEMMA OnIffHit ==
  ASSUME TypeOK, NEW i \in PI, NEW j \in BI
  PROVE  On(i, j) = TRUE <=> Hit(i, j)
<1>1. probe[i] \in Vals /\ build[j] \in Vals /\ filter[<<i, j>>] \in Bool3
  BY InputValues DEF TypeOK, PI, BI
<1>2. Eq3(probe[i], build[j]) = TRUE <=> KeyMatch(i, j)
  BY NullAssumption DEF Eq3, KeyMatch
<1>3. Eq3(probe[i], build[j]) \in Bool3
  BY DEF Eq3, Bool3
<1>. QED  BY <1>2, <1>3, <1>1, NullAssumption
          DEF On, And3, Hit, FilterPasses, Bool3

\* Inner, left, right and full joins produce exactly the SQL join's rows.
LEMMA OuterFromType == TypeOK => OuterJoinsMatch
<1> SUFFICES ASSUME TypeOK PROVE OuterJoinsMatch
  OBVIOUS
<1>1. \A i \in PI, j \in BI : On(i, j) = TRUE <=> Hit(i, j)
  BY OnIffHit
<1>2. HashInner = RefInner
  BY <1>1 DEF HashInner, RefInner
<1>3. HashLeft = RefLeft
  BY <1>1, <1>2 DEF HashLeft, RefLeft, HasHit
<1>4. HashRight = RefRight
  BY <1>1, <1>2 DEF HashRight, RefRight, WasHit
<1>. QED  BY <1>2, <1>3, <1>4 DEF OuterJoinsMatch, HashFull, RefFull

\* The semi and anti joins agree with EXISTS and NOT EXISTS.
LEMMA SemiAntiFromType == TypeOK => SemiAntiMatch
<1> SUFFICES ASSUME TypeOK PROVE SemiAntiMatch
  OBVIOUS
<1>1. \A i \in PI, j \in BI : On(i, j) = TRUE <=> Hit(i, j)
  BY OnIffHit
<1>2. \A i \in PI : HasHit(i) = \E j \in BI : On(i, j) = TRUE
  BY <1>1 DEF HasHit
<1>. QED
  BY <1>1, <1>2
  DEF SemiAntiMatch, HashLeftSemiFilter, RefLeftSemiFilter, HashRightSemiFilter,
      RefRightSemiFilter, WasHit, HashAnti, RefAnti, HashLeftSemiProject,
      RefLeftSemiProject

\* SQL's equality on two values is TRUE exactly on equal keys and NULL
\* exactly when one side is NULL.
LEMMA Eq3Cases ==
  ASSUME NEW x \in Vals, NEW y \in Vals
  PROVE  /\ Eq3(x, y) = TRUE <=> x # Null /\ y # Null /\ x = y
         /\ Eq3(x, y) = Null <=> x = Null \/ y = Null
BY NullAssumption DEF Eq3

\* The IN of the null-aware left joins is the probe's match outcome: TRUE
\* on a hit, NULL when no hit but the filter accepts a build row with a
\* NULL key on either side, FALSE otherwise.
LEMMA RefInIsMatch ==
  ASSUME TypeOK, NEW i \in PI
  PROVE  RefIn(i) = NullAwareMatch(i)
<1> DEFINE S == {Eq3(probe[i], build[j]) : j \in {k \in BI : filter[<<i, k>>] = TRUE}}
<1>1. probe[i] \in Vals /\ \A j \in BI : build[j] \in Vals
  BY InputValues DEF TypeOK, PI, BI
<1>2. TRUE \in S <=> HasHit(i)
  <2>1. TRUE \in S <=> \E j \in BI : filter[<<i, j>>] = TRUE
                                     /\ Eq3(probe[i], build[j]) = TRUE
    OBVIOUS
  <2>2. \A j \in BI : Hit(i, j) <=> filter[<<i, j>>] = TRUE
                                   /\ Eq3(probe[i], build[j]) = TRUE
    BY <1>1, Eq3Cases DEF Hit, KeyMatch, FilterPasses
  <2>. QED  BY <2>1, <2>2 DEF HasHit
<1>3. Null \in S <=> Unknown(i)
  BY <1>1, Eq3Cases DEF Unknown
<1>. QED  BY <1>2, <1>3 DEF RefIn, AnyOf3, NullAwareMatch

\* The IN of the null-aware right semi project is the build row's outcome.
LEMMA RightInIsMatch ==
  ASSUME TypeOK, NEW j \in BI
  PROVE  AnyOf3({Eq3(build[j], probe[i]) : i \in PI})
           = IF \E i \in PI : KeyMatch(i, j) THEN TRUE
             ELSE IF RightUnknown(j) THEN Null ELSE FALSE
<1> DEFINE S == {Eq3(build[j], probe[i]) : i \in PI}
<1>1. build[j] \in Vals /\ \A i \in PI : probe[i] \in Vals
  BY InputValues DEF TypeOK, PI, BI
<1>2. TRUE \in S <=> \E i \in PI : KeyMatch(i, j)
  BY <1>1, Eq3Cases DEF KeyMatch
<1>3. Null \in S <=> RightUnknown(j)
  BY <1>1, Eq3Cases DEF RightUnknown
<1>. QED  BY <1>2, <1>3 DEF AnyOf3

\* The null-aware joins agree with IN and NOT IN.
LEMMA NullAwareFromType == TypeOK => NullAwareJoinsMatch
<1> SUFFICES ASSUME TypeOK PROVE NullAwareJoinsMatch
  OBVIOUS
<1>1. \A i \in PI : RefIn(i) = NullAwareMatch(i)
  BY RefInIsMatch
<1>2. \A i \in PI : Not3(RefIn(i)) = TRUE <=> NullAwareMatch(i) = FALSE
  BY <1>1, NullAssumption DEF Not3, NullAwareMatch
<1>3. HashNullAwareAnti = RefNullAwareAnti
  BY <1>2 DEF HashNullAwareAnti, RefNullAwareAnti
<1>4. HashNullAwareLeftSemiProject = RefNullAwareLeftSemiProject
  BY <1>1 DEF HashNullAwareLeftSemiProject, RefNullAwareLeftSemiProject
<1>5. HashNullAwareRightSemiProject = RefNullAwareRightSemiProject
  BY RightInIsMatch DEF HashNullAwareRightSemiProject, RefNullAwareRightSemiProject
<1>. QED  BY <1>3, <1>4, <1>5 DEF NullAwareJoinsMatch

-----------------------------------------------------------------------------
(* Theorems.                                                              *)

\* The inputs Init chooses are kept, since evaluating the joins changes
\* nothing.
LEMMA TypeInvariant == Spec => []TypeOK
<1>1. Init => TypeOK
  BY DEF Init, TypeOK
<1>2. TypeOK /\ [Next]_vars => TypeOK'
  BY DEF TypeOK, Next, vars, PI, BI
<1>. QED  BY <1>1, <1>2, PTL DEF Spec

\* On every input, the hash probe's inner, left, right and full joins
\* return exactly the rows of the SQL joins, NULL keys and NULL filter
\* results included.
THEOREM OuterJoinsCorrect == Spec => []OuterJoinsMatch
BY TypeInvariant, OuterFromType, PTL

\* On every input, the semi filter, anti and semi project joins agree with
\* EXISTS and NOT EXISTS; a NULL-key probe row is kept by the anti join.
THEOREM SemiAntiCorrect == Spec => []SemiAntiMatch
BY TypeInvariant, SemiAntiFromType, PTL

\* On every input, the probe's eager NULL detection makes the null-aware
\* anti, left semi project and right semi project joins agree with NOT IN
\* and IN in three-valued logic.
THEOREM NullAwareCorrect == Spec => []NullAwareJoinsMatch
BY TypeInvariant, NullAwareFromType, PTL

=============================================================================
