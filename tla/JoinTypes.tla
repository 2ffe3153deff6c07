------------------------------ MODULE JoinTypes ------------------------------
(***************************************************************************)
(* What one probe of a hash table produces for each join type, and the    *)
(* SQL reference queries HashJoinTest compares it against.                *)
(*                                                                         *)
(* A probe input and a build input are sequences of single-column join    *)
(* keys, each a key or NULL.  The residual filter is abstracted to its    *)
(* outcome on every (probe row, build row) pair: TRUE, FALSE or NULL,     *)
(* since a predicate over the other columns can yield any such table.     *)
(* Output rows are identified by row indices: <<i, j>> joins probe row i  *)
(* with build row j, and index 0 on one side is the NULL-extended row.   *)
(***************************************************************************)
EXTENDS Naturals, Sequences

CONSTANTS
  Keys,     \* the non-null join key values
  Null,     \* SQL NULL
  MaxRows   \* the most rows on each side

ASSUME NullAssumption == Null \notin Keys /\ Null \notin BOOLEAN
ASSUME MaxRowsAssumption == MaxRows \in Nat

Vals == Keys \cup {Null}

\* SQL three-valued logic over TRUE, FALSE and NULL.
Bool3 == BOOLEAN \cup {Null}
Not3(a) == IF a = Null THEN Null ELSE ~a
And3(a, b) == IF a = FALSE \/ b = FALSE THEN FALSE
              ELSE IF a = Null \/ b = Null THEN Null ELSE TRUE
Eq3(x, y) == IF x = Null \/ y = Null THEN Null ELSE x = y
\* x IN S for a set S of three-valued comparison outcomes.
AnyOf3(S) == IF TRUE \in S THEN TRUE ELSE IF Null \in S THEN Null ELSE FALSE

\* Sequences of at most MaxRows values.
Inputs == UNION {[1..n -> Vals] : n \in 0..MaxRows}

VARIABLES probe, build, filter

vars == <<probe, build, filter>>

PI == 1..Len(probe)
BI == 1..Len(build)

Init ==
  /\ probe \in Inputs
  /\ build \in Inputs
  /\ filter \in [PI \X BI -> Bool3]

\* Evaluating the join changes nothing: the run checks the outputs of every
\* input Init can choose.
Next == UNCHANGED vars

Spec == Init /\ [][Next]_vars

-----------------------------------------------------------------------------
(* The hash probe (HashProbe's per-batch loop).                           *)

\* Mutant: a NULL filter result is taken as a pass.
FilterPassesUnlessFalse(i, j) == filter[<<i, j>>] # FALSE

\* Lookup: a NULL key is never inserted into, nor found in, the hash table.
KeyMatch(i, j) == probe[i] # Null /\ build[j] # Null /\ probe[i] = build[j]

\* The residual filter on a looked-up pair: a NULL result counts as false.
FilterPasses(i, j) == filter[<<i, j>>] = TRUE

Hit(i, j) == KeyMatch(i, j) /\ FilterPasses(i, j)

HasHit(i) == \E j \in BI : Hit(i, j)
WasHit(j) == \E i \in PI : Hit(i, j)

HashInner == {pr \in PI \X BI : Hit(pr[1], pr[2])}
HashLeft == HashInner \cup {<<i, 0>> : i \in {k \in PI : ~HasHit(k)}}
HashRight == HashInner \cup {<<0, j>> : j \in {k \in BI : ~WasHit(k)}}
HashFull == HashLeft \cup HashRight

\* Inner-style joins drop NULL-key probe rows before lookup; anti keeps
\* them, and they come out unmatched.
HashLeftSemiFilter == {i \in PI : HasHit(i)}
HashRightSemiFilter == {j \in BI : WasHit(j)}
\* Mutant: the anti join drops NULL-key probe rows like an inner join.
HashAntiDropNullKeys == {i \in PI : probe[i] # Null /\ ~HasHit(i)}
HashAnti == {i \in PI : ~HasHit(i)}
HashLeftSemiProject == {<<i, HasHit(i)>> : i \in PI}

\* Null-aware variants: a probe row that has no hit is not a provable
\* non-match when some build row the filter accepts has a NULL key, or its
\* own key is NULL and the filter accepts some build row.
\* Mutant: only the probe row's own NULL key makes the outcome unknown.
UnknownProbeSideOnly(i) == \E j \in BI : filter[<<i, j>>] = TRUE /\ probe[i] = Null
Unknown(i) == \E j \in BI : filter[<<i, j>>] = TRUE
                            /\ (probe[i] = Null \/ build[j] = Null)
NullAwareMatch(i) == IF HasHit(i) THEN TRUE
                     ELSE IF Unknown(i) THEN Null ELSE FALSE
HashNullAwareAnti == {i \in PI : NullAwareMatch(i) = FALSE}
HashNullAwareLeftSemiProject == {<<i, NullAwareMatch(i)>> : i \in PI}

\* Null-aware right semi project (no residual filter is allowed): a build
\* row without a hit is unknown when its key is NULL and the probe side is
\* not empty, or when the probe side has a NULL key.
RightUnknown(j) == PI # {} /\ (build[j] = Null \/ \E i \in PI : probe[i] = Null)
HashNullAwareRightSemiProject ==
  {<<j, IF \E i \in PI : KeyMatch(i, j) THEN TRUE ELSE IF RightUnknown(j) THEN Null ELSE FALSE>> :
     j \in BI}

-----------------------------------------------------------------------------
(* The reference queries.                                                 *)

\* The join condition t.k = u.k AND filter, in three-valued logic.
On(i, j) == And3(Eq3(probe[i], build[j]), filter[<<i, j>>])

\* SELECT ... FROM t, u WHERE t.k = u.k AND filter
RefInner == {pr \in PI \X BI : On(pr[1], pr[2]) = TRUE}
\* t LEFT / RIGHT / FULL JOIN u ON t.k = u.k AND filter
RefLeft == RefInner \cup {<<i, 0>> : i \in {k \in PI : \A j \in BI : On(k, j) # TRUE}}
RefRight == RefInner \cup {<<0, j>> : j \in {k \in BI : \A i \in PI : On(i, k) # TRUE}}
RefFull == RefLeft \cup RefRight
\* SELECT t.* FROM t WHERE EXISTS (SELECT * FROM u WHERE t.k = u.k AND filter)
RefLeftSemiFilter == {i \in PI : \E j \in BI : On(i, j) = TRUE}
\* SELECT u.* FROM u WHERE EXISTS (SELECT * FROM t WHERE t.k = u.k AND filter)
RefRightSemiFilter == {j \in BI : \E i \in PI : On(i, j) = TRUE}
\* SELECT t.* FROM t WHERE NOT EXISTS (SELECT * FROM u WHERE t.k = u.k AND filter)
RefAnti == {i \in PI : ~\E j \in BI : On(i, j) = TRUE}
\* SELECT t.*, EXISTS (SELECT * FROM u WHERE t.k = u.k AND filter) FROM t
RefLeftSemiProject == {<<i, \E j \in BI : On(i, j) = TRUE>> : i \in PI}
\* t.k IN (SELECT u.k FROM u WHERE filter)
RefIn(i) == AnyOf3({Eq3(probe[i], build[j]) : j \in {k \in BI : filter[<<i, k>>] = TRUE}})
\* SELECT t.* FROM t WHERE t.k NOT IN (SELECT u.k FROM u WHERE filter)
RefNullAwareAnti == {i \in PI : Not3(RefIn(i)) = TRUE}
\* SELECT t.*, t.k IN (SELECT u.k FROM u WHERE filter) FROM t
RefNullAwareLeftSemiProject == {<<i, RefIn(i)>> : i \in PI}
\* SELECT u.k, u.k IN (SELECT t.k FROM t) FROM u
RefNullAwareRightSemiProject ==
  {<<j, AnyOf3({Eq3(build[j], probe[i]) : i \in PI})>> : j \in BI}


-----------------------------------------------------------------------------
(* Properties: every join type's probe output equals its reference query. *)

\* Inner, left, right and full joins, including a filter that yields NULL
\* and NULL keys on either side, produce exactly the rows of the SQL join.
OuterJoinsMatch ==
  /\ HashInner = RefInner
  /\ HashLeft = RefLeft
  /\ HashRight = RefRight
  /\ HashFull = RefFull

\* Semi filter joins, the anti join and the semi project join agree with
\* EXISTS and NOT EXISTS: NULL keys never match, and a NULL-key probe row
\* is kept by the anti join.
SemiAntiMatch ==
  /\ HashLeftSemiFilter = RefLeftSemiFilter
  /\ HashRightSemiFilter = RefRightSemiFilter
  /\ HashAnti = RefAnti
  /\ HashLeftSemiProject = RefLeftSemiProject

\* The null-aware joins agree with IN and NOT IN in three-valued logic:
\* the probe's eager NULL detection on either side, under the filter,
\* yields NULL exactly when SQL's IN does.
NullAwareJoinsMatch ==
  /\ HashNullAwareAnti = RefNullAwareAnti
  /\ HashNullAwareLeftSemiProject = RefNullAwareLeftSemiProject
  /\ HashNullAwareRightSemiProject = RefNullAwareRightSemiProject

\* The design document (section 4.5) says a NULL key on the probe side
\* makes the whole null-aware anti join return empty.
SpecNullAwareAntiEmptyOnProbeNull ==
  (\E i \in PI : probe[i] = Null) => HashNullAwareAnti = {}

=============================================================================
