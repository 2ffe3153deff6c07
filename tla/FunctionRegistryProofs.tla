---------------------- MODULE FunctionRegistryProofs ----------------------
(* Proof that registerFunction respects its overwrite flag on the name the *)
(* overwrite test uses, for every sequence of the registrations and        *)
(* removals the tests make on it (OverwriteRespected).                    *)
EXTENDS FunctionRegistry, FiniteSetTheorems, TLAPS

\* The argument types of foo's simple signatures.
FooTypes == {"integer", "bigint", "real", "double"}

\* Only the overwrite test's binary signatures are ever registered under
\* "foo", each with one of its two implementations.
FooInv ==
  /\ DOMAIN simple = Names
  /\ \E D \in SUBSET FooSimpleSigs : simple["foo"] \in [D -> FooImpls]

\* Both spellings the test uses sanitize to "foo", a registered name.
LEMMA FooName ==
  /\ SanitizeName("foo") = "foo" /\ SanitizeName("Foo") = "foo"
  /\ "foo" \in Names /\ "foo" \notin DOMAIN FixtureSimple
  BY DEF SanitizeName, Names, FixtureSimple

LEMMA InitFooInv == Init => FooInv
<1> SUFFICES ASSUME Init PROVE FooInv
  OBVIOUS
<1>1. simple["foo"] = <<>> /\ DOMAIN simple = Names
  BY FooName DEF Init
<1>2. <<>> \in [{} -> FooImpls]
  OBVIOUS
<1>. QED  BY <1>1, <1>2 DEF FooInv

LEMMA FooInvStep == FooInv /\ [Next]_vars => FooInv'
<1> SUFFICES ASSUME FooInv, [Next]_vars PROVE FooInv'
  OBVIOUS
<1>1. ASSUME NEW a \in {"foo", "Foo"}, NEW s \in FooSimpleSigs, NEW i \in FooImpls,
             NEW o \in BOOLEAN, RegisterSimple(a, s, i, o)
      PROVE  FooInv'
  <2>1. PICK D \in SUBSET FooSimpleSigs : simple["foo"] \in [D -> FooImpls]
    BY DEF FooInv
  <2>2. simple' = IF result' THEN [simple EXCEPT !["foo"] = Put(@, s, i)] ELSE simple
    BY <1>1, FooName DEF RegisterSimple
  <2>3. Put(simple["foo"], s, i) \in [D \cup {s} -> FooImpls]
    BY <2>1 DEF Put
  <2>. QED  BY <2>1, <2>2, <2>3, FooName DEF FooInv
<1>2. ASSUME NEW a \in {"foo", "Foo"}, NEW ss \in FooVectorSigs, NEW i \in FooImpls,
             NEW o \in BOOLEAN, RegisterVector(a, ss, i, o)
      PROVE  FooInv'
  BY <1>2 DEF RegisterVector, FooInv
<1>3. CASE RemoveFunction("foo")
  <2>1. simple' = [simple EXCEPT !["foo"] = <<>>]
    BY <1>3 DEF RemoveFunction
  <2>2. <<>> \in [{} -> FooImpls]
    OBVIOUS
  <2>. QED  BY <2>1, <2>2, FooName DEF FooInv
<1>4. CASE UNCHANGED vars
  BY <1>4 DEF vars, FooInv
<1>. QED  BY <1>1, <1>2, <1>3, <1>4 DEF Next

-----------------------------------------------------------------------------
(* Resolution of a call of foo with two equal argument types.            *)

\* Foo's binary signature over u binds the call <<t, t>> exactly when u is
\* t: its parameters are concrete, so neither "T" nor "any" applies.
LEMMA BindsBinary ==
  ASSUME NEW t \in FooTypes, NEW u \in FooTypes
  PROVE  Binds(Binary(u), <<t, t>>) <=> u = t
BY DEF Binds, ParamAt, Binary, Sig, FooTypes

\* The priority of a binary signature is a number.
LEMMA RankInt ==
  ASSUME NEW t \in FooTypes
  PROVE  Rank(Binary(t)) \in Int
<1> DEFINE C == {k \in DOMAIN Binary(t).args : IsConcrete(Binary(t).args[k])}
<1>1. C \subseteq 1..2
  BY DEF Binary, Sig
<1>2. IsFiniteSet(1..2)
  <2>1. \A a, b \in Int : IsFiniteSet(a..b)
    BY FS_Interval
  <2>2. 1 \in Int /\ 2 \in Int
    OBVIOUS
  <2>. QED  BY <2>1, <2>2, Zenon
<1>3. Cardinality(C) \in Nat
  BY <1>1, <1>2, FS_Subset, FS_CardinalityType
<1>. QED  BY <1>3 DEF Rank, B

\* When a step leaves the binary signature s = Binary(t) registered under
\* foo among other binary signatures, a call with exactly its argument
\* types runs its implementation.
LEMMA RunsRegistered ==
  ASSUME NEW D \in SUBSET FooSimpleSigs, NEW t \in FooTypes,
         simple'["foo"] \in [D \cup {Binary(t)} -> FooImpls]
  PROVE  Runs("foo", <<t, t>>)' = {simple'["foo"][Binary(t)]}
<1> DEFINE F == simple'["foo"]
           bound == {b \in DOMAIN F : Binds(b, <<t, t>>)}
           best == {b \in bound : \A o \in bound : Rank(b) <= Rank(o)}
<1>1. bound = {Binary(t)}
  <2>1. \A b \in D \cup {Binary(t)} : Binds(b, <<t, t>>) <=> b = Binary(t)
    <3> SUFFICES ASSUME NEW u \in FooTypes
                 PROVE  Binds(Binary(u), <<t, t>>) <=> Binary(u) = Binary(t)
      BY DEF FooSimpleSigs, FooTypes
    <3>1. Binary(u) = Binary(t) <=> u = t
      BY DEF Binary, Sig
    <3>. QED  BY <3>1, BindsBinary
  <2>. QED  BY <2>1
<1>2. best = {Binary(t)}
  BY <1>1, RankInt
<1>3. Runs("foo", <<t, t>>)' = {F[b] : b \in best}
  BY <1>2, FooName DEF Runs
<1>. QED  BY <1>2, <1>3

-----------------------------------------------------------------------------
(* OverwriteRespected.                                                    *)

\* The step that OverwriteRespected requires of every registry step.
RespectedStep ==
  \A s \in FooSimpleSigs, i \in FooImpls :
    last' = [sig |-> s, impl |-> i] =>
      IF result'
        THEN Runs("foo", s.args)' = {i}
        ELSE \A x, y \in Scalars : Runs("foo", <<x, y>>)' = Runs("foo", <<x, y>>)

\* A simple registration on foo is refused and changes nothing, or is
\* accepted and makes a call with its argument types run its
\* implementation; every other step records no registration.
LEMMA RespectedFromInv == FooInv /\ [Next]_vars => [RespectedStep]_vars
<1> SUFFICES ASSUME FooInv, [Next]_vars PROVE [RespectedStep]_vars
  OBVIOUS
<1>1. ASSUME NEW a \in {"foo", "Foo"}, NEW s0 \in FooSimpleSigs, NEW i0 \in FooImpls,
             NEW o \in BOOLEAN, RegisterSimple(a, s0, i0, o)
      PROVE  RespectedStep
  <2> SUFFICES ASSUME NEW s \in FooSimpleSigs, NEW i \in FooImpls,
                      last' = [sig |-> s, impl |-> i]
               PROVE  IF result'
                        THEN Runs("foo", s.args)' = {i}
                        ELSE \A x, y \in Scalars :
                               Runs("foo", <<x, y>>)' = Runs("foo", <<x, y>>)
    BY DEF RespectedStep
  <2>1. s = s0 /\ i = i0
    BY <1>1 DEF RegisterSimple
  <2>2. /\ simple' = IF result' THEN [simple EXCEPT !["foo"] = Put(@, s, i)]
                                ELSE simple
        /\ vector' = vector
    BY <1>1, <2>1, FooName DEF RegisterSimple
  <2>3. CASE result'
    <3>1. PICK t \in FooTypes : s = Binary(t)
      BY DEF FooSimpleSigs, FooTypes
    <3>2. PICK D \in SUBSET FooSimpleSigs : simple["foo"] \in [D -> FooImpls]
      BY DEF FooInv
    <3>3. simple'["foo"] = Put(simple["foo"], s, i)
      BY <2>2, <2>3, FooName DEF FooInv
    <3>4. simple'["foo"] \in [D \cup {Binary(t)} -> FooImpls]
          /\ simple'["foo"][Binary(t)] = i
      BY <3>1, <3>2, <3>3 DEF Put
    <3>5. Runs("foo", <<t, t>>)' = {i}
      BY <3>1, <3>4, RunsRegistered
    <3>6. s.args = <<t, t>>
      BY <3>1 DEF Binary, Sig
    <3>. QED  BY <2>3, <3>5, <3>6
  <2>4. CASE ~result'
    <3>1. simple' = simple /\ vector' = vector
      BY <2>2, <2>4
    <3>. QED  BY <2>4, <3>1 DEF Runs, ResolveVector
  <2>. QED  BY <2>3, <2>4
<1>2. ASSUME NEW a \in {"foo", "Foo"}, NEW ss \in FooVectorSigs, NEW i0 \in FooImpls,
             NEW o \in BOOLEAN, RegisterVector(a, ss, i0, o)
      PROVE  RespectedStep
  BY <1>2, NoneAssumption DEF RegisterVector, RespectedStep
<1>3. CASE RemoveFunction("foo")
  BY <1>3, NoneAssumption DEF RemoveFunction, RespectedStep
<1>4. CASE UNCHANGED vars
  BY <1>4 DEF vars
<1>. QED  BY <1>1, <1>2, <1>3, <1>4 DEF Next

\* registerFunction with overwrite = false never replaces a registered
\* implementation: after a refused simple registration of foo every
\* two-argument call runs what it ran before, and after an accepted one a
\* call with the registered argument types runs the new implementation,
\* whatever vector function or other signatures foo has, after every
\* sequence of the registrations and removals the overwrite test makes.
THEOREM OverwriteSafe == Spec => OverwriteRespected
<1>1. Spec => []FooInv
  BY InitFooInv, FooInvStep, PTL DEF Spec
<1>. QED  BY <1>1, RespectedFromInv, PTL DEF Spec, OverwriteRespected, RespectedStep

-----------------------------------------------------------------------------
(* TypeOK.                                                                *)

\* Tuples of one and of three elements of S are non-empty sequences over S.
LEMMA TupleSeq ==
  ASSUME NEW S, NEW a \in S, NEW b \in S, NEW c \in S
  PROVE  /\ <<a>> \in Seq(S) /\ <<a>> # <<>>
         /\ <<a, b, c>> \in Seq(S) /\ <<a, b, c>> # <<>>
<1>1. <<a>> \in Seq(S) /\ <<a, b, c>> \in Seq(S)
  OBVIOUS
<1>2. <<a>> # <<>> /\ <<a, b, c>> # <<>>
  OBVIOUS
<1>. QED  BY <1>1, <1>2

\* The fixture registers only signatures of AllSigs, and each of its
\* vector functions has a non-empty list of them.
LEMMA FixtureTypes ==
  /\ \A n \in DOMAIN FixtureSimple : DOMAIN FixtureSimple[n] \subseteq AllSigs
  /\ \A n \in DOMAIN FixtureVector :
       FixtureVector[n].sigs \in Seq(AllSigs) /\ FixtureVector[n].sigs # <<>>
<1>1. \A n \in DOMAIN FixtureSimple : DOMAIN FixtureSimple[n] \subseteq AllSigs
  BY DEF FixtureSimple, AllSigs
<1>2. \A n \in DOMAIN FixtureVector :
        FixtureVector[n].sigs \in {<<SVecOne>>, <<SVecTwo>>, <<SVecThree>>}
  BY DEF FixtureVector
<1>3. {SVecOne, SVecTwo, SVecThree} \subseteq AllSigs
  BY DEF AllSigs
<1>4. \A n \in DOMAIN FixtureVector :
        FixtureVector[n].sigs \in Seq(AllSigs) /\ FixtureVector[n].sigs # <<>>
  BY <1>2, <1>3, TupleSeq
<1>. QED  BY <1>1, <1>4

\* The vector signature lists foo is given are non-empty lists of AllSigs.
LEMMA FooVectorTypes ==
  \A ss \in FooVectorSigs : ss \in Seq(AllSigs) /\ ss # <<>>
<1>1. {Binary("integer"), Binary("bigint"), Binary("real"), SVecOne} \subseteq AllSigs
  BY DEF AllSigs, FooSimpleSigs
<1>. QED  BY <1>1, TupleSeq DEF FooVectorSigs

LEMMA InitTypeOK == Init => TypeOK
BY FixtureTypes DEF Init, TypeOK

LEMMA TypeStep == TypeOK /\ [Next]_vars => TypeOK'
<1> SUFFICES ASSUME TypeOK, [Next]_vars PROVE TypeOK'
  OBVIOUS
<1>1. ASSUME NEW a \in {"foo", "Foo"}, NEW s \in FooSimpleSigs, NEW i \in FooImpls,
             NEW o \in BOOLEAN, RegisterSimple(a, s, i, o)
      PROVE  TypeOK'
  BY <1>1, FooName DEF RegisterSimple, TypeOK, Put, AllSigs
<1>2. ASSUME NEW a \in {"foo", "Foo"}, NEW ss \in FooVectorSigs, NEW i \in FooImpls,
             NEW o \in BOOLEAN, RegisterVector(a, ss, i, o)
      PROVE  TypeOK'
  BY <1>2, FooName, FooVectorTypes DEF RegisterVector, TypeOK
<1>3. CASE RemoveFunction("foo")
  BY <1>3, FooName DEF RemoveFunction, TypeOK
<1>4. CASE UNCHANGED vars
  BY <1>4 DEF vars, TypeOK
<1>. QED  BY <1>1, <1>2, <1>3, <1>4 DEF Next

\* The registry keeps its shape: both maps are defined on exactly the
\* registered names, every signature under a name is one the tests
\* register, every vector function has a non-empty signature list, and
\* a simple registration is recorded with one of foo's implementations.
THEOREM TypeCorrect == Spec => []TypeOK
BY InitTypeOK, TypeStep, PTL DEF Spec

====
