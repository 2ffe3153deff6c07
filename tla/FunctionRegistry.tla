-------------------------- MODULE FunctionRegistry --------------------------
(***************************************************************************)
(* The scalar function registry as FunctionRegistryTest drives it: two    *)
(* maps from a sanitized (lower-cased) function name, one to the simple   *)
(* functions keyed by signature, one to a vector function with its list   *)
(* of signatures; registration, removal, and the three ways a call is     *)
(* resolved: exact, by priority among simple signatures, and with        *)
(* implicit coercions of the arguments.                                   *)
(*                                                                         *)
(* Types are names.  A signature is a record of argument types (a type,   *)
(* the type variable "T", or "any"), whether its last argument is         *)
(* variadic, and its return type.  The fixture names keep the state the   *)
(* test fixture registers; the calls the tests make on "foo" are the     *)
(* actions.                                                               *)
(***************************************************************************)
EXTENDS Naturals, Sequences, FiniteSets, TLC

CONSTANT None   \* no function / no coercion

Scalars == {"tinyint", "smallint", "integer", "bigint", "real", "double",
            "varchar"}

Sig(args, variadic, ret) == [args |-> args, variadic |-> variadic, ret |-> ret]

\* The signatures the tests register.
SVarchar == Sig(<<"varchar">>, FALSE, "varchar")
STwoInt == Sig(<<"bigint", "integer">>, FALSE, "bigint")
STwoSmall == Sig(<<"bigint", "smallint">>, FALSE, "bigint")
SArray == Sig(<<"array(bigint)">>, FALSE, "array(bigint)")
SBigint == Sig(<<"bigint">>, FALSE, "bigint")
SVariadic == Sig(<<"varchar">>, TRUE, "varchar")
SVecOne == Sig(<<"varchar">>, FALSE, "bigint")
SVecTwo == Sig(<<"array(varchar)">>, FALSE, "array(bigint)")
SVecThree == Sig(<<"any">>, FALSE, "opaque")
PrioritySigs == {Sig(<<"varchar", "any">>, TRUE, "double"),
                 Sig(<<"varchar", "varchar">>, FALSE, "varchar"),
                 Sig(<<"any">>, TRUE, "bigint"),
                 Sig(<<"varchar">>, TRUE, "integer"),
                 Sig(<<"T", "T">>, FALSE, "real")}
Binary(t) == Sig(<<t, t>>, FALSE, t)
FooSimpleSigs == {Binary(t) : t \in {"integer", "bigint", "real", "double"}}
FooVectorSigs == {<<Binary("integer"), Binary("bigint"), Binary("real")>>,
                  <<SVecOne>>}
FooImpls == {"FuncFive", "FuncSix"}

\* None stands for no function and no coercion, never for a registration.
ASSUME NoneAssumption == None \notin [sig : FooSimpleSigs, impl : FooImpls]

\* The map f with key k set to v.
Put(f, k, v) == [x \in DOMAIN f \cup {k} |-> IF x = k THEN v ELSE f[x]]

\* sanitizeName: the spellings the tests use, lower-cased.
SanitizeName(a) ==
  CASE a = "Func_One_Alias" -> "func_one_alias"
    [] a = "funC_onE" -> "func_one"
    [] a = "funC_onE_aliaS" -> "func_one_alias"
    [] a = "Vector_Func_One_Alias" -> "vector_func_one_alias"
    [] a = "vectoR_funC_onE_aliaS" -> "vector_func_one_alias"
    [] a = "vectoR_funC_onE" -> "vector_func_one"
    [] a = "Variadic_Func_Alias" -> "variadic_func_alias"
    [] a = "variadiC_funC_aliaS" -> "variadic_func_alias"
    [] a = "variadiC_funC" -> "variadic_func"
    [] a = "Foo" -> "foo"
    [] OTHER -> a

\* The state registerTestFunctions and the priority test leave.
FixtureSimple ==
  [n \in {"func_one", "func_one_alias", "func_two", "func_three_alias1",
          "func_three_alias2", "func_five", "func_four", "variadic_func",
          "variadic_func_alias", "func_with_priority"} |->
     CASE n \in {"func_one", "func_one_alias"} -> [s \in {SVarchar} |-> "FuncOne"]
       [] n = "func_two" -> [s \in {STwoInt, STwoSmall} |-> "FuncTwo"]
       [] n \in {"func_three_alias1", "func_three_alias2"} ->
            [s \in {SArray} |-> "FuncThree"]
       [] n = "func_five" -> [s \in {SVarchar} |-> "FuncFour"]
       [] n = "func_four" -> [s \in {SBigint} |-> "FuncFive"]
       [] n \in {"variadic_func", "variadic_func_alias"} ->
            [s \in {SVariadic} |-> "VariadicFunc"]
       [] n = "func_with_priority" -> [s \in PrioritySigs |-> "TestFunction"]]
FixtureVector ==
  [n \in {"vector_func_one", "vector_func_one_alias", "vector_func_two",
          "vector_func_three"} |->
     CASE n = "vector_func_two" -> [sigs |-> <<SVecTwo>>, impl |-> "VectorFuncTwo"]
       [] n = "vector_func_three" ->
            [sigs |-> <<SVecThree>>, impl |-> "VectorFuncThree"]
       [] OTHER -> [sigs |-> <<SVecOne>>, impl |-> "VectorFuncOne"]]

Names == DOMAIN FixtureSimple \cup DOMAIN FixtureVector \cup {"foo"}

VARIABLES
  simple,   \* simple[n]: signature -> implementation (SimpleFunctionRegistry)
  vector,   \* vector[n]: [sigs, impl] or None (vectorFunctionFactories)
  result,   \* what the last registration returned
  last      \* the last simple registration's [sig, impl], or None

vars == <<simple, vector, result, last>>

AllSigs == PrioritySigs \cup FooSimpleSigs \cup
           {SVarchar, STwoInt, STwoSmall, SArray, SBigint, SVariadic,
            SVecOne, SVecTwo, SVecThree}

TypeOK ==
  /\ DOMAIN simple = Names /\ DOMAIN vector = Names
  /\ \A n \in Names : DOMAIN simple[n] \subseteq AllSigs
  /\ \A n \in Names : vector[n] = None \/
                        (vector[n].sigs \in Seq(AllSigs) /\ vector[n].sigs # <<>>)
  /\ result \in BOOLEAN
  /\ last \in [sig : FooSimpleSigs, impl : FooImpls] \cup {None}

Init ==
  /\ simple = [n \in Names |-> IF n \in DOMAIN FixtureSimple
                                 THEN FixtureSimple[n] ELSE <<>>]
  /\ vector = [n \in Names |-> IF n \in DOMAIN FixtureVector
                                 THEN FixtureVector[n] ELSE None]
  /\ result = TRUE
  /\ last = None

\* Mutant: the refusal is reported but the entry is written anyway.
RegisterSimpleWriteAlways(a, s, i, overwrite) ==
  LET n == SanitizeName(a) IN
  /\ result' = (s \notin DOMAIN simple[n] \/ overwrite)
  /\ simple' = [simple EXCEPT ![n] = Put(@, s, i)]
  /\ last' = [sig |-> s, impl |-> i]
  /\ UNCHANGED vector

\* registerFunction<F, ...>({a}, {}, overwrite): a signature already
\* registered under the name is replaced only when overwrite is set.
RegisterSimple(a, s, i, overwrite) ==
  LET n == SanitizeName(a) IN
  /\ result' = (s \notin DOMAIN simple[n] \/ overwrite)
  /\ simple' = IF result' THEN [simple EXCEPT ![n] = Put(@, s, i)] ELSE simple
  /\ last' = [sig |-> s, impl |-> i]
  /\ UNCHANGED vector

\* registerVectorFunction(a, sigs, f, {}, overwrite): the name's entry,
\* with all its signatures, is replaced as a whole.
RegisterVector(a, ss, i, overwrite) ==
  LET n == SanitizeName(a) IN
  /\ result' = (vector[n] = None \/ overwrite)
  /\ vector' = IF result' THEN [vector EXCEPT ![n] = [sigs |-> ss, impl |-> i]]
                          ELSE vector
  /\ last' = None
  /\ UNCHANGED simple

\* Mutant: the vector entry is kept with no signatures instead of erased.
RemoveFunctionKeepEntry(n) ==
  /\ simple' = [simple EXCEPT ![n] = <<>>]
  /\ vector' = [vector EXCEPT ![n] = IF @ = None THEN None ELSE [@ EXCEPT !.sigs = <<>>]]
  /\ last' = None
  /\ UNCHANGED result

\* removeFunction(name) erases the name from both maps.
RemoveFunction(n) ==
  /\ simple' = [simple EXCEPT ![n] = <<>>]
  /\ vector' = [vector EXCEPT ![n] = None]
  /\ last' = None
  /\ UNCHANGED result

Next ==
  \/ \E a \in {"foo", "Foo"}, s \in FooSimpleSigs, i \in FooImpls,
        o \in BOOLEAN : RegisterSimple(a, s, i, o)
  \/ \E a \in {"foo", "Foo"}, ss \in FooVectorSigs, i \in FooImpls,
        o \in BOOLEAN : RegisterVector(a, ss, i, o)
  \/ RemoveFunction("foo")

Spec == Init /\ [][Next]_vars

-----------------------------------------------------------------------------
(* Resolution.  Each resolver returns the set of outcomes the registry   *)
(* allows: empty when nothing resolves, more than one when the choice   *)
(* would depend on the iteration order of the maps.                      *)

\* getFunctionSignatures(name): the simple and the vector signatures.
GetFunctionSignatures(a) ==
  LET n == SanitizeName(a) IN
  IF n \notin Names THEN {}
  ELSE DOMAIN simple[n] \cup
       (IF vector[n] = None THEN {} ELSE {vector[n].sigs[k] : k \in DOMAIN vector[n].sigs})

\* The declared type of argument k; a variadic last argument repeats.
ParamAt(sig, k) == IF k <= Len(sig.args) THEN sig.args[k]
                   ELSE sig.args[Len(sig.args)]

\* SignatureBinder: arity, each argument fits its parameter, and every
\* occurrence of the type variable binds to the same type.
Binds(sig, args) ==
  /\ IF sig.variadic THEN Len(args) >= Len(sig.args) - 1
                     ELSE Len(args) = Len(sig.args)
  /\ \A k \in 1..Len(args) : ParamAt(sig, k) \in {args[k], "T", "any"}
  /\ \A k, l \in 1..Len(args) :
       ParamAt(sig, k) = "T" /\ ParamAt(sig, l) = "T" => args[k] = args[l]

B(x) == IF x THEN 1 ELSE 0
IsConcrete(p) == p \notin {"T", "any"}

\* Mutant: the number of concrete arguments does not break ties.
RankIgnoringConcrete(sig) ==
  1000 * B(sig.variadic /\ sig.args[Len(sig.args)] = "any")
  + 100 * B(\E k \in DOMAIN sig.args : ~IsConcrete(sig.args[k]))
  + 10 * B(sig.variadic)

\* The priority of a simple signature, lower first: variadic "any" last,
\* then generic ones, then variadic ones; more concrete arguments first.
Rank(sig) ==
  1000 * B(sig.variadic /\ sig.args[Len(sig.args)] = "any")
  + 100 * B(\E k \in DOMAIN sig.args : ~IsConcrete(sig.args[k]))
  + 10 * B(sig.variadic)
  + (9 - Cardinality({k \in DOMAIN sig.args : IsConcrete(sig.args[k])}))

\* SimpleFunctionRegistry::resolveFunction: the best-ranked binding
\* signatures' return types.
ResolveSimple(n, args) ==
  LET bound == {s \in DOMAIN simple[n] : Binds(s, args)}
  IN  {s.ret : s \in {b \in bound : \A o \in bound : Rank(b) <= Rank(o)}}

\* resolveVectorFunction: the first signature of the list that binds.
ResolveVector(n, args) ==
  IF vector[n] = None THEN {}
  ELSE LET ss == vector[n].sigs
           ks == {k \in DOMAIN ss : Binds(ss[k], args)}
       IN  {ss[k].ret : k \in {m \in ks : \A l \in ks : m <= l}}

\* resolveFunction(name, args): simple functions first, then vector ones.
ResolveFunction(a, args) ==
  LET n == SanitizeName(a) IN
  IF n \notin Names THEN {}
  ELSE IF ResolveSimple(n, args) # {} THEN ResolveSimple(n, args)
  ELSE ResolveVector(n, args)

\* The implementations a call executes (evaluateOnce): those of the
\* best-ranked simple signatures that bind, else the vector function's.
Runs(a, args) ==
  LET n == SanitizeName(a)
      bound == {s \in DOMAIN simple[n] : Binds(s, args)}
      best == {b \in bound : \A o \in bound : Rank(b) <= Rank(o)}
  IN  IF n \notin Names THEN {}
      ELSE IF best # {} THEN {simple[n][b] : b \in best}
      ELSE IF ResolveVector(n, args) # {} THEN {vector[n].impl}
      ELSE {}

\* TypeCoercer: the widenings of a type, cheapest first.
Widenings ==
  [t \in Scalars |->
     CASE t = "tinyint" -> <<"smallint", "integer", "bigint", "real", "double">>
       [] t = "smallint" -> <<"integer", "bigint", "real", "double">>
       [] t = "integer" -> <<"bigint", "real", "double">>
       [] t = "bigint" -> <<"double">>
       [] t = "real" -> <<"double">>
       [] OTHER -> <<>>]

Coercible(from, to) ==
  from = to \/ (from \in Scalars /\ \E k \in DOMAIN Widenings[from] : Widenings[from][k] = to)

\* Mutant: every widening costs the same.
CostFlat(from, to) == IF from = to THEN 0 ELSE 1

CoercionCost(from, to) ==
  IF from = to THEN 0
  ELSE CHOOSE k \in DOMAIN Widenings[from] : Widenings[from][k] = to

\* A signature a call can be coerced to: fixed arity, scalar parameters.
CoercibleTo(sig, args) ==
  /\ ~sig.variadic /\ Len(args) = Len(sig.args)
  /\ \A k \in 1..Len(args) : sig.args[k] \in Scalars /\ Coercible(args[k], sig.args[k])

TotalCost(sig, args) ==
  LET c[k \in 0..Len(args)] ==
        IF k = 0 THEN 0 ELSE c[k - 1] + CoercionCost(args[k], sig.args[k])
  IN  c[Len(args)]

Cheapest(S, args) ==
  {s \in S : CoercibleTo(s, args) /\
             \A o \in S : CoercibleTo(o, args) => TotalCost(s, args) <= TotalCost(o, args)}

\* The coercions a chosen signature implies: None where the type is kept.
CoercionsFor(sig, args) ==
  [k \in 1..Len(args) |-> IF args[k] = sig.args[k] THEN None ELSE sig.args[k]]

Outcomes(S, args) == {<<s.ret, CoercionsFor(s, args)>> : s \in S}

\* resolveFunctionWithCoercions (testCoercions, testNoCoercions and
\* testCannotResolve): a call that resolves exactly gets no coercions;
\* else the cheapest coercion to any signature of the name.  The tests
\* register "foo" either with simple or with vector signatures, never
\* both, so no order between the two maps is assumed: in a mixed registry
\* every cheapest signature of either map is a possible outcome.
ResolveWithCoercions(a, args) ==
  LET n == SanitizeName(a)
      vs == IF vector[n] = None THEN {} ELSE {vector[n].sigs[k] : k \in DOMAIN vector[n].sigs}
  IN  IF ResolveFunction(a, args) # {}
        THEN {<<t, [k \in 1..Len(args) |-> None]>> : t \in ResolveFunction(a, args)}
      ELSE Outcomes(Cheapest(DOMAIN simple[n] \cup vs, args), args)

-----------------------------------------------------------------------------
(* Properties.                                                             *)

NoCoercions(args) == [k \in 1..Len(args) |-> None]

\* resolveFunction(a, args) yields t (None: nothing resolves).
Resolves(a, args, t) == ResolveFunction(a, args) = IF t = None THEN {} ELSE {t}

\* The fixture's signatures are listed under every alias and no other
\* name, and exact resolution gives what the fixture tests expect: wrong types and
\* names resolve to nothing, variadic signatures take zero or more
\* arguments, mixed-case names resolve, vector functions resolve (with
\* no coercions either), and among several simple signatures that bind
\* the one of highest priority wins.
PriorityMatchesTests ==
  /\ GetFunctionSignatures("func_one") = {SVarchar}
  /\ GetFunctionSignatures("vector_func_one") = {SVecOne}
  /\ GetFunctionSignatures("func_two") = {STwoInt, STwoSmall}
  /\ GetFunctionSignatures("func_three") = {}
  /\ GetFunctionSignatures("non-existent-function") = {}
  /\ Resolves("func_one", <<"varchar">>, "varchar")
  /\ Resolves("func_one", <<"integer">>, None)
  /\ Resolves("method_one", <<"varchar">>, None)
  /\ Resolves("func_two", <<"bigint", "integer">>, "bigint")
  /\ Resolves("variadic_func", <<>>, "varchar")
  /\ Resolves("variadic_func", <<"varchar">>, "varchar")
  /\ Resolves("variadic_func", <<"varchar", "varchar">>, "varchar")
  /\ Resolves("variadic_func", <<"integer">>, None)
  /\ Resolves("funC_onE", <<"varchar">>, "varchar")
  /\ Resolves("funC_onE_aliaS", <<"varchar">>, "varchar")
  /\ Resolves("variadiC_funC_aliaS", <<"varchar", "varchar">>, "varchar")
  /\ Resolves("variadiC_funC", <<>>, "varchar")
  /\ \A c \in {<<"vector_func_one", <<"varchar">>, "bigint">>,
               <<"vectoR_funC_onE", <<"varchar">>, "bigint">>,
               <<"vectoR_funC_onE_aliaS", <<"varchar">>, "bigint">>,
               <<"vector_func_two", <<"array(varchar)">>, "array(bigint)">>,
               <<"vector_func_three", <<"real">>, "opaque">>} :
       /\ Resolves(c[1], c[2], c[3])
       /\ ResolveWithCoercions(c[1], c[2]) = {<<c[3], NoCoercions(c[2])>>}
  /\ Resolves("vector_func_one", <<"integer">>, None)
  /\ Resolves("vector_method_one", <<"varchar">>, None)
  /\ Resolves("func_with_priority", <<"varchar", "varchar">>, "varchar")
  /\ Resolves("func_with_priority", <<"varchar", "varchar", "varchar">>, "integer")
  /\ Resolves("func_with_priority", <<"varchar", "integer">>, "double")
  /\ Resolves("func_with_priority", <<"integer", "varchar">>, "bigint")
  /\ Resolves("func_with_priority", <<"integer", "integer">>, "real")

\* The expectations of resolveFunctionWithCoercions for the calls it makes.
CoercionCases(withDouble) ==
  /\ \A c \in {<<<<"tinyint", "tinyint">>, "integer", <<"integer", "integer">>>>,
               <<<<"tinyint", "smallint">>, "integer", <<"integer", "integer">>>>,
               <<<<"smallint", "tinyint">>, "integer", <<"integer", "integer">>>>,
               <<<<"tinyint", "real">>, "real", <<"real", None>>>>,
               <<<<"real", "tinyint">>, "real", <<None, "real">>>>} :
       /\ ResolveFunction("foo", c[1]) = {}
       /\ ResolveWithCoercions("foo", c[1]) = {<<c[2], c[3]>>}
  /\ \A t \in IF withDouble THEN {"integer", "real", "double"} ELSE {"integer", "real"} :
       ResolveWithCoercions("foo", <<t, t>>) = {<<t, <<None, None>>>>}
  /\ ResolveWithCoercions("foo", <<"tinyint", "varchar">>) = {}

\* Whenever "foo" holds exactly the four simple signatures, or exactly the
\* three-signature vector function, of resolveFunctionWithCoercions, the
\* cheapest coercions the test expects are chosen.
CoercionMatchesTests ==
  /\ (DOMAIN simple["foo"] = FooSimpleSigs /\ vector["foo"] = None) =>
       CoercionCases(TRUE)
  /\ (DOMAIN simple["foo"] = {} /\ vector["foo"] # None /\
      vector["foo"].sigs = <<Binary("integer"), Binary("bigint"), Binary("real")>>) =>
       CoercionCases(FALSE)

\* registerFunction with overwrite = false on a signature already
\* registered returns false and keeps the old implementation: after a
\* refused simple registration every two-argument call of foo runs what
\* it ran before, and after an accepted one a call with exactly the
\* registered argument types runs the new implementation, whatever vector
\* function or other signature is registered under the name
\* (FunctionRegistryOverwriteTest: 5, then 5 again, then 6).
OverwriteRespected ==
  [][\A s \in FooSimpleSigs, i \in FooImpls :
       last' = [sig |-> s, impl |-> i] =>
         IF result'
           THEN Runs("foo", s.args)' = {i}
           ELSE \A x, y \in Scalars : Runs("foo", <<x, y>>)' = Runs("foo", <<x, y>>)]_vars

=============================================================================
