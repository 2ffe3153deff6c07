----------------------------- MODULE SparkCast -----------------------------
(***************************************************************************)
(* The Spark CAST and TRY_CAST special forms (SparkCastExpr.cpp): how an  *)
(* expression compiler's call of constructSpecialForm turns the compiled  *)
(* children into a SparkCastExpr, and what the constructed expression     *)
(* yields when it is evaluated on an integral value narrowed to a target  *)
(* type of 2 * Half values, or on a string that does not parse.           *)
(*                                                                         *)
(* The evaluation follows the code's comment: with ANSI mode off both     *)
(* forms behave like Velox's try_cast (isTryCast), and they differ only   *)
(* in overflow handling (SparkCastHooks' allowOverflow), where an         *)
(* integral value outside the target range wraps around.                  *)
(***************************************************************************)
EXTENDS Integers, Sequences

CONSTANTS
  Half,       \* the target type has the values -Half .. Half - 1
  Values,     \* the integral values the input rows carry
  Children,   \* compiled child expressions
  None        \* no expression, no error, a moved-from child

ASSUME HalfAssumption == Half \in Nat \ {0}
ASSUME ValuesAssumption == Values \subseteq Int
ASSUME NoneAssumption == None \notin Children

Low == -Half
High == Half - 1

\* An input row: an integral value, or (valid = FALSE) a string that does
\* not parse as a number.
Inputs == [valid : BOOLEAN, val : Values]

\* A constructed SparkCastExpr: its child, trackCpuUsage, isTryCast and the
\* hooks' allowOverflow flag.
CastExprs == [child : Children, track : BOOLEAN, isTryCast : BOOLEAN,
              allowOverflow : BOOLEAN]

\* Results of evaluation: a value, SQL NULL, or a thrown user error.
Results == [kind : {"value"}, val : Int] \cup [kind : {"null", "error"}]
Value(v) == [kind |-> "value", val |-> v]
Null == [kind |-> "null"]
Error == [kind |-> "error"]

\* Two's-complement wrap-around into Low .. High.
Wrap(v) == ((v + Half) % (2 * Half)) - Half

\* CastExpr::apply on one row under the expression's flags.
Eval(e, x) ==
  IF ~x.valid THEN IF e.isTryCast THEN Null ELSE Error
  ELSE IF x.val \in Low..High THEN Value(x.val)
  ELSE IF e.allowOverflow THEN Value(Wrap(x.val))
  ELSE IF e.isTryCast THEN Null ELSE Error

\* Mutant: CAST built like Velox's own (non-try) cast.
ConstructCastNotTry(cs, track) ==
  [child |-> cs[1], track |-> track, isTryCast |-> FALSE, allowOverflow |-> TRUE]

\* SparkCastCallToSpecialForm::constructSpecialForm, once its check that
\* there is exactly one child has passed: isTryCast is set, and the hooks
\* allow overflow.
ConstructCast(cs, track) ==
  [child |-> cs[1], track |-> track, isTryCast |-> TRUE, allowOverflow |-> TRUE]

\* Mutant: TRY_CAST's hooks allow overflow too.
ConstructTryCastOverflow(cs, track) ==
  [child |-> cs[1], track |-> track, isTryCast |-> TRUE, allowOverflow |-> TRUE]

\* SparkTryCastCallToSpecialForm::constructSpecialForm: the same, with
\* hooks that do not allow overflow.
ConstructTryCast(cs, track) ==
  [child |-> cs[1], track |-> track, isTryCast |-> TRUE, allowOverflow |-> FALSE]

\* Mutant: the arity check accepts any non-empty children vector.
ArityOkAtLeastOne(cs) == Len(cs) >= 1

\* VELOX_CHECK_EQ(compiledChildren.size(), 1, ...)
ArityOk(cs) == Len(cs) = 1

VARIABLES
  call,       \* the compiledChildren the last constructSpecialForm received
  children,   \* the caller's compiledChildren after that call
  expr,       \* the constructed expression, or None
  err,        \* the error the last call threw, or None
  form,       \* the special form of the last call: "cast" or "try_cast"
  rows,       \* the batch of the last evaluation
  out         \* the results of the last evaluation, one per row, or None

vars == <<call, children, expr, err, form, rows, out>>

TypeOK ==
  /\ call \in Seq(Children) /\ children \in Seq(Children \cup {None})
  /\ expr \in CastExprs \cup {None}
  /\ err \in {None, "VeloxRuntimeError"}
  /\ form \in {"cast", "try_cast", None}
  /\ rows \in Seq(Inputs)
  /\ out \in Seq(Results) \cup {None}

Init ==
  /\ call = <<>> /\ children = <<>>
  /\ expr = None /\ err = None /\ form = None /\ rows = <<>> /\ out = None

\* Mutant: the check written as VELOX_USER_CHECK_EQ, a user error.
RejectedUserError(cs) ==
  /\ ~ArityOk(cs)
  /\ expr' = None /\ children' = cs /\ err' = "VeloxUserError"

\* The check of a constructSpecialForm call failed: VELOX_CHECK_EQ throws
\* VeloxRuntimeError, no expression is made, the children are left alone.
Rejected(cs) ==
  /\ ~ArityOk(cs)
  /\ expr' = None /\ children' = cs /\ err' = "VeloxRuntimeError"

\* The check passed: the single child is moved (std::move) into the new
\* expression e, leaving a moved-from slot in the caller's vector.
Accepted(cs, e) ==
  /\ ArityOk(cs)
  /\ expr' = e /\ children' = [cs EXCEPT ![1] = None] /\ err' = None

\* SparkCastCallToSpecialForm::constructSpecialForm(type, compiledChildren,
\* trackCpuUsage, config).
CompileCast(cs, track) ==
  /\ call' = cs /\ form' = "cast" /\ out' = None /\ UNCHANGED rows
  /\ \/ Rejected(cs)
     \/ Accepted(cs, ConstructCast(cs, track))

\* SparkTryCastCallToSpecialForm::constructSpecialForm(...).
CompileTryCast(cs, track) ==
  /\ call' = cs /\ form' = "try_cast" /\ out' = None /\ UNCHANGED rows
  /\ \/ Rejected(cs)
     \/ Accepted(cs, ConstructTryCast(cs, track))

\* The constructed expression is evaluated on a batch of rows; each row's
\* result is that of the cast on its own.
Evaluate(batch) ==
  /\ expr # None
  /\ rows' = batch
  /\ out' = [i \in DOMAIN batch |-> Eval(expr, batch[i])]
  /\ UNCHANGED <<call, children, expr, err, form>>

\* Input batches of one or two rows.
Batches == UNION {[1..n -> Inputs] : n \in 1..2}

\* The children vectors an expression compiler can pass: up to two.
ChildVectors == UNION {[1..n -> Children] : n \in 0..2}

Next ==
  \/ \E cs \in ChildVectors, track \in BOOLEAN :
       CompileCast(cs, track) \/ CompileTryCast(cs, track)
  \/ \E batch \in Batches : Evaluate(batch)

Spec == Init /\ [][Next]_vars

-----------------------------------------------------------------------------
(* Properties.                                                             *)

\* With ANSI mode off a Spark CAST or TRY_CAST never fails on a row, and
\* never yields a value outside the target type: an unparsable string is
\* NULL, an overflowing integral value wraps (CAST) or is NULL (TRY_CAST).
\* This is what isTryCast = true and the hooks' overflow flag set up in
\* both constructSpecialForm functions.
CastTotal ==
  out # None => \A i \in DOMAIN out :
                  out[i] \in {Value(v) : v \in Low..High} \cup {Null}

\* On a row x, CAST and TRY_CAST built from the same one-child call agree
\* unless x's value overflows the target type, and there CAST wraps while
\* TRY_CAST gives NULL.
CastAgreement(cs, t, x) ==
  LET cast == Eval(ConstructCast(cs, t), x)
      try == Eval(ConstructTryCast(cs, t), x)
  IN  IF x.valid /\ x.val \notin Low..High
        THEN try = Null /\ cast = Value(Wrap(x.val))
        ELSE cast = try

\* The constructors' comment: "the distinction between CAST (ANSI off) and
\* TRY_CAST is limited to overflow handling".  Whichever form the last
\* batch was compiled with, every row's result is the one CastAgreement
\* relates to the other form's.
OverflowOnlyDifference ==
  out # None =>
    \A i \in DOMAIN rows :
      /\ CastAgreement(call, expr.track, rows[i])
      /\ out[i] = Eval(IF form = "cast" THEN ConstructCast(call, expr.track)
                                      ELSE ConstructTryCast(call, expr.track),
                      rows[i])

\* An expression exists only when the call passed exactly one child; that
\* child is the one the expression holds, and the caller's slot has been
\* moved from, so no other expression can share it.  A failed call leaves
\* the caller's children untouched.
SingleChildMoved ==
  /\ expr # None => /\ Len(call) = 1 /\ expr.child = call[1]
                    /\ children = <<None>>
  /\ err # None => expr = None /\ children = call

=============================================================================
