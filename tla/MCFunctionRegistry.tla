------------------------- MODULE MCFunctionRegistry -------------------------
(* The fixture's registry plus every sequence of the registrations and   *)
(* removals the tests make on "foo": simple signatures over integer,      *)
(* bigint, real and double, two vector signature lists, two              *)
(* implementations, with and without overwrite, in two spellings.       *)
EXTENDS FunctionRegistry
=============================================================================
