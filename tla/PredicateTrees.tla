--------------------------- MODULE PredicateTrees ---------------------------
(***************************************************************************)
(* The steps of Predicates applied to whole types and expressions.         *)
(***************************************************************************)
EXTENDS Predicates

RECURSIVE StaticTypes(_)
StaticTypes(type) == StaticStep(type, [part \in Parts(type) |-> StaticTypes(part)])

RECURSIVE TypesOf(_, _)
TypesOf(e, schema) ==
  TypesStep(e, [name \in DOMAIN schema |-> StaticTypes(schema[name])],
            [n \in DOMAIN Operands(e) |-> TypesOf(Operands(e)[n], schema)])

\* compile_constraints, for one predicate.
Compiles(predicate, schema) == Require(TypesOf(predicate, schema), {"boolean"})

RECURSIVE Evaluate(_, _)
Evaluate(e, inputs) ==
  EvaluateStep(e, inputs, [n \in DOMAIN Operands(e) |-> Evaluate(Operands(e)[n], inputs)])

Verdict(predicate, inputs) == Truth(Evaluate(predicate, inputs))
=============================================================================
