------------------------- MODULE CompiledPredicates -------------------------
(***************************************************************************)
(* What the parameters PredicateCompiles and PredicateValue of Verification *)
(* stand for, in the terms of Predicates.  S is the system of the input    *)
(* types there are and of the values that fit them; m is the meaning of    *)
(* the predicates of one function: their expressions, the types inferred   *)
(* for each and, on each input, what it comes to.                          *)
(***************************************************************************)
EXTENDS Verification, Predicates

Typed(S) == TypeSystem(S.inputTypes, S.depth, S.static) /\ Fitting(S.fits, S.inputTypes)

\* The types of a function's inputs, by name.
Given(S, f) == [name \in DOMAIN f.schema |-> S.static[f.schema[name]]]

InputsFit(S, f) ==
  \A name \in DOMAIN f.schema :
    /\ f.schema[name] \in S.inputTypes
    /\ \A i \in InputSpace(f.schema) : <<i[name], f.schema[name]>> \in S.fits

\* The compilation and the evaluation of a predicate say what its meaning does.
Agrees(m, f, predicate) ==
  /\ predicate \in m.expressions
  /\ PredicateCompiles(predicate, f.schema) <=> Require(m.types[predicate], {"boolean"})
  /\ \A i \in InputSpace(f.schema) : PredicateValue(predicate, i) = Truth(m.values[i][predicate])

Interprets(S, m, f) ==
  /\ InputsFit(S, f)
  /\ Expressions(m.expressions, m.depth)
  /\ Inferred(m.expressions, Given(S, f), m.types)
  /\ \A i \in InputSpace(f.schema) : Evaluated(m.expressions, i, m.values[i])
  /\ \A k \in DOMAIN f.constraints : Agrees(m, f, f.constraints[k].predicate)
=============================================================================
