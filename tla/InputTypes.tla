----------------------------- MODULE InputTypes -----------------------------
(***************************************************************************)
(* The inputs of a neural function: JSON values, the types the compiler    *)
(* declares for them, the values of a type, and the two ways the trainer   *)
(* speaks of a small change: the single edits the constraints teacher      *)
(* tries, and the JSON paths the adversarial validator counts.             *)
(***************************************************************************)
EXTENDS Predicates, FiniteSets

CONSTANTS
  Numbers,     \* the numbers and strings a sampler draws
  Strings,
  MaxItems     \* the longest array

Without(f, n) == [m \in DOMAIN f \ {n} |-> f[m]]
With(f, n, v) == [m \in DOMAIN f \cup {n} |-> IF m = n THEN v ELSE f[m]]

RECURSIVE ValuesOf(_), Members(_, _)

\* The functions that give every name a value of its type.
Members(types, names) ==
  IF names = {} THEN {<<>>}
  ELSE LET n == CHOOSE n \in names : TRUE
       IN  {With(f, n, v) : f \in Members(types, names \ {n}), v \in ValuesOf(types[n])}

\* _validate_input_value: the values of a type.
ValuesOf(type) ==
  CASE type[1] = "number" -> {Number(n) : n \in Numbers}
    [] type[1] = "string" -> {String(s) : s \in Strings}
    [] type[1] = "boolean" -> {Boolean(b) : b \in BOOLEAN}
    [] type[1] = "null" -> {Null}
    [] type[1] = "literal" -> {type[2]}
    [] type[1] = "enum" -> type[2]
    [] type[1] = "array" ->
         {<<"array", s>> : s \in UNION {[1..n -> ValuesOf(type[2])] : n \in 0..MaxItems}}
    [] type[1] = "tuple" -> {<<"array", f>> : f \in Members(type[2], DOMAIN type[2])}
    [] type[1] = "object" ->
         LET types == [n \in DOMAIN type[2] |-> type[2][n].type]
             required == {n \in DOMAIN type[2] : ~type[2][n].optional}
         IN  {<<"object", f>> :
                f \in UNION {Members(types, required \cup some) :
                               some \in SUBSET (DOMAIN types \ required)}}
    [] type[1] = "union" -> UNION {ValuesOf(variant) : variant \in Range(type[2])}

\* A leaf that may be left out is one of no members or items of its own.
Removable(field) == field.optional /\ field.type[1] \notin {"object", "tuple"}

\* The results of one edit: a leaf takes another value, an array gains or loses its last item,
\* an optional member comes or goes.  A union is one leaf, whatever its variants are.
RECURSIVE EditsOf(_, _)
EditsOf(type, v) ==
  CASE type[1] = "object" ->
         UNION {IF n \notin DOMAIN v[2]
                THEN {<<"object", With(v[2], n, w)>> : w \in ValuesOf(type[2][n].type)}
                ELSE {<<"object", With(v[2], n, w)>> : w \in EditsOf(type[2][n].type, v[2][n])}
                     \cup (IF Removable(type[2][n]) THEN {<<"object", Without(v[2], n)>>} ELSE {}) :
                n \in DOMAIN type[2]}
    [] type[1] = "tuple" ->
         UNION {{<<"array", [v[2] EXCEPT ![n] = w]>> : w \in EditsOf(type[2][n], v[2][n])} :
                n \in DOMAIN v[2]}
    [] type[1] = "array" ->
         {<<"array", Append(v[2], w)>> : w \in ValuesOf(type[2])}
         \cup (IF v[2] = <<>> THEN {} ELSE {<<"array", Front(v[2])>>})
         \cup UNION {{<<"array", [v[2] EXCEPT ![n] = w]>> : w \in EditsOf(type[2], v[2][n])} :
                     n \in DOMAIN v[2]}
    [] OTHER -> ValuesOf(type) \ {v}

\* _collect_changes: how many JSON paths two values differ at.
RECURSIVE Changes(_, _)
Changes(v, w) ==
  IF v[1] = w[1] /\ v[1] \in {"object", "array"}
  THEN LET both == DOMAIN v[2] \cap DOMAIN w[2]
           one == (DOMAIN v[2] \cup DOMAIN w[2]) \ both
       IN  FoldLeft(LAMBDA total, n : total + Changes(v[2][n], w[2][n]),
                    Cardinality(one), SetToSeq(both))
  ELSE IF v = w THEN 0 ELSE 1

\* Whether a value holds a number, which JSON readers spell in two ways.
RECURSIVE HoldsNumber(_)
HoldsNumber(v) ==
  \/ v[1] = "number"
  \/ v[1] \in {"object", "array"} /\ \E n \in DOMAIN v[2] : HoldsNumber(v[2][n])

----------------------------------------------------------------------------
\* The inputs of a function: a schema gives the type of each by name.

InputsOf(schema) == Members(schema, DOMAIN schema)

InputEdits(schema, i) ==
  UNION {{[i EXCEPT ![n] = v] : v \in EditsOf(schema[n], i[n])} : n \in DOMAIN schema}

InputChanges(i, j) ==
  FoldLeft(LAMBDA total, n : total + Changes(i[n], j[n]), 0, SetToSeq(DOMAIN i))

NumberIn(i) == \E n \in DOMAIN i : HoldsNumber(i[n])
=============================================================================
