----------------------------- MODULE Predicates -----------------------------
(***************************************************************************)
(* The predicates of constraints, one node at a time: the static types the *)
(* compilation of a constraint set infers for an expression from those of  *)
(* its operands, and what the expression evaluates to on an input from     *)
(* what they do.  PredicateTrees applies both to whole expressions.  The   *)
(* type inference keeps literals, so that an index can name a member; it   *)
(* has no narrowing.  {} stands for the ConstraintConfigurationError of    *)
(* the inference, an error value for the ConstraintEvaluationError of the  *)
(* evaluation.  Budgets and the limits on nodes, depth and variants are    *)
(* left out.                                                               *)
(*                                                                         *)
(* A value is <<kind, content>>; a string is the sequence of its UTF-16    *)
(* units; an object is a function of its member names.  A type is <<kind>> *)
(* or <<kind, content>>.  Numbers are whole ones.  An expression is        *)
(* <<"literal", value>>, <<"input", name>>, <<"property", object, name>>,  *)
(* <<"index", object, index>>, <<"unary", operator, operand>> or           *)
(* <<"binary", operator, left, right>>.                                    *)
(***************************************************************************)
EXTENDS Integers, Sequences, SequencesExt

Number(n) == <<"number", n>>
String(s) == <<"string", s>>
Boolean(b) == <<"boolean", b>>
Null == <<"null", 0>>

Undefined == <<"undefined", 0>>
TypeError == <<"error", "type">>
NonFinite == <<"error", "non-finite">>
IsError(v) == v[1] = "error"

\* "length"
Length == <<108, 101, 110, 103, 116, 104>>

----------------------------------------------------------------------------
\* Strings

IsDigits(s) == \A n \in DOMAIN s : s[n] \in 48..57
DigitsValue(s) ==
  LET value[n \in 0..Len(s)] == IF n = 0 THEN 0 ELSE 10 * value[n - 1] + (s[n] - 48)
  IN  value[Len(s)]

\* _js_number_string, for whole numbers of one digit.
NumberString(n) == IF n < 0 THEN <<45, 48 - n>> ELSE <<48 + n>>

\* _array_index: the position a value denotes, or -1.
ArrayIndex(v) ==
  CASE v[1] = "number" -> IF v[2] < 0 THEN -1 ELSE v[2]
    [] v[1] = "string" ->
         IF v[2] = <<48>> THEN 0
         ELSE IF v[2] = <<>> \/ v[2][1] = 48 \/ ~IsDigits(v[2]) THEN -1
         ELSE DigitsValue(v[2])
    [] OTHER -> -1

\* _compare_utf16
Before(s, t) ==
  \/ \E n \in DOMAIN s \cap DOMAIN t : s[n] < t[n] /\ \A m \in 1..(n - 1) : s[m] = t[m]
  \/ IsStrictPrefix(s, t)

----------------------------------------------------------------------------
\* Static types: <<kind, <<>>>>, <<kind, <<literal>>>>, <<"array", item types>>,
\* <<"tuple", types of each item>>, <<"object", [name -> [types, optional]]>>

Plain(kind) == <<kind, <<>>>>
LiteralType(v) == <<v[1], <<v[2]>>>>

\* The types a type is made of.
Parts(type) ==
  CASE type[1] = "array" -> {type[2]}
    [] type[1] \in {"tuple", "union"} -> Range(type[2])
    [] type[1] = "object" -> {type[2][n].type : n \in DOMAIN type[2]}
    [] OTHER -> {}

\* _types_from_input_spec: the static types of a type, from those of its parts.
StaticStep(type, static) ==
  CASE type[1] = "literal" -> {LiteralType(type[2])}
    [] type[1] = "enum" -> {LiteralType(v) : v \in type[2]}
    [] type[1] = "array" -> {<<"array", static[type[2]]>>}
    [] type[1] = "tuple" -> {<<"tuple", [n \in DOMAIN type[2] |-> static[type[2][n]]]>>}
    [] type[1] = "object" ->
         {<<"object", [n \in DOMAIN type[2] |-> [types |-> static[type[2][n].type],
                                                 optional |-> type[2][n].optional]]>>}
    [] type[1] = "union" -> UNION {static[variant] : variant \in Range(type[2])}
    [] OTHER -> {Plain(type[1])}

\* _validate_input_value, of a JSON value: W relates the parts of values to the types they fit.
FitsType(W, v, type) ==
  \/ type[1] \in {"null", "boolean", "string", "number"} /\ v[1] = type[1]
  \/ type[1] = "literal" /\ v = type[2]
  \/ type[1] = "enum" /\ v \in type[2]
  \/ /\ type[1] = "array" /\ v[1] = "array"
     /\ \A n \in DOMAIN v[2] : <<v[2][n], type[2]>> \in W
  \/ /\ type[1] = "tuple" /\ v[1] = "array" /\ DOMAIN v[2] = DOMAIN type[2]
     /\ \A n \in DOMAIN v[2] : <<v[2][n], type[2][n]>> \in W
  \/ /\ type[1] = "object" /\ v[1] = "object" /\ DOMAIN v[2] \subseteq DOMAIN type[2]
     /\ \A n \in DOMAIN v[2] : <<v[2][n], type[2][n].type>> \in W
     /\ \A n \in DOMAIN type[2] \ DOMAIN v[2] : type[2][n].optional
  \/ type[1] = "union" /\ \E variant \in Range(type[2]) : <<v, variant>> \in W

Kinds(types) == {t[1] : t \in types}
Require(types, kinds) == types # {} /\ Kinds(types) \subseteq kinds

\* Each possibility must be good for the whole to be.
Each(results) == IF {} \in results THEN {} ELSE UNION results

\* Mutant: a member that may be missing is taken to be there.
MemberTypesPresent(fields, name) == IF name \in DOMAIN fields THEN fields[name].types ELSE {}

\* A declared member, or undefined when it may be missing.
MemberTypes(fields, name) ==
  IF name \notin DOMAIN fields THEN {}
  ELSE fields[name].types \cup (IF fields[name].optional THEN {Plain("undefined")} ELSE {})

\* _property_result_types
PropertyOf(o, name) ==
  CASE o[1] \in {"string", "array", "tuple"} /\ name = Length -> {Plain("number")}
    [] o[1] = "object" -> MemberTypes(o[2], name)
    [] OTHER -> {}
PropertyTypes(objects, name) == Each({PropertyOf(o, name) : o \in objects})

\* _static_property_key, and _property_key at run time.
Key(kind, content) == IF kind = "string" THEN content ELSE NumberString(content)

\* One pair of _index_result_types.
ItemTypes(o, index) ==
  LET literal == index[2] # <<>>
      position == ArrayIndex(<<index[1], index[2][1]>>)
      denotes == index[1] = "number" \/ (literal /\ position >= 0)
  IN CASE o[1] = "object" ->
            IF literal THEN MemberTypes(o[2], Key(index[1], index[2][1])) ELSE {}
       [] o[1] \in {"array", "tuple", "string"} /\ literal /\ index[1] = "string"
          /\ index[2] = <<Length>> -> {Plain("number")}
       [] o[1] = "array" /\ denotes -> o[2] \cup {Plain("undefined")}
       [] o[1] = "string" /\ denotes -> {Plain("string"), Plain("undefined")}
       [] o[1] = "tuple" /\ ~literal /\ index[1] = "number" ->
            (UNION Range(o[2])) \cup {Plain("undefined")}
       [] o[1] = "tuple" /\ literal /\ position >= 0 ->
            IF position < Len(o[2]) THEN o[2][position + 1] ELSE {Plain("undefined")}
       [] OTHER -> {}

IndexTypes(objects, indexes) ==
  IF Require(indexes, {"number", "string"})
  THEN Each({ItemTypes(o, index) : o \in objects, index \in indexes})
  ELSE {}

Arithmetic == {"+", "-", "/"}
Logic == {"&&", "||"}
Order == {"<", ">="}
Scalars == {"number", "string", "boolean", "null", "undefined"}

\* The operand kinds of a binary operator.
Fit(operator, left, right) ==
  \/ operator \in Arithmetic /\ Require(left, {"number"}) /\ Require(right, {"number"})
  \/ operator \in Logic /\ Require(left, {"boolean"}) /\ Require(right, {"boolean"})
  \/ operator \in Order /\ Kinds(left) = Kinds(right) /\ Kinds(left) \in {{"number"}, {"string"}}
  \/ /\ operator \notin Arithmetic \cup Logic \cup Order
     /\ Require(left, Scalars) /\ Require(right, Scalars)

\* _infer_expression_types: the unary operators keep the sign of a literal.
Signed(operator, types) ==
  IF \A t \in types : t[2] # <<>>
  THEN {<<"number", <<IF operator = "-" THEN -t[2][1] ELSE t[2][1]>>>> : t \in types}
  ELSE {Plain("number")}

\* The operands of an expression, in the order they are evaluated.
Operands(e) ==
  CASE e[1] = "property" -> <<e[2]>>
    [] e[1] = "index" -> <<e[2], e[3]>>
    [] e[1] = "unary" -> <<e[3]>>
    [] e[1] = "binary" -> <<e[3], e[4]>>
    [] OTHER -> <<>>

\* types[n]: the types of operand n; given[name]: those of an input.
TypesStep(e, given, types) ==
  CASE e[1] = "literal" -> {LiteralType(e[2])}
    [] e[1] = "input" -> IF e[2] \in DOMAIN given THEN given[e[2]] ELSE {}
    [] e[1] = "property" -> PropertyTypes(types[1], e[3])
    [] e[1] = "index" -> IndexTypes(types[1], types[2])
    [] e[1] = "unary" ->
         IF ~Require(types[1], {IF e[2] = "!" THEN "boolean" ELSE "number"}) THEN {}
         ELSE IF e[2] = "!" THEN {Plain("boolean")} ELSE Signed(e[2], types[1])
    [] e[1] = "binary" ->
         IF Fit(e[2], types[1], types[2])
         THEN {Plain(IF e[2] \in Arithmetic THEN "number" ELSE "boolean")} ELSE {}

----------------------------------------------------------------------------
\* Evaluation

\* _strict_equal, of scalars: two containers are equal only when they are one.
StrictEqual(l, r) == l[1] \in Scalars /\ l[1] = r[1] /\ l[2] = r[2]

\* _ordered_compare
OrderedCompare(operator, l, r) ==
  LET less == IF l[1] = "string" THEN Before(l[2], r[2]) ELSE l[2] < r[2]
  IN  IF l[1] = r[1] /\ l[1] \in {"number", "string"}
      THEN Boolean(IF operator = "<" THEN less ELSE ~less)
      ELSE TypeError

Quotient(a, b) == IF b > 0 THEN a \div b ELSE (-a) \div (-b)

Calculate(operator, l, r) ==
  IF l[1] # "number" \/ r[1] # "number" THEN TypeError
  ELSE CASE operator = "+" -> Number(l[2] + r[2])
         [] operator = "-" -> Number(l[2] - r[2])
         [] operator = "/" -> IF r[2] = 0 THEN NonFinite ELSE Number(Quotient(l[2], r[2]))

ReadProperty(v, name) ==
  CASE v[1] = "object" -> IF name \in DOMAIN v[2] THEN v[2][name] ELSE Undefined
    [] v[1] \in {"array", "string"} /\ name = Length -> Number(Len(v[2]))
    [] OTHER -> TypeError

\* _read_index
ReadIndex(v, index) ==
  LET position == ArrayIndex(index)
  IN CASE v[1] = "object" ->
            IF index[1] \in {"string", "number"} THEN ReadProperty(v, Key(index[1], index[2]))
            ELSE TypeError
       [] v[1] \in {"array", "string"} ->
            IF index[1] = "string" /\ index[2] = Length THEN Number(Len(v[2]))
            ELSE IF position \notin 0..(Len(v[2]) - 1) THEN Undefined
            ELSE IF v[1] = "array" THEN v[2][position + 1] ELSE String(<<v[2][position + 1]>>)
       [] OTHER -> TypeError

\* The right operand of && and || is not evaluated when the left one decides.
Connect(operator, l, r) ==
  IF IsError(l) THEN l
  ELSE IF l[1] # "boolean" THEN TypeError
  ELSE IF l[2] = (operator = "||") THEN l
  ELSE IF IsError(r) THEN r
  ELSE IF r[1] # "boolean" THEN TypeError ELSE r

Negate(operator, v) ==
  CASE operator = "!" -> IF v[1] = "boolean" THEN Boolean(~v[2]) ELSE TypeError
    [] OTHER -> IF v[1] # "number" THEN TypeError
                ELSE Number(IF operator = "-" THEN -v[2] ELSE v[2])

\* The first error of the operands, or the result.
Strictly(l, r, result) == IF IsError(l) THEN l ELSE IF IsError(r) THEN r ELSE result

\* values[n]: what operand n comes to.
EvaluateStep(e, inputs, values) ==
  CASE e[1] = "literal" -> e[2]
    [] e[1] = "input" -> inputs[e[2]]
    [] e[1] = "property" ->
         IF IsError(values[1]) THEN values[1] ELSE ReadProperty(values[1], e[3])
    [] e[1] = "index" -> Strictly(values[1], values[2], ReadIndex(values[1], values[2]))
    [] e[1] = "unary" -> IF IsError(values[1]) THEN values[1] ELSE Negate(e[2], values[1])
    [] e[1] = "binary" ->
         CASE e[2] \in Logic -> Connect(e[2], values[1], values[2])
           [] e[2] \in Order -> Strictly(values[1], values[2],
                                         OrderedCompare(e[2], values[1], values[2]))
           [] e[2] \in Arithmetic -> Strictly(values[1], values[2],
                                              Calculate(e[2], values[1], values[2]))
           [] OTHER -> Strictly(values[1], values[2],
                                Boolean(StrictEqual(values[1], values[2]) = (e[2] = "===")))

\* What a predicate that evaluates to a value says: a truth value, or the kind of its error.
Truth(v) ==
  CASE v[1] = "boolean" -> IF v[2] THEN "true" ELSE "false"
    [] IsError(v) -> v[2]
    [] OTHER -> "type"

----------------------------------------------------------------------------
\* Whole types, values and expressions, each in a set with its parts

\* A value without parts.
Scalar(v) ==
  \/ v[1] = "number" /\ v[2] \in Int
  \/ v[1] = "string" /\ v[2] \in Seq(Int)
  \/ v[1] = "boolean" /\ v[2] \in BOOLEAN
  \/ v[1] \in {"null", "undefined"} /\ v[2] = 0

\* A JSON value, as far down as its parts.
Json(v) ==
  \/ Scalar(v)
  \/ v[1] = "array" /\ Len(v[2]) \in Nat /\ DOMAIN v[2] = 1..Len(v[2])
  \/ v[1] = "object"

\* An input type, as far down as its parts.
Declared(type) ==
  /\ type[1] \in {"null", "boolean", "string", "number", "literal", "enum",
                  "array", "tuple", "object", "union"}
  /\ type[1] = "literal" => Scalar(type[2])
  /\ type[1] = "enum" => \A v \in type[2] : Scalar(v)
  /\ type[1] = "tuple" => Len(type[2]) \in Nat /\ DOMAIN type[2] = 1..Len(type[2])

\* A set of types with the parts they are made of, and the static types of each.
TypeSystem(T, rank, static) ==
  /\ rank \in [T -> Nat]
  /\ \A type \in T :
       /\ Declared(type)
       /\ \A part \in Parts(type) : part \in T /\ rank[part] < rank[type]
       /\ static[type] = StaticStep(type, [part \in Parts(type) |-> static[part]])

\* W relates JSON values to types of T they fit.
Fitting(W, T) ==
  \A p \in W : p = <<p[1], p[2]>> /\ p[2] \in T /\ Json(p[1]) /\ FitsType(W, p[1], p[2])

\* An expression, as far down as its operands.
WellFormed(e) ==
  /\ e[1] \in {"literal", "input", "property", "index", "unary", "binary"}
  /\ e[1] = "literal" => Scalar(e[2])

\* A set of expressions with the operands they are made of.
Expressions(E, rank) ==
  /\ rank \in [E -> Nat]
  /\ \A e \in E : /\ WellFormed(e)
                  /\ \A n \in DOMAIN Operands(e) : /\ Operands(e)[n] \in E
                                                   /\ rank[Operands(e)[n]] < rank[e]

\* The types and the values of expressions, each made from those of its operands.
Inferred(E, given, types) ==
  \A e \in E : types[e] = TypesStep(e, given, [n \in DOMAIN Operands(e) |-> types[Operands(e)[n]]])
Evaluated(E, inputs, values) ==
  \A e \in E :
    values[e] = EvaluateStep(e, inputs, [n \in DOMAIN Operands(e) |-> values[Operands(e)[n]]])
=============================================================================
