------------------------- MODULE Predicates_proofs -------------------------
(***************************************************************************)
(* The soundness of the static types of predicates: an expression the type *)
(* inference accepts comes, on every input of the schema, to a value of    *)
(* one of the types inferred for it, or fails in arithmetic.  It is proved *)
(* node by node, for values of any depth: what the parts of a value are is *)
(* left to a relation R between values and static types, of which no more  *)
(* is asked than that it is faithful, that is, that a value it relates to  *)
(* a type is made as the type says, from parts it relates again.           *)
(***************************************************************************)
EXTENDS Predicates, SequenceTheorems, WellFoundedInduction, TLAPS

\* R relates the value to one of the types.
Has(R, v, types) == \E t \in types : <<v, t>> \in R

\* The value is made as the static type says, from parts that R relates to theirs.
ShowsScalar(v, t) == Scalar(v) /\ v[1] = t[1] /\ (t[2] # <<>> => t[2] = <<v[2]>>)
ShowsArray(R, v, t) ==
  /\ t[1] = "array" /\ v[1] = "array" /\ Len(v[2]) \in Nat /\ DOMAIN v[2] = 1..Len(v[2])
  /\ \A n \in DOMAIN v[2] : Has(R, v[2][n], t[2])
ShowsTuple(R, v, t) ==
  /\ t[1] = "tuple" /\ v[1] = "array" /\ Len(v[2]) \in Nat /\ Len(t[2]) = Len(v[2])
  /\ DOMAIN v[2] = 1..Len(v[2]) /\ DOMAIN t[2] = DOMAIN v[2]
  /\ \A n \in DOMAIN v[2] : Has(R, v[2][n], t[2][n])
ShowsObject(R, v, t) ==
  /\ t[1] = "object" /\ v[1] = "object" /\ DOMAIN v[2] \subseteq DOMAIN t[2]
  /\ \A n \in DOMAIN t[2] : IF n \in DOMAIN v[2] THEN Has(R, v[2][n], t[2][n].types)
                            ELSE t[2][n].optional
Shows(R, v, t) ==
  ShowsScalar(v, t) \/ ShowsArray(R, v, t) \/ ShowsTuple(R, v, t) \/ ShowsObject(R, v, t)

Faithful(R) == \A v, t : <<v, t>> \in R => Shows(R, v, t)

\* The value is of one of the types.
Good(R, v, types) == \E t \in types : Shows(R, v, t)

----------------------------------------------------------------------------
\* Numbers, and the parts of values

\* A set of natural numbers has a least element.
LEMMA LeastNumber ==
  ASSUME NEW S \in SUBSET Nat, S # {} PROVE \E x \in S : \A y \in S : x <= y
PROOF
<1>1. PICK x \in S : \A y \in S : ~ <<y, x>> \in OpToRel(<, Nat)
  BY WFMin, NatLessThanWellFounded
<1>2. \A y \in S : ~(y < x)
  BY <1>1 DEF OpToRel
<1> QED  BY <1>2

\* A string of digits denotes a number.
LEMMA DigitsAreNumber == ASSUME NEW s \in Seq(Int) PROVE DigitsValue(s) \in Int
PROOF
<1> DEFINE N == Len(s)
           Step(f, n) == IF n = 0 THEN 0 ELSE 10 * f[n - 1] + (s[n] - 48)
           Body(f) == [n \in 0..N |-> Step(f, n)]
           Upto(k) == \E f \in [0..k -> Int] : \A n \in 0..k : f[n] = Step(f, n)
           value == CHOOSE f : f = Body(f)
<1>1. N \in Nat /\ \A n \in 1..N : s[n] \in Int
  BY LenProperties, ElementOfSeq
<1>2. Upto(0)
  <2> DEFINE f == [n \in 0..0 |-> 0]
  <2>1. f \in [0..0 -> Int] /\ \A n \in 0..0 : f[n] = Step(f, n)
    OBVIOUS
  <2> QED  BY <2>1
<1>3. ASSUME NEW k \in Nat, k + 1 <= N, Upto(k) PROVE Upto(k + 1)
  <2>1. PICK f \in [0..k -> Int] : \A n \in 0..k : f[n] = Step(f, n)
    BY <1>3
  <2> DEFINE g == [n \in 0..(k + 1) |-> IF n <= k THEN f[n] ELSE Step(f, n)]
  <2>2. Step(f, k + 1) \in Int
    <3>1. s[k + 1] \in Int /\ f[k] \in Int
      BY <1>1, <1>3
    <3>2. Step(f, k + 1) = 10 * f[k] + (s[k + 1] - 48)
      OBVIOUS
    <3> QED  BY <3>1, <3>2
  <2>3. g \in [0..(k + 1) -> Int]
    <3> SUFFICES ASSUME NEW n \in 0..(k + 1) PROVE (IF n <= k THEN f[n] ELSE Step(f, n)) \in Int
      OBVIOUS
    <3>1. CASE n <= k
      <4>1. n \in 0..k
        BY <3>1
      <4> QED  BY <3>1, <4>1
    <3>2. CASE ~(n <= k)
      <4>1. n = k + 1
        BY <3>2
      <4> HIDE DEF Step
      <4> QED  BY <3>2, <4>1, <2>2
    <3> QED  BY <3>1, <3>2
  <2>4. ASSUME NEW n \in 0..(k + 1) PROVE g[n] = Step(g, n)
    <3>1. g[n] = Step(f, n)
      <4>1. CASE n <= k
        <5>1. n \in 0..k
          BY <4>1
        <5>2. f[n] = Step(f, n)
          BY <2>1, <5>1
        <5> QED  BY <4>1, <5>2
      <4>2. CASE ~(n <= k)
        BY <4>2
      <4> QED  BY <4>1, <4>2
    <3>2. n # 0 => g[n - 1] = f[n - 1]
      <4>1. n # 0 => n - 1 \in 0..(k + 1) /\ n - 1 <= k
        OBVIOUS
      <4> QED  BY <4>1
    <3> QED  BY <3>1, <3>2
  <2> QED  BY <2>3, <2>4
<1> HIDE DEF Upto
<1>4. \A k \in Nat : k <= N => Upto(k)
  <2> SUFFICES ASSUME {k \in Nat : k <= N /\ ~Upto(k)} # {} PROVE FALSE
    OBVIOUS
  <2>1. PICK x \in {k \in Nat : k <= N /\ ~Upto(k)} :
          \A y \in {k \in Nat : k <= N /\ ~Upto(k)} : x <= y
    BY LeastNumber
  <2>2. x # 0
    BY <2>1, <1>2
  <2>3. x - 1 \in Nat /\ x - 1 <= N /\ (x - 1) + 1 = x
    BY <2>1, <2>2, <1>1
  <2>4. Upto(x - 1)
    BY <2>1, <2>3
  <2> QED  BY <2>1, <2>3, <2>4, <1>3
<1>5. PICK f \in [0..N -> Int] : \A n \in 0..N : f[n] = Step(f, n)
  <2>1. Upto(N)
    BY <1>1, <1>4
  <2> QED  BY <2>1 DEF Upto
<1>6. f = Body(f)
  BY <1>5
<1>7. value = Body(value)
  BY <1>6
<1>8. \A n \in 0..N : value[n] = Step(value, n)
  BY <1>7
<1> HIDE DEF value
<1>9. \A n \in 0..N : value[n] \in Int
  <2> SUFFICES ASSUME {n \in Nat : n <= N /\ value[n] \notin Int} # {} PROVE FALSE
    BY <1>1
  <2>1. PICK x \in {n \in Nat : n <= N /\ value[n] \notin Int} :
          \A y \in {n \in Nat : n <= N /\ value[n] \notin Int} : x <= y
    BY LeastNumber
  <2>2. x # 0
    BY <2>1, <1>1, <1>8
  <2>3. x - 1 \in Nat /\ x - 1 <= N /\ x \in 1..N /\ x \in 0..N
    BY <2>1, <2>2, <1>1
  <2>4. value[x - 1] \in Int
    BY <2>1, <2>3
  <2>5. value[x] = 10 * value[x - 1] + (s[x] - 48)
    BY <1>8, <2>2, <2>3
  <2> QED  BY <2>1, <2>3, <2>4, <2>5, <1>1
<1>10. DigitsValue(s) = value[N]
  BY DEF DigitsValue, value
<1> QED  BY <1>1, <1>9, <1>10

\* The position an index denotes is a number, and depends on its kind and content alone.
LEMMA PositionIsNumber ==
  ASSUME NEW v, Scalar(v)
  PROVE  ArrayIndex(v) \in Int /\ ArrayIndex(<<v[1], v[2]>>) = ArrayIndex(v)
PROOF
<1>1. ArrayIndex(<<v[1], v[2]>>) = ArrayIndex(v)
  BY DEF ArrayIndex
<1>2. v[1] = "string" => DigitsValue(v[2]) \in Int
  BY DigitsAreNumber DEF Scalar
<1>3. v[1] = "number" => v[2] \in Int
  BY DEF Scalar
<1>4. v[1] = "number" => ArrayIndex(v) \in Int
  BY <1>3 DEF ArrayIndex
<1>5. v[1] = "string" => ArrayIndex(v) \in Int
  BY <1>2 DEF ArrayIndex
<1>6. v[1] \notin {"number", "string"} => ArrayIndex(v) \in Int
  BY DEF ArrayIndex
<1> QED  BY <1>1, <1>4, <1>5, <1>6

\* "length" is no position.
LEMMA LengthIsNoPosition == ASSUME NEW v, v[1] = "string", v[2] = Length PROVE ArrayIndex(v) = -1
PROOF
<1>1. Length # <<48>> /\ Length # <<>> /\ Length[1] = 108 /\ 1 \in DOMAIN Length
  BY DEF Length
<1>2. ~IsDigits(Length)
  BY <1>1 DEF IsDigits
<1> QED  BY <1>1, <1>2 DEF ArrayIndex

\* Whatever is possible, the types of the whole include its own.
LEMMA EachHolds == ASSUME NEW S, Each(S) # {}, NEW r \in S PROVE r # {} /\ r \subseteq Each(S)
  BY DEF Each

\* How a value is made is told by the kind of its type.
LEMMA ShownByKind ==
  ASSUME NEW R, NEW v, NEW t, Shows(R, v, t)
  PROVE  /\ t[1] \in Scalars \cup {"array", "tuple", "object"}
         /\ t[1] \in Scalars => ShowsScalar(v, t)
         /\ t[1] = "array" => ShowsArray(R, v, t)
         /\ t[1] = "tuple" => ShowsTuple(R, v, t)
         /\ t[1] = "object" => ShowsObject(R, v, t)
         /\ ~IsError(v)
  BY DEF Shows, ShowsScalar, ShowsArray, ShowsTuple, ShowsObject, Scalar, Scalars, IsError

\* What R relates to one of the types is of it.
LEMMA PartIsGood ==
  ASSUME NEW R, Faithful(R), NEW v, NEW types, Has(R, v, types) PROVE Good(R, v, types)
  BY DEF Faithful, Has, Good

\* A value of some of the types is a value of more of them.
LEMMA GoodOfMore ==
  ASSUME NEW R, NEW v, NEW few, NEW more, few \subseteq more, Good(R, v, few) PROVE Good(R, v, more)
  BY DEF Good

\* A scalar is of its kind and of its literal type.
LEMMA ScalarIsGood ==
  ASSUME NEW R, NEW v, Scalar(v) PROVE Good(R, v, {Plain(v[1])}) /\ Good(R, v, {LiteralType(v)})
PROOF
<1>1. ShowsScalar(v, Plain(v[1])) /\ ShowsScalar(v, LiteralType(v))
  BY DEF ShowsScalar, Plain, LiteralType
<1> QED  BY <1>1 DEF Good, Shows

\* The values the evaluation makes are scalars.
LEMMA ScalarsMade ==
  /\ \A n \in Int : Scalar(Number(n)) /\ Number(n)[1] = "number"
  /\ \A s \in Seq(Int) : Scalar(String(s)) /\ String(s)[1] = "string"
  /\ \A b \in BOOLEAN : Scalar(Boolean(b)) /\ Boolean(b)[1] = "boolean"
  /\ Scalar(Undefined) /\ Undefined[1] = "undefined"
  BY DEF Scalar, Number, String, Boolean, Undefined

\* So they are of their kinds.
LEMMA MadeAreGood ==
  ASSUME NEW R
  PROVE  /\ \A n \in Int : Good(R, Number(n), {Plain("number")})
         /\ \A s \in Seq(Int) : Good(R, String(s), {Plain("string")})
         /\ \A b \in BOOLEAN : Good(R, Boolean(b), {Plain("boolean")})
         /\ Good(R, Undefined, {Plain("undefined")})
PROOF
<1>1. \A v : Scalar(v) => Good(R, v, {Plain(v[1])})
  BY ScalarIsGood
<1> QED  BY <1>1, ScalarsMade

----------------------------------------------------------------------------
\* Members and items

\* The member of an object is of the types declared for it, or missing where it may be.
LEMMA MemberIsGood ==
  ASSUME NEW R, Faithful(R), NEW v, NEW t, ShowsObject(R, v, t), NEW name,
         MemberTypes(t[2], name) # {}
  PROVE  Good(R, ReadProperty(v, name), MemberTypes(t[2], name))
PROOF
<1>1. name \in DOMAIN t[2] /\ t[2][name].types \subseteq MemberTypes(t[2], name) /\ v[1] = "object"
  BY DEF MemberTypes, ShowsObject
<1>2. CASE name \in DOMAIN v[2]
  <2>1. ReadProperty(v, name) = v[2][name]
    BY <1>1, <1>2 DEF ReadProperty
  <2>2. Has(R, v[2][name], t[2][name].types)
    BY <1>1, <1>2 DEF ShowsObject
  <2> QED  BY <1>1, <2>1, <2>2, PartIsGood, GoodOfMore
<1>3. CASE name \notin DOMAIN v[2]
  <2>1. ReadProperty(v, name) = Undefined
    BY <1>1, <1>3 DEF ReadProperty
  <2>2. t[2][name].optional
    BY <1>1, <1>3 DEF ShowsObject
  <2>3. {Plain("undefined")} \subseteq MemberTypes(t[2], name)
    BY <1>1, <2>2 DEF MemberTypes
  <2> QED  BY <2>1, <2>3, MadeAreGood, GoodOfMore
<1> QED  BY <1>2, <1>3

\* A property the types admit is read, and of the types inferred (_property_result_types).
LEMMA PropertyIsGood ==
  ASSUME NEW R, Faithful(R), NEW v, NEW types, Good(R, v, types), NEW name,
         PropertyTypes(types, name) # {}
  PROVE  Good(R, ReadProperty(v, name), PropertyTypes(types, name))
PROOF
<1>1. PICK t \in types : Shows(R, v, t)
  BY DEF Good
<1>2. PropertyOf(t, name) # {} /\ PropertyOf(t, name) \subseteq PropertyTypes(types, name)
  BY EachHolds DEF PropertyTypes
<1> SUFFICES Good(R, ReadProperty(v, name), PropertyOf(t, name))
  BY <1>2, GoodOfMore
<1>3. CASE t[1] = "object"
  <2>1. PropertyOf(t, name) = MemberTypes(t[2], name)
    BY <1>3 DEF PropertyOf
  <2>2. ShowsObject(R, v, t)
    BY <1>1, <1>3, ShownByKind
  <2> QED  BY <1>2, <2>1, <2>2, MemberIsGood
<1>4. CASE t[1] # "object"
  <2>1. t[1] \in {"string", "array", "tuple"} /\ name = Length
        /\ PropertyOf(t, name) = {Plain("number")}
    BY <1>2, <1>4 DEF PropertyOf
  <2>2. v[1] \in {"array", "string"} /\ Len(v[2]) \in Nat
    BY <1>1, <2>1, ShownByKind, LenProperties
       DEF ShowsScalar, ShowsArray, ShowsTuple, Scalars, Scalar
  <2>3. ReadProperty(v, name) = Number(Len(v[2]))
    BY <2>1, <2>2 DEF ReadProperty
  <2>4. Good(R, Number(Len(v[2])), {Plain("number")})
    <3>1. Len(v[2]) \in Int
      BY <2>2
    <3> QED  BY <3>1, MadeAreGood
  <2> QED  BY <2>1, <2>3, <2>4
<1> QED  BY <1>3, <1>4

\* What the types of an item are made from, one possibility of ItemTypes at a time.
LEMMA ItemCases ==
  ASSUME NEW o, NEW index, ItemTypes(o, index) # {}
  PROVE  LET literal == index[2] # <<>>
             position == ArrayIndex(<<index[1], index[2][1]>>)
             types == ItemTypes(o, index)
         IN  \/ o[1] = "object" /\ literal /\ types = MemberTypes(o[2], Key(index[1], index[2][1]))
             \/ /\ o[1] \in {"array", "tuple", "string"} /\ index[1] = "string"
                /\ index[2] = <<Length>> /\ types = {Plain("number")}
             \/ /\ o[1] = "array" /\ (index[1] = "number" \/ (literal /\ position >= 0))
                /\ types = o[2] \cup {Plain("undefined")}
             \/ /\ o[1] = "string" /\ (index[1] = "number" \/ (literal /\ position >= 0))
                /\ types = {Plain("string"), Plain("undefined")}
             \/ /\ o[1] = "tuple" /\ ~literal /\ index[1] = "number"
                /\ types = (UNION Range(o[2])) \cup {Plain("undefined")}
             \/ /\ o[1] = "tuple" /\ literal /\ position >= 0
                /\ types = IF position < Len(o[2]) THEN o[2][position + 1] ELSE {Plain("undefined")}
PROOF
  BY DEF ItemTypes

\* The item at a position of a sequence, or undefined.
LEMMA ItemRead ==
  ASSUME NEW v, v[1] \in {"array", "string"}, NEW i, Scalar(i),
         ~(i[1] = "string" /\ i[2] = Length)
  PROVE  ReadIndex(v, i) =
           IF ArrayIndex(i) \notin 0..(Len(v[2]) - 1) THEN Undefined
           ELSE IF v[1] = "array" THEN v[2][ArrayIndex(i) + 1]
           ELSE String(<<v[2][ArrayIndex(i) + 1]>>)
  BY DEF ReadIndex

\* An item the types admit is read, and of the types inferred for the pair.
LEMMA ItemIsGood ==
  ASSUME NEW R, Faithful(R), NEW v, NEW t, Shows(R, v, t),
         NEW i, NEW u, ShowsScalar(i, u), i[1] \in {"number", "string"}, ItemTypes(t, u) # {}
  PROVE  Good(R, ReadIndex(v, i), ItemTypes(t, u))
PROOF
<1> DEFINE literal == u[2] # <<>>
           position == ArrayIndex(<<u[1], u[2][1]>>)
           types == ItemTypes(t, u)
<1>1. u[1] = i[1] /\ Scalar(i) /\ (literal => u[2] = <<i[2]>> /\ u[2][1] = i[2])
  BY DEF ShowsScalar
<1>2. ArrayIndex(i) \in Int /\ (literal => position = ArrayIndex(i))
  BY <1>1, PositionIsNumber
<1> HIDE DEF position
<1>3. CASE t[1] = "object"
  <2>1. literal /\ types = MemberTypes(t[2], Key(u[1], u[2][1]))
    BY <1>3, ItemCases
  <2>2. ShowsObject(R, v, t) /\ v[1] = "object"
    BY <1>3, ShownByKind DEF ShowsObject
  <2>3. ReadIndex(v, i) = ReadProperty(v, Key(i[1], i[2]))
    BY <2>2 DEF ReadIndex
  <2>4. Key(u[1], u[2][1]) = Key(i[1], i[2])
    BY <1>1, <2>1
  <2> QED  BY <2>1, <2>2, <2>3, <2>4, MemberIsGood
<1>4. CASE t[1] \in {"array", "tuple", "string"}
  <2>1. v[1] \in {"array", "string"} /\ Len(v[2]) \in Int
    BY <1>4, ShownByKind, LenProperties DEF ShowsScalar, ShowsArray, ShowsTuple, Scalars, Scalar
  <2>2. CASE i[1] = "string" /\ i[2] = Length
    <3>1. ArrayIndex(i) = -1
      BY <2>2, LengthIsNoPosition
    <3>2. u[1] = "string" /\ ~(literal /\ position >= 0)
      BY <1>1, <1>2, <2>2, <3>1
    <3>3. types = {Plain("number")}
      BY <1>4, <3>2, ItemCases DEF position
    <3>4. ReadIndex(v, i) = Number(Len(v[2]))
      BY <2>1, <2>2 DEF ReadIndex
    <3> QED  BY <2>1, <3>3, <3>4, MadeAreGood
  <2>3. CASE ~(i[1] = "string" /\ i[2] = Length)
    <3>1. ReadIndex(v, i) =
            IF ArrayIndex(i) \notin 0..(Len(v[2]) - 1) THEN Undefined
            ELSE IF v[1] = "array" THEN v[2][ArrayIndex(i) + 1]
            ELSE String(<<v[2][ArrayIndex(i) + 1]>>)
      BY <1>1, <2>1, <2>3, ItemRead
    <3>2. ~(u[1] = "string" /\ u[2] = <<Length>>)
      <4>1. <<Length>> # <<>> /\ <<Length>>[1] = Length
        OBVIOUS
      <4> QED  BY <1>1, <2>3, <4>1
    <3>3. Good(R, Undefined, {Plain("undefined")})
      BY MadeAreGood
    <3>4. CASE t[1] = "array"
      <4>1. types = t[2] \cup {Plain("undefined")}
        BY <3>2, <3>4, ItemCases
      <4>2. ShowsArray(R, v, t)
        BY <3>4, ShownByKind
      <4>3. CASE ArrayIndex(i) \in 0..(Len(v[2]) - 1)
        <5>1. ArrayIndex(i) + 1 \in DOMAIN v[2] /\ ReadIndex(v, i) = v[2][ArrayIndex(i) + 1]
          BY <4>2, <4>3, <3>1 DEF ShowsArray
        <5>2. Has(R, ReadIndex(v, i), t[2])
          BY <4>2, <5>1 DEF ShowsArray
        <5> QED  BY <4>1, <5>2, PartIsGood, GoodOfMore
      <4>4. CASE ArrayIndex(i) \notin 0..(Len(v[2]) - 1)
        BY <3>1, <3>3, <4>1, <4>4, GoodOfMore
      <4> QED  BY <4>3, <4>4
    <3>5. CASE t[1] = "string"
      <4>1. types = {Plain("string"), Plain("undefined")}
        BY <3>2, <3>5, ItemCases
      <4>2. v[1] = "string" /\ v[2] \in Seq(Int)
        BY <3>5, ShownByKind DEF ShowsScalar, Scalars, Scalar
      <4>3. CASE ArrayIndex(i) \in 0..(Len(v[2]) - 1)
        <5>1. ArrayIndex(i) + 1 \in 1..Len(v[2])
              /\ ReadIndex(v, i) = String(<<v[2][ArrayIndex(i) + 1]>>)
          BY <4>2, <4>3, <3>1, <2>1
        <5>2. v[2][ArrayIndex(i) + 1] \in Int
          BY <4>2, <5>1, ElementOfSeq
        <5>3. <<v[2][ArrayIndex(i) + 1]>> \in Seq(Int)
          BY <5>2
        <5>4. Good(R, ReadIndex(v, i), {Plain("string")})
          BY <5>1, <5>3, MadeAreGood
        <5> QED  BY <4>1, <5>4, GoodOfMore
      <4>4. CASE ArrayIndex(i) \notin 0..(Len(v[2]) - 1)
        BY <3>1, <3>3, <4>1, <4>4, GoodOfMore
      <4> QED  BY <4>3, <4>4
    <3>6. CASE t[1] = "tuple"
      <4>1. ShowsTuple(R, v, t)
        BY <3>6, ShownByKind
      <4>2. ASSUME ArrayIndex(i) \in 0..(Len(v[2]) - 1)
            PROVE  /\ ArrayIndex(i) + 1 \in DOMAIN t[2]
                   /\ Good(R, ReadIndex(v, i), t[2][ArrayIndex(i) + 1])
        <5>1. ArrayIndex(i) + 1 \in DOMAIN v[2] /\ ReadIndex(v, i) = v[2][ArrayIndex(i) + 1]
          BY <4>1, <4>2, <3>1 DEF ShowsTuple
        <5>2. Has(R, ReadIndex(v, i), t[2][ArrayIndex(i) + 1])
          BY <4>1, <5>1 DEF ShowsTuple
        <5> QED  BY <4>1, <5>1, <5>2, PartIsGood DEF ShowsTuple
      <4>3. CASE ~literal
        <5>1. types = (UNION Range(t[2])) \cup {Plain("undefined")}
          BY <3>2, <3>6, <4>3, ItemCases
        <5>2. CASE ArrayIndex(i) \in 0..(Len(v[2]) - 1)
          <6>1. t[2][ArrayIndex(i) + 1] \subseteq types
            BY <4>2, <5>1, <5>2 DEF Range
          <6> QED  BY <4>2, <5>2, <6>1, GoodOfMore
        <5>3. CASE ArrayIndex(i) \notin 0..(Len(v[2]) - 1)
          BY <3>1, <3>3, <5>1, <5>3, GoodOfMore
        <5> QED  BY <5>2, <5>3
      <4>4. CASE literal
        <5>1. position >= 0 /\ types = IF position < Len(t[2]) THEN t[2][position + 1]
                                       ELSE {Plain("undefined")}
          BY <3>2, <3>6, <4>4, ItemCases DEF position
        <5>2. position = ArrayIndex(i) /\ Len(t[2]) = Len(v[2])
          BY <1>2, <4>1, <4>4 DEF ShowsTuple
        <5>3. CASE ArrayIndex(i) < Len(v[2])
          <6>1. ArrayIndex(i) \in 0..(Len(v[2]) - 1) /\ types = t[2][ArrayIndex(i) + 1]
            BY <1>2, <2>1, <5>1, <5>2, <5>3
          <6> QED  BY <4>2, <6>1
        <5>4. CASE ~(ArrayIndex(i) < Len(v[2]))
          <6>1. ArrayIndex(i) \notin 0..(Len(v[2]) - 1) /\ types = {Plain("undefined")}
            BY <1>2, <2>1, <5>1, <5>2, <5>4
          <6> QED  BY <3>1, <3>3, <6>1
        <5> QED  BY <5>3, <5>4
      <4> QED  BY <4>3, <4>4
    <3> QED  BY <1>4, <3>4, <3>5, <3>6
  <2> QED  BY <2>2, <2>3
<1>5. t[1] \in {"object", "array", "tuple", "string"}
  BY ItemCases
<1> QED  BY <1>3, <1>4, <1>5

\* An index the types admit is read, and of the types inferred (_index_result_types).
LEMMA IndexIsGood ==
  ASSUME NEW R, Faithful(R), NEW v, NEW objects, Good(R, v, objects),
         NEW i, NEW indexes, Good(R, i, indexes), IndexTypes(objects, indexes) # {}
  PROVE  Good(R, ReadIndex(v, i), IndexTypes(objects, indexes))
PROOF
<1> DEFINE pairs == {ItemTypes(o, index) : o \in objects, index \in indexes}
<1>1. PICK t \in objects : Shows(R, v, t)
  BY DEF Good
<1>2. PICK u \in indexes : Shows(R, i, u)
  BY DEF Good
<1>3. Require(indexes, {"number", "string"})
  <2> SUFFICES ASSUME ~Require(indexes, {"number", "string"}) PROVE FALSE
    OBVIOUS
  <2>1. IndexTypes(objects, indexes) = {}
    BY DEF IndexTypes
  <2> QED  BY <2>1
<1>4. IndexTypes(objects, indexes) = Each(pairs)
  BY <1>3 DEF IndexTypes
<1>5. u[1] \in {"number", "string"}
  BY <1>3 DEF Require, Kinds
<1>6. ShowsScalar(i, u) /\ i[1] \in {"number", "string"}
  <2>1. ShowsScalar(i, u)
    BY <1>2, <1>5, ShownByKind DEF Scalars
  <2> QED  BY <2>1, <1>5 DEF ShowsScalar
<1>7. ItemTypes(t, u) \in pairs
  OBVIOUS
<1> HIDE DEF pairs
<1>8. ItemTypes(t, u) # {} /\ ItemTypes(t, u) \subseteq IndexTypes(objects, indexes)
  BY <1>4, <1>7, EachHolds
<1>9. Good(R, ReadIndex(v, i), ItemTypes(t, u))
  BY <1>1, <1>6, <1>8, ItemIsGood
<1> QED  BY <1>8, <1>9, GoodOfMore

----------------------------------------------------------------------------
\* Operators

\* A value whose types are all of one scalar kind is a scalar of that kind.
LEMMA KindIsKept ==
  ASSUME NEW R, NEW v, NEW types, Good(R, v, types),
         NEW kinds, kinds \subseteq Scalars, Require(types, kinds)
  PROVE  Scalar(v) /\ v[1] \in kinds /\ ~IsError(v)
PROOF
<1>1. PICK t \in types : Shows(R, v, t)
  BY DEF Good
<1>2. t[1] \in kinds
  BY DEF Require, Kinds
<1>3. ShowsScalar(v, t)
  BY <1>1, <1>2, ShownByKind
<1> QED  BY <1>1, <1>2, <1>3, ShownByKind DEF ShowsScalar

\* A unary operator makes a value of the types inferred for it.
LEMMA UnaryIsGood ==
  ASSUME NEW R, NEW v, NEW types, Good(R, v, types), NEW operator,
         Require(types, {IF operator = "!" THEN "boolean" ELSE "number"})
  PROVE  Good(R, Negate(operator, v),
              IF operator = "!" THEN {Plain("boolean")} ELSE Signed(operator, types))
PROOF
<1>1. Scalar(v) /\ v[1] \in {IF operator = "!" THEN "boolean" ELSE "number"}
  BY KindIsKept DEF Scalars
<1>2. CASE operator = "!"
  <2>1. v[1] = "boolean" /\ v[2] \in BOOLEAN
    BY <1>1, <1>2 DEF Scalar
  <2>2. Negate(operator, v) = Boolean(~v[2])
    BY <1>2, <2>1 DEF Negate
  <2>3. (~v[2]) \in BOOLEAN
    OBVIOUS
  <2>4. Good(R, Boolean(~v[2]), {Plain("boolean")})
    BY <2>3, MadeAreGood
  <2> QED  BY <1>2, <2>2, <2>4
<1>3. CASE operator # "!"
  <2> DEFINE n == IF operator = "-" THEN -v[2] ELSE v[2]
  <2>1. v[1] = "number" /\ v[2] \in Int /\ n \in Int
    BY <1>1, <1>3 DEF Scalar
  <2>2. Negate(operator, v) = Number(n)
    BY <1>3, <2>1 DEF Negate
  <2>3. Good(R, Number(n), {Plain("number")}) /\ Good(R, Number(n), {LiteralType(Number(n))})
    BY <2>1, ScalarIsGood, ScalarsMade
  <2>4. CASE \A t \in types : t[2] # <<>>
    <3>1. PICK t \in types : Shows(R, v, t)
      BY DEF Good
    <3>2. ShowsScalar(v, t)
      BY <1>3, <3>1, ShownByKind DEF Require, Kinds, Scalars
    <3>3. t[2][1] = v[2]
      BY <2>4, <3>2 DEF ShowsScalar
    <3>4. LiteralType(Number(n)) = <<"number", <<IF operator = "-" THEN -t[2][1] ELSE t[2][1]>>>>
      BY <3>3 DEF LiteralType, Number
    <3>5. {LiteralType(Number(n))} \subseteq Signed(operator, types)
      BY <2>4, <3>4 DEF Signed
    <3> QED  BY <1>3, <2>2, <2>3, <3>5, GoodOfMore
  <2>5. CASE ~(\A t \in types : t[2] # <<>>)
    BY <1>3, <2>2, <2>3, <2>5 DEF Signed
  <2> QED  BY <2>4, <2>5
<1> QED  BY <1>2, <1>3

\* What comes of an expression of these types: a value of one of them, or an arithmetic failure.
Outcome(R, v, types) == v = NonFinite \/ Good(R, v, types)

\* An arithmetic failure is an error, and an outcome that is no error is a value.
LEMMA OutcomeCases ==
  ASSUME NEW R, NEW v, NEW types, Outcome(R, v, types)
  PROVE  /\ IsError(NonFinite)
         /\ IsError(v) => v = NonFinite
         /\ ~IsError(v) => Good(R, v, types)
PROOF
<1>1. IsError(NonFinite)
  BY DEF IsError, NonFinite
<1>2. Good(R, v, types) => ~IsError(v)
  BY ShownByKind DEF Good
<1> QED  BY <1>1, <1>2 DEF Outcome

\* A comparison of numbers or of strings makes a truth value.
LEMMA OrderIsGood ==
  ASSUME NEW R, NEW l, NEW left, Good(R, l, left), NEW r, NEW right, Good(R, r, right),
         NEW operator,
         Kinds(left) = Kinds(right) /\ Kinds(left) \in {{"number"}, {"string"}}
  PROVE  Good(R, OrderedCompare(operator, l, r), {Plain("boolean")})
PROOF
<1> DEFINE less == IF l[1] = "string" THEN Before(l[2], r[2]) ELSE l[2] < r[2]
           outcome == IF operator = "<" THEN less ELSE ~less
<1>1. PICK kind \in {"number", "string"} : Kinds(left) = {kind} /\ Kinds(right) = {kind}
  OBVIOUS
<1>2. Require(left, {kind}) /\ Require(right, {kind})
  BY <1>1 DEF Require, Kinds
<1>3. Scalar(l) /\ l[1] = kind /\ Scalar(r) /\ r[1] = kind
  BY <1>2, KindIsKept DEF Scalars
<1>4. OrderedCompare(operator, l, r) = Boolean(outcome)
  BY <1>3 DEF OrderedCompare
<1>5. outcome \in BOOLEAN
  <2>1. Before(l[2], r[2]) \in BOOLEAN /\ (l[2] < r[2]) \in BOOLEAN
    BY DEF Before
  <2>2. less \in BOOLEAN
    BY <2>1
  <2> QED  BY <2>2
<1>6. Good(R, Boolean(outcome), {Plain("boolean")})
  <2> HIDE DEF outcome
  <2> QED  BY <1>5, MadeAreGood
<1> QED  BY <1>4, <1>6

\* Arithmetic on numbers makes a number, or fails.
LEMMA ArithmeticIsGood ==
  ASSUME NEW R, NEW l, NEW left, Good(R, l, left), NEW r, NEW right, Good(R, r, right),
         NEW operator \in Arithmetic, Require(left, {"number"}), Require(right, {"number"})
  PROVE  Outcome(R, Calculate(operator, l, r), {Plain("number")})
PROOF
<1>1. Scalar(l) /\ l[1] = "number" /\ Scalar(r) /\ r[1] = "number"
  BY KindIsKept DEF Scalars
<1>2. l[2] \in Int /\ r[2] \in Int
  BY <1>1 DEF Scalar
<1>3. r[2] # 0 => Quotient(l[2], r[2]) \in Int
  BY <1>2 DEF Quotient
<1>4. CASE operator = "+"
  <2>1. Calculate(operator, l, r) = Number(l[2] + r[2]) /\ l[2] + r[2] \in Int
    BY <1>1, <1>2, <1>4 DEF Calculate
  <2> QED  BY <2>1, MadeAreGood DEF Outcome
<1>5. CASE operator = "-"
  <2>1. Calculate(operator, l, r) = Number(l[2] - r[2]) /\ l[2] - r[2] \in Int
    BY <1>1, <1>2, <1>5 DEF Calculate
  <2> QED  BY <2>1, MadeAreGood DEF Outcome
<1>6. CASE operator = "/"
  <2>1. Calculate(operator, l, r) = IF r[2] = 0 THEN NonFinite ELSE Number(Quotient(l[2], r[2]))
    BY <1>1, <1>6 DEF Calculate
  <2> QED  BY <1>3, <2>1, MadeAreGood DEF Outcome
<1> QED  BY <1>4, <1>5, <1>6 DEF Arithmetic

\* && and || make a truth value or fail as an operand does, evaluated or not.
LEMMA LogicIsGood ==
  ASSUME NEW R, NEW l, NEW left, Outcome(R, l, left), NEW r, NEW right, Outcome(R, r, right),
         NEW operator, Require(left, {"boolean"}), Require(right, {"boolean"})
  PROVE  Outcome(R, Connect(operator, l, r), {Plain("boolean")})
PROOF
<1>1. ASSUME NEW v, NEW types, Outcome(R, v, types), Require(types, {"boolean"}), ~IsError(v)
      PROVE  v[1] = "boolean" /\ Good(R, v, {Plain("boolean")})
  <2>1. Good(R, v, types)
    BY <1>1, OutcomeCases
  <2>2. Scalar(v) /\ v[1] = "boolean"
    BY <1>1, <2>1, KindIsKept DEF Scalars
  <2> QED  BY <2>2, ScalarIsGood
<1>2. CASE IsError(l)
  BY <1>2, OutcomeCases DEF Connect, Outcome
<1>3. CASE ~IsError(l)
  <2>1. l[1] = "boolean" /\ Good(R, l, {Plain("boolean")})
    BY <1>1, <1>3
  <2>2. ~IsError(r) => r[1] = "boolean" /\ Good(R, r, {Plain("boolean")})
    BY <1>1
  <2>3. IsError(r) => r = NonFinite
    BY OutcomeCases
  <2>4. Connect(operator, l, r) = l \/ Connect(operator, l, r) = r
    BY <1>3, <2>1, <2>2 DEF Connect
  <2>5. Connect(operator, l, r) \in {l, r}
    BY <2>4
  <2> QED  BY <2>1, <2>2, <2>3, <2>5 DEF Outcome
<1> QED  BY <1>2, <1>3

----------------------------------------------------------------------------
\* Expressions

\* From outcomes of the operands' types a binary operator makes one of the type inferred for it.
LEMMA BinaryIsSound ==
  ASSUME NEW R, NEW l, NEW left, left # {} => Outcome(R, l, left),
         NEW r, NEW right, right # {} => Outcome(R, r, right),
         NEW operator, Fit(operator, left, right), NEW e, e[1] = "binary", e[2] = operator,
         NEW inputs
  PROVE  Outcome(R, EvaluateStep(e, inputs, <<l, r>>),
                 {Plain(IF operator \in Arithmetic THEN "number" ELSE "boolean")})
PROOF
<1>1. left # {} /\ right # {}
  BY DEF Fit, Require, Kinds
<1>2. Outcome(R, l, left) /\ Outcome(R, r, right)
  BY <1>1
<1>3. /\ IsError(l) => l = NonFinite
      /\ IsError(r) => r = NonFinite
      /\ ~IsError(l) => Good(R, l, left)
      /\ ~IsError(r) => Good(R, r, right)
  BY <1>2, OutcomeCases
<1>4. ASSUME NEW result, NEW types,
             Good(R, l, left) /\ Good(R, r, right) => Outcome(R, result, types)
      PROVE  Outcome(R, Strictly(l, r, result), types)
  BY <1>3, <1>4 DEF Strictly, Outcome
<1>5. <<l, r>>[1] = l /\ <<l, r>>[2] = r
  OBVIOUS
<1>6. CASE operator \in Arithmetic
  <2>1. EvaluateStep(e, inputs, <<l, r>>) = Strictly(l, r, Calculate(operator, l, r))
    BY <1>5, <1>6 DEF EvaluateStep, Arithmetic, Logic, Order
  <2>2. Require(left, {"number"}) /\ Require(right, {"number"})
    BY <1>6 DEF Fit, Arithmetic, Logic, Order
  <2>3. Good(R, l, left) /\ Good(R, r, right) =>
          Outcome(R, Calculate(operator, l, r), {Plain("number")})
    BY <1>6, <2>2, ArithmeticIsGood
  <2> QED  BY <1>4, <1>6, <2>1, <2>3
<1>7. CASE operator \in Logic
  <2>1. operator \notin Arithmetic
    BY <1>7 DEF Arithmetic, Logic
  <2>2. EvaluateStep(e, inputs, <<l, r>>) = Connect(operator, l, r)
    BY <1>5, <1>7 DEF EvaluateStep, Logic, Order, Arithmetic
  <2>3. Require(left, {"boolean"}) /\ Require(right, {"boolean"})
    BY <1>7 DEF Fit, Arithmetic, Logic, Order
  <2> QED  BY <1>2, <2>1, <2>2, <2>3, LogicIsGood
<1>8. CASE operator \in Order
  <2>1. EvaluateStep(e, inputs, <<l, r>>) = Strictly(l, r, OrderedCompare(operator, l, r))
        /\ operator \notin Arithmetic
    BY <1>5, <1>8 DEF EvaluateStep, Arithmetic, Logic, Order
  <2>2. Kinds(left) = Kinds(right) /\ Kinds(left) \in {{"number"}, {"string"}}
    BY <1>8 DEF Fit, Arithmetic, Logic, Order
  <2>3. Good(R, l, left) /\ Good(R, r, right) =>
          Good(R, OrderedCompare(operator, l, r), {Plain("boolean")})
    BY <2>2, OrderIsGood
  <2>4. Good(R, l, left) /\ Good(R, r, right) =>
          Outcome(R, OrderedCompare(operator, l, r), {Plain("boolean")})
    BY <2>3 DEF Outcome
  <2> QED  BY <1>4, <2>1, <2>4
<1>9. CASE operator \notin Arithmetic \cup Logic \cup Order
  <2> DEFINE same == StrictEqual(l, r) = (operator = "===")
  <2>1. EvaluateStep(e, inputs, <<l, r>>) = Strictly(l, r, Boolean(same))
        /\ operator \notin Arithmetic
    BY <1>5, <1>9 DEF EvaluateStep
  <2>2. same \in BOOLEAN
    OBVIOUS
  <2>3. Good(R, Boolean(same), {Plain("boolean")})
    <3> HIDE DEF same
    <3> QED  BY <2>2, MadeAreGood
  <2>4. Outcome(R, Boolean(same), {Plain("boolean")})
    BY <2>3 DEF Outcome
  <2> HIDE DEF same
  <2> QED  BY <1>4, <2>1, <2>4
<1> QED  BY <1>6, <1>7, <1>8, <1>9

\* One node: from outcomes of the operands' types comes an outcome of the types inferred.
LEMMA StepIsSound ==
  ASSUME NEW R, Faithful(R), NEW e, WellFormed(e),
         NEW given, NEW inputs, \A name \in DOMAIN given : Good(R, inputs[name], given[name]),
         NEW types, NEW values,
         \A n \in DOMAIN Operands(e) : types[n] # {} => Outcome(R, values[n], types[n]),
         TypesStep(e, given, types) # {}
  PROVE  Outcome(R, EvaluateStep(e, inputs, values), TypesStep(e, given, types))
PROOF
<1>1. CASE e[1] = "literal"
  <2>1. EvaluateStep(e, inputs, values) = e[2] /\ TypesStep(e, given, types) = {LiteralType(e[2])}
    BY <1>1 DEF EvaluateStep, TypesStep
  <2>2. Good(R, e[2], {LiteralType(e[2])})
    BY <1>1, ScalarIsGood DEF WellFormed
  <2> QED  BY <2>1, <2>2 DEF Outcome
<1>2. CASE e[1] = "input"
  <2>1. EvaluateStep(e, inputs, values) = inputs[e[2]] /\ e[2] \in DOMAIN given
        /\ TypesStep(e, given, types) = given[e[2]]
    BY <1>2 DEF EvaluateStep, TypesStep
  <2> QED  BY <2>1 DEF Outcome
<1>3. CASE e[1] = "property"
  <2>1. TypesStep(e, given, types) = PropertyTypes(types[1], e[3])
    BY <1>3 DEF TypesStep
  <2>2. types[1] # {}
    BY <2>1 DEF PropertyTypes, Each
  <2>3. 1 \in DOMAIN Operands(e)
    BY <1>3 DEF Operands
  <2>4. IsError(values[1]) => values[1] = NonFinite
    BY <2>2, <2>3, OutcomeCases
  <2>5. ~IsError(values[1]) => Good(R, values[1], types[1])
    BY <2>2, <2>3, OutcomeCases
  <2>6. EvaluateStep(e, inputs, values) =
          IF IsError(values[1]) THEN values[1] ELSE ReadProperty(values[1], e[3])
    BY <1>3 DEF EvaluateStep
  <2>7. Good(R, values[1], types[1]) =>
          Good(R, ReadProperty(values[1], e[3]), PropertyTypes(types[1], e[3]))
    BY <2>1, PropertyIsGood
  <2> QED  BY <2>1, <2>4, <2>5, <2>6, <2>7 DEF Outcome
<1>4. CASE e[1] = "index"
  <2>1. TypesStep(e, given, types) = IndexTypes(types[1], types[2])
    BY <1>4 DEF TypesStep
  <2>2. types[2] # {}
    <3> SUFFICES ASSUME types[2] = {} PROVE FALSE
      OBVIOUS
    <3>1. ~Require(types[2], {"number", "string"})
      BY DEF Require
    <3>2. IndexTypes(types[1], types[2]) = {}
      BY <3>1 DEF IndexTypes
    <3> QED  BY <2>1, <3>2
  <2>3. types[1] # {}
    <3> SUFFICES ASSUME types[1] = {} PROVE FALSE
      OBVIOUS
    <3>1. {ItemTypes(o, index) : o \in types[1], index \in types[2]} = {}
      OBVIOUS
    <3>2. Each({}) = {}
      BY DEF Each
    <3>3. IndexTypes(types[1], types[2]) = {}
      BY <3>1, <3>2 DEF IndexTypes
    <3> QED  BY <2>1, <3>3
  <2>4. 1 \in DOMAIN Operands(e) /\ 2 \in DOMAIN Operands(e)
    BY <1>4 DEF Operands
  <2>5. /\ IsError(values[1]) => values[1] = NonFinite
        /\ IsError(values[2]) => values[2] = NonFinite
        /\ ~IsError(values[1]) => Good(R, values[1], types[1])
        /\ ~IsError(values[2]) => Good(R, values[2], types[2])
    BY <2>2, <2>3, <2>4, OutcomeCases
  <2>6. EvaluateStep(e, inputs, values) =
          Strictly(values[1], values[2], ReadIndex(values[1], values[2]))
    BY <1>4 DEF EvaluateStep
  <2>7. Good(R, values[1], types[1]) /\ Good(R, values[2], types[2]) =>
          Good(R, ReadIndex(values[1], values[2]), IndexTypes(types[1], types[2]))
    BY <2>1, IndexIsGood
  <2> QED  BY <2>1, <2>5, <2>6, <2>7 DEF Outcome, Strictly
<1>5. CASE e[1] = "unary"
  <2> DEFINE kind == IF e[2] = "!" THEN "boolean" ELSE "number"
             made == IF e[2] = "!" THEN {Plain("boolean")} ELSE Signed(e[2], types[1])
  <2>1. Require(types[1], {kind})
    <3> SUFFICES ASSUME ~Require(types[1], {kind}) PROVE FALSE
      OBVIOUS
    <3> QED  BY <1>5 DEF TypesStep
  <2>2. TypesStep(e, given, types) = made
    BY <1>5, <2>1 DEF TypesStep
  <2>3. types[1] # {} /\ 1 \in DOMAIN Operands(e)
    BY <1>5, <2>1 DEF Require, Operands
  <2>4. IsError(values[1]) => values[1] = NonFinite
    BY <2>3, OutcomeCases
  <2>5. ~IsError(values[1]) => Good(R, values[1], types[1])
    BY <2>3, OutcomeCases
  <2>6. EvaluateStep(e, inputs, values) =
          IF IsError(values[1]) THEN values[1] ELSE Negate(e[2], values[1])
    BY <1>5 DEF EvaluateStep
  <2>7. Good(R, values[1], types[1]) => Good(R, Negate(e[2], values[1]), made)
    BY <2>1, UnaryIsGood
  <2> HIDE DEF made
  <2> QED  BY <2>2, <2>4, <2>5, <2>6, <2>7 DEF Outcome
<1>6. CASE e[1] = "binary"
  <2>1. Fit(e[2], types[1], types[2])
    <3> SUFFICES ASSUME ~Fit(e[2], types[1], types[2]) PROVE FALSE
      OBVIOUS
    <3> QED  BY <1>6 DEF TypesStep
  <2>2. TypesStep(e, given, types) = {Plain(IF e[2] \in Arithmetic THEN "number" ELSE "boolean")}
    BY <1>6, <2>1 DEF TypesStep
  <2>3. 1 \in DOMAIN Operands(e) /\ 2 \in DOMAIN Operands(e)
    BY <1>6 DEF Operands
  <2>4. EvaluateStep(e, inputs, values) = EvaluateStep(e, inputs, <<values[1], values[2]>>)
    <3>1. <<values[1], values[2]>>[1] = values[1] /\ <<values[1], values[2]>>[2] = values[2]
      OBVIOUS
    <3> QED  BY <1>6, <3>1 DEF EvaluateStep
  <2>5. (types[1] # {} => Outcome(R, values[1], types[1]))
        /\ (types[2] # {} => Outcome(R, values[2], types[2]))
    BY <2>3
  <2> QED  BY <1>6, <2>1, <2>2, <2>4, <2>5, BinaryIsSound
<1> QED  BY <1>1, <1>2, <1>3, <1>4, <1>5, <1>6 DEF WellFormed

----------------------------------------------------------------------------
\* Input types

\* The largest relation of some values and static types that is faithful.
Largest(V, S) == UNION {Q \in SUBSET (V \X S) : Faithful(Q)}

\* A value made as a type says from what one relation holds is made so from what a larger one does.
LEMMA ShowsMore ==
  ASSUME NEW P, NEW R, P \subseteq R, NEW v, NEW t, Shows(P, v, t) PROVE Shows(R, v, t)
PROOF
<1>1. \A w, types : Has(P, w, types) => Has(R, w, types)
  BY DEF Has
<1>2. ShowsArray(P, v, t) => ShowsArray(R, v, t)
  BY <1>1 DEF ShowsArray
<1>3. ShowsTuple(P, v, t) => ShowsTuple(R, v, t)
  BY <1>1 DEF ShowsTuple
<1>4. ShowsObject(P, v, t) => ShowsObject(R, v, t)
  BY <1>1 DEF ShowsObject
<1> QED  BY <1>2, <1>3, <1>4 DEF Shows

\* The largest faithful relation is faithful, and holds all that is made from it.
LEMMA LargestHolds ==
  ASSUME NEW V, NEW S
  PROVE  /\ Faithful(Largest(V, S))
         /\ \A v \in V, t \in S : Shows(Largest(V, S), v, t) => <<v, t>> \in Largest(V, S)
PROOF
<1> DEFINE R == Largest(V, S)
<1>1. \A Q \in SUBSET (V \X S) : Faithful(Q) => Q \subseteq R
  BY DEF Largest
<1>2. Faithful(R)
  <2> SUFFICES ASSUME NEW v, NEW t, <<v, t>> \in R PROVE Shows(R, v, t)
    BY DEF Faithful
  <2>1. PICK Q \in SUBSET (V \X S) : Faithful(Q) /\ <<v, t>> \in Q
    BY DEF Largest
  <2>2. Shows(Q, v, t)
    BY <2>1 DEF Faithful
  <2> QED  BY <1>1, <2>1, <2>2, ShowsMore
<1>3. ASSUME NEW v \in V, NEW t \in S, Shows(R, v, t) PROVE <<v, t>> \in R
  <2> DEFINE Q == R \cup {<<v, t>>}
  <2>1. R \in SUBSET (V \X S)
    BY DEF Largest
  <2>2. Q \in SUBSET (V \X S)
    BY <2>1
  <2>3. R \subseteq Q
    OBVIOUS
  <2>4. Faithful(Q)
    <3> SUFFICES ASSUME NEW w, NEW u, <<w, u>> \in Q PROVE Shows(Q, w, u)
      BY DEF Faithful
    <3>1. CASE <<w, u>> \in R
      <4>1. Shows(R, w, u)
        BY <1>2, <3>1 DEF Faithful
      <4> HIDE DEF R, Q
      <4> QED  BY <2>3, <4>1, ShowsMore
    <3>2. CASE <<w, u>> = <<v, t>>
      <4>1. w = v /\ u = t
        BY <3>2
      <4> HIDE DEF R, Q
      <4> QED  BY <1>3, <2>3, <4>1, ShowsMore
    <3> HIDE DEF R
    <3> QED  BY <3>1, <3>2
  <2> HIDE DEF R
  <2> QED  BY <1>1, <2>2, <2>4
<1> QED  BY <1>2, <1>3

\* A value that fits a type is of one of its static types, when that is so of its parts.
LEMMA FitIsShown ==
  ASSUME NEW T, NEW rank, NEW static, TypeSystem(T, rank, static), NEW W, Fitting(W, T),
         NEW R, NEW v, NEW type \in T, <<v, type>> \in W,
         \A w, part : part \in Parts(type) /\ <<w, part>> \in W => Has(R, w, static[part])
  PROVE  Has(R, v, static[type]) \/ Good(R, v, static[type])
PROOF
<1> DEFINE known == [part \in Parts(type) |-> static[part]]
<1>1. Declared(type) /\ static[type] = StaticStep(type, known)
  BY DEF TypeSystem
<1>2. Json(v) /\ FitsType(W, v, type)
  BY DEF Fitting
<1>3. \A w, part : part \in Parts(type) /\ <<w, part>> \in W => Has(R, w, known[part])
  OBVIOUS
<1> HIDE DEF known
<1>4. \A t : ShowsScalar(v, t) \/ ShowsArray(R, v, t) \/ ShowsTuple(R, v, t) \/ ShowsObject(R, v, t)
               => (t \in static[type] => Good(R, v, static[type]))
  BY DEF Good, Shows
<1>5. CASE type[1] \in {"null", "boolean", "string", "number"}
  <2>1. v[1] = type[1]
    BY <1>2, <1>5 DEF FitsType
  <2>2. Scalar(v)
    BY <1>2, <1>5, <2>1 DEF Json
  <2>3. Plain(type[1]) \in static[type]
    BY <1>1, <1>5 DEF StaticStep
  <2>4. ShowsScalar(v, Plain(type[1]))
    BY <2>1, <2>2 DEF ShowsScalar, Plain
  <2> QED  BY <1>4, <2>3, <2>4
<1>6. CASE type[1] \in {"literal", "enum"}
  <2>1. Scalar(v)
    BY <1>1, <1>2, <1>6 DEF FitsType, Declared
  <2>2. LiteralType(v) \in static[type]
    BY <1>1, <1>2, <1>6 DEF StaticStep, FitsType
  <2>3. ShowsScalar(v, LiteralType(v))
    BY <2>1 DEF ShowsScalar, LiteralType
  <2> QED  BY <1>4, <2>2, <2>3
<1>7. CASE type[1] = "array"
  <2> DEFINE t == <<"array", known[type[2]]>>
  <2>1. t \in static[type]
    BY <1>1, <1>7 DEF StaticStep
  <2>2. v[1] = "array" /\ \A n \in DOMAIN v[2] : <<v[2][n], type[2]>> \in W
    BY <1>2, <1>7 DEF FitsType
  <2>3. type[2] \in Parts(type)
    BY <1>7 DEF Parts
  <2>4. Len(v[2]) \in Nat /\ DOMAIN v[2] = 1..Len(v[2])
    BY <1>2, <2>2 DEF Json, Scalar
  <2>5. t[1] = "array" /\ t[2] = known[type[2]]
    OBVIOUS
  <2> HIDE DEF t
  <2>6. \A n \in DOMAIN v[2] : Has(R, v[2][n], t[2])
    BY <1>3, <2>2, <2>3, <2>5
  <2>7. ShowsArray(R, v, t)
    BY <2>2, <2>4, <2>5, <2>6 DEF ShowsArray
  <2> QED  BY <1>4, <2>1, <2>7
<1>8. CASE type[1] = "tuple"
  <2> DEFINE items == [n \in DOMAIN type[2] |-> known[type[2][n]]]
             t == <<"tuple", items>>
  <2>1. t \in static[type]
    BY <1>1, <1>8 DEF StaticStep
  <2>2. /\ v[1] = "array" /\ DOMAIN v[2] = DOMAIN type[2]
        /\ \A n \in DOMAIN v[2] : <<v[2][n], type[2][n]>> \in W
    BY <1>2, <1>8 DEF FitsType
  <2>3. \A n \in DOMAIN v[2] : type[2][n] \in Parts(type)
    BY <1>8, <2>2 DEF Parts, Range
  <2>4. Len(v[2]) \in Nat /\ DOMAIN v[2] = 1..Len(v[2])
    BY <1>2, <2>2 DEF Json, Scalar
  <2>5. Len(items) = Len(v[2])
    <3>1. DOMAIN items = 1..Len(v[2]) /\ items = [n \in 1..Len(v[2]) |-> known[type[2][n]]]
      BY <2>2, <2>4
    <3>2. Len([n \in 1..Len(v[2]) |-> known[type[2][n]]]) = Len(v[2])
      BY <2>4
    <3> QED  BY <3>1, <3>2
  <2>6. t[1] = "tuple" /\ t[2] = items /\ DOMAIN items = DOMAIN v[2]
    BY <2>2
  <2>7. \A n \in DOMAIN v[2] : Has(R, v[2][n], items[n])
    BY <1>3, <2>2, <2>3
  <2> HIDE DEF t, items
  <2>8. ShowsTuple(R, v, t)
    BY <2>2, <2>4, <2>5, <2>6, <2>7 DEF ShowsTuple
  <2> QED  BY <1>4, <2>1, <2>8
<1>9. CASE type[1] = "object"
  <2> DEFINE members == [n \in DOMAIN type[2] |-> [types |-> known[type[2][n].type],
                                                   optional |-> type[2][n].optional]]
             t == <<"object", members>>
  <2>1. t \in static[type]
    BY <1>1, <1>9 DEF StaticStep
  <2>2. /\ v[1] = "object" /\ DOMAIN v[2] \subseteq DOMAIN type[2]
        /\ \A n \in DOMAIN v[2] : <<v[2][n], type[2][n].type>> \in W
        /\ \A n \in DOMAIN type[2] \ DOMAIN v[2] : type[2][n].optional
    BY <1>2, <1>9 DEF FitsType
  <2>3. \A n \in DOMAIN type[2] : type[2][n].type \in Parts(type)
    BY <1>9 DEF Parts
  <2>4. t[1] = "object" /\ t[2] = members /\ DOMAIN members = DOMAIN type[2]
    OBVIOUS
  <2>5. \A n \in DOMAIN type[2] : /\ members[n].types = known[type[2][n].type]
                                  /\ members[n].optional = type[2][n].optional
    OBVIOUS
  <2> HIDE DEF t, members
  <2>6. \A n \in DOMAIN v[2] : Has(R, v[2][n], members[n].types)
    BY <1>3, <2>2, <2>3, <2>5
  <2>7. \A n \in DOMAIN members \ DOMAIN v[2] : members[n].optional
    BY <2>2, <2>4, <2>5
  <2>8. ShowsObject(R, v, t)
    BY <2>2, <2>4, <2>6, <2>7 DEF ShowsObject
  <2> QED  BY <1>4, <2>1, <2>8
<1>10. CASE type[1] = "union"
  <2>1. PICK variant \in Range(type[2]) : <<v, variant>> \in W
    BY <1>2, <1>10 DEF FitsType
  <2>2. variant \in Parts(type)
    BY <1>10 DEF Parts
  <2>3. Has(R, v, known[variant])
    BY <1>3, <2>1, <2>2
  <2>4. known[variant] \subseteq static[type]
    BY <1>1, <1>10 DEF StaticStep
  <2> QED  BY <2>3, <2>4 DEF Has
<1> QED  BY <1>1, <1>5, <1>6, <1>7, <1>8, <1>9, <1>10 DEF Declared

\* What the values that fit the types of a system are of: their static types, by parts.
ShownBy(W, T, static) == Largest({p[1] : p \in W}, UNION {static[type] : type \in T})

\* The values of an input type are of its static types (_types_from_input_spec), all the way down.
THEOREM InputsAreShown ==
  ASSUME NEW T, NEW rank, NEW static, TypeSystem(T, rank, static), NEW W, Fitting(W, T)
  PROVE  /\ Faithful(ShownBy(W, T, static))
         /\ \A type \in T : \A v : <<v, type>> \in W => Good(ShownBy(W, T, static), v, static[type])
PROOF
<1> DEFINE V == {p[1] : p \in W}
           S == UNION {static[type] : type \in T}
           R == ShownBy(W, T, static)
           Late == {rank[type] : type \in {type \in T : \E v : <<v, type>> \in W
                                                             /\ ~Has(R, v, static[type])}}
<1>1. Faithful(R) /\ \A v \in V, t \in S : Shows(R, v, t) => <<v, t>> \in R
  BY LargestHolds DEF ShownBy
<1>2. \A type \in T : \A v : <<v, type>> \in W /\ Good(R, v, static[type]) => Has(R, v, static[type])
  <2> SUFFICES ASSUME NEW type \in T, NEW v, <<v, type>> \in W, Good(R, v, static[type])
               PROVE  Has(R, v, static[type])
    OBVIOUS
  <2>1. PICK t \in static[type] : Shows(R, v, t)
    BY DEF Good
  <2>2. v \in V /\ t \in S
    <3>1. <<v, type>>[1] = v
      OBVIOUS
    <3> QED  BY <3>1
  <2> QED  BY <1>1, <2>1, <2>2 DEF Has
<1> HIDE DEF R, V, S
<1>3. \A type \in T : \A v : <<v, type>> \in W => Has(R, v, static[type])
  <2> SUFFICES ASSUME Late # {} PROVE FALSE
    OBVIOUS
  <2>1. Late \in SUBSET Nat
    BY DEF TypeSystem
  <2>2. PICK least \in Late : \A other \in Late : least <= other
    <3> HIDE DEF Late
    <3> QED  BY <2>1, LeastNumber
  <2>3. PICK type \in T : least = rank[type]
                         /\ \E v : <<v, type>> \in W /\ ~Has(R, v, static[type])
    OBVIOUS
  <2>4. PICK v : <<v, type>> \in W /\ ~Has(R, v, static[type])
    BY <2>3
  <2>5. \A part \in Parts(type) : part \in T /\ rank[part] < rank[type] /\ rank[part] \in Nat
    BY <2>3 DEF TypeSystem
  <2>6. \A w, part : part \in Parts(type) /\ <<w, part>> \in W => Has(R, w, static[part])
    <3> SUFFICES ASSUME NEW w, NEW part \in Parts(type), <<w, part>> \in W,
                        ~Has(R, w, static[part])
                 PROVE  FALSE
      OBVIOUS
    <3>1. part \in T /\ rank[part] < rank[type] /\ rank[part] \in Nat /\ rank[type] \in Nat
      BY <2>1, <2>3, <2>5
    <3>2. rank[part] \in Late
      BY <3>1
    <3>3. rank[type] <= rank[part]
      BY <2>2, <2>3, <3>2
    <3> QED  BY <3>1, <3>3
  <2>7. Has(R, v, static[type]) \/ Good(R, v, static[type])
    BY <2>4, <2>6, FitIsShown
  <2> QED  BY <1>2, <2>4, <2>7
<1>4. \A type \in T : \A v : <<v, type>> \in W => Good(R, v, static[type])
  BY <1>1, <1>3, PartIsGood
<1> QED  BY <1>1, <1>4 DEF R

\* An expression the inference gives types to comes to a value of one of them, or fails in
\* arithmetic, on inputs that are of the types given for them (_infer_expression_types and the
\* evaluation of the constraints).
THEOREM TypesAreSound ==
  ASSUME NEW R, Faithful(R),
         NEW given, NEW inputs, \A name \in DOMAIN given : Good(R, inputs[name], given[name]),
         NEW E, NEW rank, Expressions(E, rank),
         NEW types, Inferred(E, given, types), NEW values, Evaluated(E, inputs, values)
  PROVE  \A e \in E : types[e] # {} => Outcome(R, values[e], types[e])
PROOF
<1> DEFINE Wrong == {e \in E : types[e] # {} /\ ~Outcome(R, values[e], types[e])}
           Ranks == {rank[e] : e \in Wrong}
<1> SUFFICES ASSUME Ranks # {} PROVE FALSE
  OBVIOUS
<1>1. Ranks \in SUBSET Nat
  BY DEF Expressions
<1>2. PICK least \in Ranks : \A other \in Ranks : least <= other
  <2> HIDE DEF Ranks
  <2> QED  BY <1>1, LeastNumber
<1>3. PICK e \in Wrong : least = rank[e]
  OBVIOUS
<1> DEFINE operands == [n \in DOMAIN Operands(e) |-> types[Operands(e)[n]]]
           results == [n \in DOMAIN Operands(e) |-> values[Operands(e)[n]]]
<1>4. WellFormed(e) /\ \A n \in DOMAIN Operands(e) : /\ Operands(e)[n] \in E
                                                     /\ rank[Operands(e)[n]] < rank[e]
  BY <1>3 DEF Expressions
<1>5. types[e] = TypesStep(e, given, operands) /\ values[e] = EvaluateStep(e, inputs, results)
  BY <1>3 DEF Inferred, Evaluated
<1>6. \A n \in DOMAIN Operands(e) : operands[n] # {} => Outcome(R, results[n], operands[n])
  <2> SUFFICES ASSUME NEW n \in DOMAIN Operands(e), operands[n] # {},
                      ~Outcome(R, results[n], operands[n])
               PROVE  FALSE
    OBVIOUS
  <2>1. Operands(e)[n] \in Wrong
    BY <1>4
  <2>2. rank[Operands(e)[n]] \in Ranks /\ rank[e] \in Ranks
    BY <1>3, <2>1
  <2>3. rank[e] <= rank[Operands(e)[n]] /\ rank[Operands(e)[n]] < rank[e]
    BY <1>2, <1>3, <1>4, <2>2
  <2>4. rank[e] \in Nat /\ rank[Operands(e)[n]] \in Nat
    BY <1>1, <2>2
  <2> QED  BY <2>3, <2>4
<1> HIDE DEF operands, results
<1>7. TypesStep(e, given, operands) # {}
  BY <1>3, <1>5
<1>8. Outcome(R, EvaluateStep(e, inputs, results), TypesStep(e, given, operands))
  BY <1>4, <1>6, <1>7, StepIsSound
<1> QED  BY <1>3, <1>5, <1>8

\* A predicate of Boolean types says true or false, or that it failed in arithmetic.
LEMMA BooleanIsDecided ==
  ASSUME NEW R, NEW v, NEW types, Outcome(R, v, types), Require(types, {"boolean"})
  PROVE  Truth(v) \in {"true", "false", "non-finite"}
PROOF
<1>1. CASE v = NonFinite
  BY <1>1 DEF Truth, NonFinite, IsError
<1>2. CASE Good(R, v, types)
  <2>1. Scalar(v) /\ v[1] = "boolean" /\ ~IsError(v)
    BY <1>2, KindIsKept DEF Scalars
  <2>2. CASE v[2]
    BY <2>1, <2>2 DEF Truth
  <2>3. CASE ~v[2]
    BY <2>1, <2>3 DEF Truth
  <2> QED  BY <2>2, <2>3
<1> QED  BY <1>1, <1>2 DEF Outcome
=============================================================================
