------------------------ MODULE TrainingData_proofs ------------------------
(***************************************************************************)
(* What the corpus of a function is made of, and how its split leaves      *)
(* groups whole, for every declaration, teacher, input space and ratio.    *)
(*                                                                         *)
(* The library's induction theorems take an operator as a parameter.  The  *)
(* least natural number outside a set stands in for them here: an          *)
(* induction is over the set of the numbers a property holds of.           *)
(***************************************************************************)
EXTENDS TrainingData, FiniteSetTheorems, SequenceTheorems, WellFoundedInduction, TLAPS

\* A set of natural numbers has a least element.
LEMMA Least ==
  ASSUME NEW S \in SUBSET Nat, S # {} PROVE \E x \in S : \A y \in S : x <= y
PROOF
<1>1. PICK x \in S : \A y \in S : ~ <<y, x>> \in OpToRel(<, Nat)
  BY WFMin, NatLessThanWellFounded
<1>2. \A y \in S : ~(y < x)
  BY <1>1 DEF OpToRel
<1> QED  BY <1>2

\* Of finitely many natural numbers one is the greatest.
LEMMA Greatest ==
  ASSUME NEW S \in SUBSET Nat, S # {}, NEW n \in Nat, \A x \in S : x <= n
  PROVE  /\ Max(S) \in S
         /\ \A y \in S : y <= Max(S)
PROOF
<1> DEFINE T == {n - x : x \in S}
<1>1. T # {} /\ T \in SUBSET Nat
  <2>1. \A x \in S : n - x \in Nat
    OBVIOUS
  <2>2. \E x \in S : n - x \in T
    OBVIOUS
  <2> QED  BY <2>1, <2>2
<1> HIDE DEF T
<1>2. PICK t \in T : \A u \in T : t <= u
  BY <1>1, Least
<1>3. PICK x \in S : t = n - x
  BY DEF T
<1>4. \A y \in S : n - x <= n - y
  BY <1>2, <1>3 DEF T
<1>5. \E z \in S : \A y \in S : z >= y
  BY <1>4
<1> QED  BY <1>5 DEF Max

\* The least element is what Min returns.
LEMMA MinIsLeast ==
  ASSUME NEW S \in SUBSET Nat, S # {} PROVE Min(S) \in S
PROOF
<1>1. \E x \in S : \A y \in S : x <= y
  BY Least
<1> QED  BY <1>1 DEF Min

\* Induction over the natural numbers, by the set of those a property holds of.
LEMMA Induction ==
  ASSUME NEW P, 0 \in P, \A n \in Nat : n \in P => n + 1 \in P
  PROVE  Nat \subseteq P
PROOF
<1> SUFFICES ASSUME Nat \ P # {} PROVE FALSE
  OBVIOUS
<1>1. PICK x \in Nat \ P : \A y \in Nat \ P : x <= y
  BY Least
<1>2. x - 1 \in Nat
  BY <1>1
<1>3. x - 1 \in P
  BY <1>1, <1>2
<1> QED  BY <1>1, <1>2, <1>3

\* Sequences of elements flatten into a sequence of elements.
LEMMA Flattened ==
  ASSUME NEW S, NEW seqs \in Seq(Seq(S)) PROVE FlattenSeq(seqs) \in Seq(S)
PROOF
<1> DEFINE N == Len(seqs)
           Body(f) == [i \in 1..N |-> IF i = 1 THEN seqs[i] ELSE f[i - 1] \o seqs[i]]
           Flat == CHOOSE f : f = Body(f)
<1>1. CASE N = 0
  <2>1. seqs = <<>>
    BY <1>1, EmptySeq
  <2> QED  BY <1>1, <2>1 DEF FlattenSeq
<1>2. CASE N # 0
  <2>1. N \in Nat /\ \A i \in 1..N : seqs[i] \in Seq(S)
    BY LenProperties, ElementOfSeq
  <2>2. \E f \in [1..N -> Seq(S)] :
          \A i \in 1..N : f[i] = IF i = 1 THEN seqs[i] ELSE f[i - 1] \o seqs[i]
    <3> DEFINE Step(f, i) == IF i = 1 THEN seqs[i] ELSE f[i - 1] \o seqs[i]
               Upto(n) == \E f \in [1..n -> Seq(S)] : \A i \in 1..n : f[i] = Step(f, i)
               P == {n \in Nat : n <= N => Upto(n)}
    <3>1. Upto(0)
      <4> DEFINE f == [i \in 1..0 |-> <<>>]
      <4>1. f \in [1..0 -> Seq(S)] /\ \A i \in 1..0 : f[i] = Step(f, i)
        OBVIOUS
      <4> QED  BY <4>1
    <3>2. ASSUME NEW n \in Nat, n + 1 <= N, Upto(n) PROVE Upto(n + 1)
      <4>1. PICK f \in [1..n -> Seq(S)] : \A i \in 1..n : f[i] = Step(f, i)
        BY <3>2
      <4> DEFINE g == [i \in 1..(n + 1) |-> IF i <= n THEN f[i] ELSE Step(f, i)]
      <4>2. seqs[n + 1] \in Seq(S)
        BY <2>1, <3>2
      <4>3. n # 0 => f[n] \o seqs[n + 1] \in Seq(S)
        BY <4>2, ConcatProperties
      <4>4. Step(f, n + 1) \in Seq(S)
        BY <4>2, <4>3
      <4>5. g \in [1..(n + 1) -> Seq(S)]
        BY <4>4
      <4>6. ASSUME NEW i \in 1..(n + 1) PROVE g[i] = Step(g, i)
        <5>1. g[i] = Step(f, i)
          <6>1. CASE i <= n
            <7>1. i \in 1..n
              BY <6>1
            <7>2. f[i] = Step(f, i)
              BY <4>1, <7>1
            <7> QED  BY <6>1, <7>2
          <6>2. CASE ~(i <= n)
            BY <6>2
          <6> QED  BY <6>1, <6>2
        <5>2. i # 1 => i - 1 \in 1..(n + 1) /\ i - 1 <= n
          OBVIOUS
        <5>3. i # 1 => g[i - 1] = f[i - 1]
          BY <5>2
        <5> QED  BY <5>1, <5>3
      <4> QED  BY <4>5, <4>6
    <3> HIDE DEF Upto
    <3>3. Nat \subseteq P
      <4>1. 0 \in P
        BY <3>1
      <4>2. ASSUME NEW n \in Nat, n \in P PROVE n + 1 \in P
        BY <4>2, <3>2, <2>1
      <4> QED  BY <4>1, <4>2, Induction
    <3>4. Upto(N)
      BY <3>3, <2>1
    <3> QED  BY <3>4 DEF Upto
  <2>3. \E f : f = Body(f)
    <3>1. PICK f \in [1..N -> Seq(S)] :
            \A i \in 1..N : f[i] = IF i = 1 THEN seqs[i] ELSE f[i - 1] \o seqs[i]
      BY <2>2
    <3>2. f = Body(f)
      BY <3>1
    <3> QED  BY <3>2
  <2>4. Flat = Body(Flat)
    BY <2>3
  <2>5. \A i \in 1..N : Flat[i] = IF i = 1 THEN seqs[i] ELSE Flat[i - 1] \o seqs[i]
    BY <2>4
  <2> HIDE DEF Flat
  <2>6. Flat[N] \in Seq(S)
    <3> DEFINE P == {n \in Nat : n + 1 <= N => Flat[n + 1] \in Seq(S)}
    <3>1. 0 \in P
      <4>1. 1 \in 1..N
        BY <1>2, <2>1
      <4>2. Flat[1] = seqs[1]
        BY <4>1, <2>5
      <4> QED  BY <4>1, <4>2, <2>1
    <3>2. ASSUME NEW n \in Nat, n \in P PROVE n + 1 \in P
      <4> SUFFICES ASSUME n + 2 <= N PROVE Flat[n + 2] \in Seq(S)
        OBVIOUS
      <4>1. n + 2 \in 1..N /\ n + 2 # 1 /\ (n + 2) - 1 = n + 1
        BY <2>1
      <4>2. Flat[n + 1] \in Seq(S)
        BY <3>2, <2>1
      <4>3. Flat[n + 2] = Flat[n + 1] \o seqs[n + 2]
        BY <2>5, <4>1
      <4> QED  BY <4>1, <4>2, <4>3, <2>1, ConcatProperties
    <3>3. Nat \subseteq P
      <4> HIDE DEF P
      <4> QED  BY <3>1, <3>2, Induction
    <3>4. N - 1 \in Nat
      BY <2>1, <1>2
    <3>5. N - 1 \in P
      BY <3>3, <3>4
    <3> QED  BY <3>5, <2>1
  <2>7. FlattenSeq(seqs) = Flat[N]
    BY <1>2 DEF FlattenSeq, Flat
  <2> QED  BY <2>6, <2>7
<1> QED  BY <1>1, <1>2

\* The rows linked to the rows of a set are in it.
Closed(rows, S) == \A m \in S : GroupNextTo(rows, m) \subseteq S

\* Following the links once for each row there is finds all that is linked to a row.
LEMMA GroupIsClosed ==
  ASSUME NEW rows, Len(rows) \in Nat, DOMAIN rows = 1..Len(rows), NEW n \in DOMAIN rows
  PROVE  /\ GroupOf(rows, n) \subseteq DOMAIN rows
         /\ n \in GroupOf(rows, n)
         /\ Closed(rows, GroupOf(rows, n))
PROOF
<1> DEFINE N == Len(rows)
           D == DOMAIN rows
           near == [m \in D |-> GroupNextTo(rows, m)]
           Step(f, d) == IF d = 0 THEN {n} ELSE UNION {near[m] : m \in f[d - 1]}
           Body(f) == [d \in 0..N |-> Step(f, d)]
           Reach == CHOOSE f : f = Body(f)
<1>1. near \in [D -> SUBSET D] /\ \A m \in D : m \in near[m]
  BY DEF GroupNextTo
<1>2. \E f \in [0..N -> SUBSET D] : \A d \in 0..N : f[d] = Step(f, d)
  <2> DEFINE Upto(k) == \E f \in [0..k -> SUBSET D] : \A d \in 0..k : f[d] = Step(f, d)
             P == {k \in Nat : k <= N => Upto(k)}
  <2>1. Upto(0)
    <3> DEFINE f == [d \in 0..0 |-> {n}]
    <3>1. f \in [0..0 -> SUBSET D] /\ \A d \in 0..0 : f[d] = Step(f, d)
      OBVIOUS
    <3> QED  BY <3>1
  <2>2. ASSUME NEW k \in Nat, k + 1 <= N, Upto(k) PROVE Upto(k + 1)
    <3>1. PICK f \in [0..k -> SUBSET D] : \A d \in 0..k : f[d] = Step(f, d)
      BY <2>2
    <3> DEFINE new == UNION {near[m] : m \in f[k]}
               g == [d \in 0..(k + 1) |-> IF d <= k THEN f[d] ELSE new]
    <3>2. new \subseteq D
      BY <1>1
    <3>3. g \in [0..(k + 1) -> SUBSET D]
      BY <3>2
    <3>4. ASSUME NEW d \in 0..(k + 1) PROVE g[d] = Step(g, d)
      <4>1. d # 0 => d - 1 \in 0..(k + 1) /\ d - 1 <= k /\ d - 1 \in 0..k
        OBVIOUS
      <4>2. d # 0 => g[d - 1] = f[d - 1]
        BY <4>1
      <4>3. CASE d <= k
        <5>1. d \in 0..k /\ g[d] = f[d]
          BY <4>3
        <5>2. f[d] = Step(f, d)
          BY <3>1, <5>1
        <5> QED  BY <5>1, <5>2, <4>2
      <4>4. CASE ~(d <= k)
        <5>1. d = k + 1 /\ g[d] = new /\ d # 0 /\ d - 1 = k
          BY <4>4
        <5> QED  BY <5>1, <4>2
      <4> QED  BY <4>3, <4>4
    <3> QED  BY <3>3, <3>4
  <2> HIDE DEF Upto
  <2>3. Nat \subseteq P
    <3>1. 0 \in P
      BY <2>1
    <3>2. ASSUME NEW k \in Nat, k \in P PROVE k + 1 \in P
      BY <3>2, <2>2
    <3> QED  BY <3>1, <3>2, Induction
  <2>4. Upto(N)
    BY <2>3
  <2> QED  BY <2>4 DEF Upto
<1>3. \E f : f = Body(f)
  <2>1. PICK f \in [0..N -> SUBSET D] : \A d \in 0..N : f[d] = Step(f, d)
    BY <1>2
  <2>2. f = Body(f)
    BY <2>1
  <2> QED  BY <2>2
<1>4. Reach = Body(Reach)
  BY <1>3
<1>5. \A d \in 0..N : Reach[d] = Step(Reach, d)
  BY <1>4
<1>6. GroupOf(rows, n) = Reach[N]
  BY DEF GroupOf
<1> HIDE DEF Reach
<1>7. IsFiniteSet(D) /\ Cardinality(D) = N
  <2>1. IsFiniteSet(1..N) /\ Cardinality(1..N) = IF 1 > N THEN 0 ELSE N - 1 + 1
    BY FS_Interval
  <2> QED  BY <2>1
<1> DEFINE Grown(d) == /\ Reach[d] \subseteq D /\ n \in Reach[d]
                       /\ Closed(rows, Reach[d]) \/ Cardinality(Reach[d]) >= d + 1
<1>8. Grown(0)
  <2>1. 0 \in 0..N
    OBVIOUS
  <2>2. Reach[0] = Step(Reach, 0)
    BY <1>5, <2>1
  <2>3. Reach[0] = {n}
    BY <2>2
  <2>4. Cardinality({n}) = 1
    BY FS_Singleton
  <2> QED  BY <2>3, <2>4
<1>9. ASSUME NEW d \in Nat, d + 1 <= N, Grown(d) PROVE Grown(d + 1)
  <2> DEFINE A == Reach[d]
             B == Reach[d + 1]
  <2>1. B = UNION {near[m] : m \in A}
    <3>1. d + 1 \in 0..N /\ d + 1 # 0 /\ (d + 1) - 1 = d
      BY <1>9
    <3>2. B = Step(Reach, d + 1)
      BY <1>5, <3>1
    <3> QED  BY <3>1, <3>2
  <2>2. A \subseteq D /\ n \in A
    BY <1>9
  <2> HIDE DEF A, B
  <2>3. A \subseteq B /\ B \subseteq D
    BY <1>1, <2>1, <2>2
  <2>4. IsFiniteSet(B) /\ Cardinality(B) \in Nat /\ Cardinality(A) \in Nat
    BY <1>7, <2>2, <2>3, FS_Subset, FS_CardinalityType
  <2>5. CASE Closed(rows, A)
    <3>1. B = A
      BY <2>5, <2>1, <2>2, <2>3 DEF Closed
    <3> QED  BY <3>1, <2>2, <2>5 DEF A, B
  <2>6. CASE ~Closed(rows, A)
    <3>1. A # B
      BY <2>6, <2>1, <2>2 DEF Closed
    <3>2. Cardinality(A) < Cardinality(B)
      BY <3>1, <2>3, <2>4, FS_Subset
    <3>3. Cardinality(A) >= d + 1
      BY <1>9, <2>6 DEF A
    <3>4. Cardinality(B) >= d + 1 + 1
      BY <3>2, <3>3, <2>4
    <3> QED  BY <3>4, <2>2, <2>3 DEF A, B
  <2> QED  BY <2>5, <2>6
<1>10. Grown(N)
  <2> DEFINE P == {d \in Nat : d <= N => Grown(d)}
  <2> HIDE DEF Grown
  <2>1. Nat \subseteq P
    <3>1. 0 \in P
      BY <1>8
    <3>2. ASSUME NEW d \in Nat, d \in P PROVE d + 1 \in P
      BY <3>2, <1>9
    <3> QED  BY <3>1, <3>2, Induction
  <2> QED  BY <2>1
<1>11. ~(Cardinality(Reach[N]) >= N + 1)
  <2>1. Cardinality(Reach[N]) <= N
    BY <1>7, <1>10, FS_Subset
  <2>2. Cardinality(Reach[N]) \in Nat
    BY <1>7, <1>10, FS_Subset, FS_CardinalityType
  <2> QED  BY <2>1, <2>2
<1> QED  BY <1>6, <1>10, <1>11

\* The datasets hold cases, and a pair starts from a synthetic one.
Datasets ==
  /\ base \in Seq(Cases)
  /\ boundary \in Seq([false : Cases, true : Cases])
  /\ pairs \in Seq([source : Synthetic, twin : Cases])

\* The rows of the boundary pairs and of the counterfactual pairs.
AdversarialRows ==
  {Row(boundary[k].false, <<"boundary", k>>) : k \in DOMAIN boundary}
  \cup {Row(boundary[k].true, <<"boundary", k>>) : k \in DOMAIN boundary}
  \cup {Row(Anchor(p), <<"pair", p>>) : p \in DOMAIN pairs}
  \cup {Row(pairs[p].twin, <<"pair", p>>) : p \in DOMAIN pairs}

\* The corpus starts with the base dataset, row by row, and goes on with adversarial rows.
LEMMA CorpusRows ==
  ASSUME Datasets
  PROVE  /\ Len(Rows) \in Nat /\ DOMAIN Rows = 1..Len(Rows)
         /\ Len(base) \in Nat /\ DOMAIN base = 1..Len(base) /\ Len(base) <= Len(Rows)
         /\ \A n \in DOMAIN base : Rows[n] = BaseRow(n)
         /\ \A n \in DOMAIN Rows : n > Len(base) => Rows[n] \in AdversarialRows
PROOF
<1> DEFINE BaseRows == {BaseRow(n) : n \in DOMAIN base}
           All == BaseRows \cup AdversarialRows
           first == [n \in DOMAIN base |-> BaseRow(n)]
           second == FlattenSeq([k \in DOMAIN boundary |-> BoundaryRows(k)])
           third == FlattenSeq([p \in DOMAIN pairs |-> PairRows(p)])
<1>1. /\ Len(base) \in Nat /\ DOMAIN base = 1..Len(base)
      /\ Len(boundary) \in Nat /\ DOMAIN boundary = 1..Len(boundary)
      /\ Len(pairs) \in Nat /\ DOMAIN pairs = 1..Len(pairs)
  BY LenProperties DEF Datasets
<1>2. first \in Seq(All) /\ Len(first) = Len(base) /\ \A n \in DOMAIN base : first[n] = BaseRow(n)
  BY <1>1
<1>3. second \in Seq(AdversarialRows)
  <2> DEFINE rows == [k \in DOMAIN boundary |-> BoundaryRows(k)]
  <2>1. \A k \in DOMAIN boundary : BoundaryRows(k) \in Seq(AdversarialRows)
    <3> TAKE k \in DOMAIN boundary
    <3>1. /\ Row(boundary[k].false, <<"boundary", k>>) \in AdversarialRows
          /\ Row(boundary[k].true, <<"boundary", k>>) \in AdversarialRows
      BY DEF AdversarialRows
    <3> QED  BY <3>1 DEF BoundaryRows
  <2>2. rows \in Seq(Seq(AdversarialRows))
    BY <1>1, <2>1
  <2> QED  BY <2>2, Flattened
<1>4. third \in Seq(AdversarialRows)
  <2> DEFINE rows == [p \in DOMAIN pairs |-> PairRows(p)]
  <2>1. \A p \in DOMAIN pairs : PairRows(p) \in Seq(AdversarialRows)
    <3> TAKE p \in DOMAIN pairs
    <3>1. /\ Row(Anchor(p), <<"pair", p>>) \in AdversarialRows
          /\ Row(pairs[p].twin, <<"pair", p>>) \in AdversarialRows
      BY DEF AdversarialRows
    <3> QED  BY <3>1 DEF PairRows
  <2>2. rows \in Seq(Seq(AdversarialRows))
    BY <1>1, <2>1
  <2> QED  BY <2>2, Flattened
<1>5. Rows = (first \o second) \o third
  BY DEF Rows
<1> HIDE DEF first, second, third
<1>6. second \in Seq(All) /\ third \in Seq(All)
  BY <1>3, <1>4, SeqMonotonic
<1>7. /\ Len(first) \in Nat /\ Len(second) \in Nat /\ Len(third) \in Nat
      /\ \A n \in 1..Len(second) : second[n] \in AdversarialRows
      /\ \A n \in 1..Len(third) : third[n] \in AdversarialRows
  BY <1>1, <1>2, <1>3, <1>4, LenProperties, ElementOfSeq
<1>8. /\ first \o second \in Seq(All)
      /\ Len(first \o second) = Len(first) + Len(second)
      /\ \A n \in 1..(Len(first) + Len(second)) : (first \o second)[n] =
           IF n <= Len(first) THEN first[n] ELSE second[n - Len(first)]
  BY <1>2, <1>6, ConcatProperties
<1>9. /\ Rows \in Seq(All)
      /\ Len(Rows) = Len(first) + Len(second) + Len(third)
      /\ \A n \in 1..(Len(first) + Len(second) + Len(third)) : Rows[n] =
           IF n <= Len(first) + Len(second) THEN (first \o second)[n]
           ELSE third[n - (Len(first) + Len(second))]
  BY <1>5, <1>6, <1>8, ConcatProperties
<1>10. Len(Rows) \in Nat /\ DOMAIN Rows = 1..Len(Rows)
  BY <1>9, LenProperties
<1>11. ASSUME NEW n \in DOMAIN base PROVE Rows[n] = BaseRow(n)
  <2>1. n \in 1..Len(first)
    BY <1>1, <1>2, <1>11
  <2>2. (first \o second)[n] = first[n]
    BY <2>1, <1>7, <1>8
  <2>3. Rows[n] = (first \o second)[n]
    BY <2>1, <1>7, <1>9
  <2> QED  BY <2>2, <2>3, <1>2, <1>11
<1>12. ASSUME NEW n \in DOMAIN Rows, n > Len(base) PROVE Rows[n] \in AdversarialRows
  <2>1. CASE n <= Len(first) + Len(second)
    <3>1. Rows[n] = second[n - Len(first)] /\ n - Len(first) \in 1..Len(second)
      BY <2>1, <1>1, <1>2, <1>7, <1>8, <1>9, <1>10, <1>12
    <3> QED  BY <3>1, <1>7
  <2>2. CASE ~(n <= Len(first) + Len(second))
    <3>1. /\ Rows[n] = third[n - (Len(first) + Len(second))]
          /\ n - (Len(first) + Len(second)) \in 1..Len(third)
      BY <2>2, <1>1, <1>2, <1>7, <1>9, <1>10, <1>12
    <3> QED  BY <3>1, <1>7
  <2> QED  BY <2>1, <2>2
<1> QED  BY <1>1, <1>2, <1>7, <1>9, <1>10, <1>11, <1>12

\* Min and Max return one of two integers.
LEMMA OneOfTwo ==
  \A a, b \in Int : Min({a, b}) \in {a, b} /\ Max({a, b}) \in {a, b}
PROOF
<1> TAKE a, b \in Int
<1>1. \E x \in {a, b} : \A y \in {a, b} : x <= y
  OBVIOUS
<1>2. \E x \in {a, b} : \A y \in {a, b} : x >= y
  OBVIOUS
<1> QED  BY <1>1, <1>2 DEF Min, Max

\* A share of a total is a number of cases.
LEMMA ShareIsNumber ==
  ASSUME NEW total \in Nat, NEW percent \in 0..100
  PROVE  (2 * total * percent + 100) \div 200 \in Nat
PROOF
<1>1. 2 * total * percent \in Nat
  OBVIOUS
<1>2. \A n \in Nat : (n + 100) \div 200 \in Nat
  OBVIOUS
<1> QED  BY <1>1, <1>2

\* There are finitely many groups, each of them a set of rows that links never leave.
LEMMA GroupsOfRows ==
  ASSUME NEW rows, Len(rows) \in Nat, DOMAIN rows = 1..Len(rows)
  PROVE  /\ IsFiniteSet(Groups(rows))
         /\ \A g \in Groups(rows) : g \subseteq DOMAIN rows /\ Closed(rows, g)
PROOF
<1> DEFINE f == [n \in DOMAIN rows |-> GroupOf(rows, n)]
<1>1. f \in Surjection(DOMAIN rows, Groups(rows))
  BY DEF Surjection, Groups
<1>2. IsFiniteSet(DOMAIN rows)
  BY FS_Interval
<1>3. IsFiniteSet(Groups(rows))
  BY <1>1, <1>2, FS_Surjection
<1>4. \A g \in Groups(rows) : g \subseteq DOMAIN rows /\ Closed(rows, g)
  BY GroupIsClosed DEF Groups
<1> QED  BY <1>3, <1>4

\* The prefix held out is made of ranked groups: the one nearest to the target is there.
LEMMA PrefixOfGroups ==
  ASSUME NEW total \in Nat, NEW D, IsFiniteSet(D), NEW R, \A g \in R : g \subseteq D,
         NEW size \in Nat, NEW ranked \in [1..size -> R], NEW kept \in Int, kept <= size
  PROVE  \E held \in SUBSET R : Prefix(total, ranked, kept) = UNION held
PROOF
<1> DEFINE target == Max({1, Min({total - 1, (2 * total * HoldOutRatio + 100) \div 200})})
           off == [n \in 1..kept |-> Distance(Cardinality(UNION {ranked[m] : m \in 1..n}), target)]
           near(n) == \A m \in 1..kept : off[n] <= off[m]
           best == {n \in 1..kept : near(n)}
<1>1. CASE kept < 1
  <2>1. Prefix(total, ranked, kept) = {}
    BY <1>1 DEF Prefix
  <2>2. UNION {} = {}
    OBVIOUS
  <2> QED  BY <2>1, <2>2
<1>2. CASE ~(kept < 1)
  <2>1. target \in Int
    <3> DEFINE share == (2 * total * HoldOutRatio + 100) \div 200
    <3>1. share \in Nat
      BY TrainingDataAssumption, ShareIsNumber
    <3> DEFINE low == Min({total - 1, share})
               one == 1
    <3>2. target = Max({one, low}) /\ one \in Int
      OBVIOUS
    <3> HIDE DEF share
    <3>3. low \in Int
      BY <3>1, OneOfTwo
    <3> HIDE DEF low, one, target
    <3>4. Max({one, low}) \in {one, low}
      BY <3>2, <3>3, OneOfTwo
    <3> QED  BY <3>2, <3>3, <3>4
  <2> HIDE DEF target
  <2>2. \A n \in 1..kept : Cardinality(UNION {ranked[m] : m \in 1..n}) \in Nat
    <3> TAKE n \in 1..kept
    <3>1. UNION {ranked[m] : m \in 1..n} \subseteq D
      OBVIOUS
    <3> QED  BY <3>1, FS_Subset, FS_CardinalityType
  <2>3. \A n \in 1..kept : off[n] \in Nat
    <3>1. \A c \in Nat : Distance(c, target) \in Nat
      BY <2>1 DEF Distance
    <3> QED  BY <2>2, <3>1
  <2> HIDE DEF off
  <2>4. best # {}
    <3> DEFINE distances == {off[n] : n \in 1..kept}
    <3>1. distances \in SUBSET Nat /\ distances # {}
      BY <1>2, <2>3
    <3>2. PICK d \in distances : \A e \in distances : d <= e
      <4> HIDE DEF distances
      <4> QED  BY <3>1, Least
    <3>3. PICK n \in 1..kept : d = off[n]
      BY <3>2
    <3>4. near(n)
      BY <3>2, <3>3
    <3> QED  BY <3>4
  <2>5. Min(best) \in best
    <3>1. best \in SUBSET Nat
      OBVIOUS
    <3> HIDE DEF best
    <3> QED  BY <2>4, <3>1, MinIsLeast
  <2>6. Min(best) \in 1..kept
    BY <2>5
  <2>7. Prefix(total, ranked, kept) = UNION {ranked[m] : m \in 1..Min(best)}
    BY <1>2 DEF Prefix, off, target
  <2> HIDE DEF best
  <2>8. {ranked[m] : m \in 1..Min(best)} \in SUBSET R
    BY <2>6
  <2> QED  BY <2>7, <2>8
<1> QED  BY <1>1, <1>2

\* A split holds out whole groups, none of them with an example.
LEMMA SplitsHoldGroups ==
  ASSUME NEW rows, Len(rows) \in Nat, DOMAIN rows = 1..Len(rows), NEW out \in Splits(rows)
  PROVE  /\ out \subseteq DOMAIN rows /\ Closed(rows, out)
         /\ \A n \in out : rows[n].case.origin # "gold"
PROOF
<1> DEFINE groups == Groups(rows)
           rankable == Rankable(rows)
           kept == Cardinality(rankable) - (IF rankable = groups THEN 1 ELSE 0)
<1>1. /\ IsFiniteSet(groups)
      /\ \A g \in groups : g \subseteq DOMAIN rows /\ Closed(rows, g)
  BY GroupsOfRows
<1>2. /\ rankable \subseteq groups
      /\ \A g \in rankable : \A n \in g : rows[n].case.origin # "gold"
  BY DEF Rankable, Origins
<1>3. Cardinality(rankable) \in Nat
  BY <1>1, <1>2, FS_Subset, FS_CardinalityType
<1>4. \E held \in SUBSET rankable : out = UNION held
  <2>1. CASE Cardinality(groups) < 2
    <3>1. out = {}
      BY <2>1 DEF Splits
    <3> QED  BY <3>1
  <2>2. CASE ~(Cardinality(groups) < 2)
    <3>1. PICK ranked \in SetToSeqs(rankable) : out = Prefix(Len(rows), ranked, kept)
      BY <2>2 DEF Splits
    <3> DEFINE D == DOMAIN rows
               size == Cardinality(rankable)
    <3>2. ranked \in [1..size -> rankable]
      BY DEF SetToSeqs
    <3>3. kept \in Int /\ kept <= size
      BY <1>3
    <3>4. (\A g \in rankable : g \subseteq D) /\ IsFiniteSet(D) /\ Len(rows) \in Nat /\ size \in Nat
      BY <1>1, <1>2, <1>3, FS_Interval
    <3> HIDE DEF rankable, kept, D, size
    <3>5. \E held \in SUBSET rankable : Prefix(Len(rows), ranked, kept) = UNION held
      BY <3>2, <3>3, <3>4, PrefixOfGroups
    <3> QED  BY <3>1, <3>5
  <2> QED  BY <2>1, <2>2
<1>5. PICK held \in SUBSET rankable : out = UNION held
  BY <1>4
<1> QED  BY <1>1, <1>2, <1>5 DEF Closed

----------------------------------------------------------------------------
\* The invariant of the data

\* A case Draw adds.
Synthesized(c) ==
  /\ c.origin = "synthetic" /\ c.spelling = Spelling(c.inputs)
  /\ c.output \in LabelsOf(c.inputs)
  /\ Teacher("constraints") => Twinned(c.inputs)

\* The base dataset starts with the examples.
BaseSound(n) ==
  /\ Satisfies(base[n])
  /\ n <= Len(Gold) => base[n] = Gold[n]
  /\ n > Len(Gold) => Synthesized(base[n])

\* An adversarial case is one a teacher gave, with the label of the last base case of its bytes.
Answered(c) ==
  /\ Answer(c) /\ Satisfies(c) /\ c.spelling = Spelling(c.inputs)
  /\ \A n \in Known(c) : (\A m \in Known(c) : m <= n) => base[n].output = c.output

\* An anchor is given up where an edit of it changes several paths.
Skips ==
  Teacher("constraints") =>
    \A n \in skipped : \E j \in Moves(base[n].inputs) : ChangedPaths(base[n].inputs, j) > 1

BaseData ==
  /\ function \in Declarations /\ base \in Seq(Cases) /\ Len(base) <= Total
  /\ compiled = <<>> \/ DOMAIN compiled = DOMAIN constraints
  /\ \A n \in DOMAIN base : BaseSound(n)

AdversarialData ==
  /\ boundary \in Seq([false : Cases, true : Cases]) /\ Len(boundary) <= Len(constraints)
  /\ pairs \in Seq([source : Synthetic, twin : Cases]) /\ skipped \subseteq Synthetic
  /\ \A k \in DOMAIN boundary : BoundaryLoads(k)
  /\ \A p \in DOMAIN pairs : PairLoads(p)
  /\ \A p, q \in DOMAIN pairs : pairs[p].source = pairs[q].source => p = q
  /\ \A c \in Adversarial : Answered(c)
  /\ \A c, d \in Adversarial : SameBytes(c, d) => c.output = d.output
  /\ Skips

Sound == BaseData /\ AdversarialData

\* What is there in which phase.
Shape ==
  /\ phase \in {"compile", "compiled"} => base = <<>>
  /\ phase \in {"compile", "compiled", "base"} => boundary = <<>>
  /\ phase \in {"compile", "compiled", "base", "boundary"} => pairs = <<>> /\ skipped = {}
  /\ phase \in {"compile", "compiled", "base", "boundary", "pairs"} => evaluation = {}
  /\ phase \in {"base", "boundary", "pairs"} => Len(Gold) <= Len(base)
  /\ phase = "pairs" => Len(boundary) = Len(constraints) /\ Len(pairs) <= Wanted
  /\ phase \notin {"compile", "compiled", "failed"} => function \in Followed
  /\ phase # "unloadable"

DataInv == Sound /\ Shape

\* What constraints and teachers say does not change while the function and its compiled
\* constraints do not.
LEMMA RulesKept ==
  ASSUME UNCHANGED <<function, compiled>>
  PROVE  /\ Inputs' = Inputs /\ Cases' = Cases /\ constraints' = constraints /\ Gold' = Gold
         /\ \A c : Satisfies(c)' <=> Satisfies(c)
         /\ \A c : Answer(c)' <=> Answer(c)
         /\ \A c : Synthesized(c)' <=> Synthesized(c)
         /\ \A i : Spelling(i)' = Spelling(i)
         /\ \A i : Moves(i)' = Moves(i)
         /\ \A i : Decided(i)' <=> Decided(i)
         /\ \A kind : Teacher(kind)' <=> Teacher(kind)
PROOF
<1>1. Inputs' = Inputs /\ Cases' = Cases /\ constraints' = constraints /\ Gold' = Gold
  BY DEF Inputs, Cases, constraints, Gold
<1>2. \A kind : Teacher(kind)' <=> Teacher(kind)
  BY DEF Teacher
<1>3. \A i : Evaluable(i)' <=> Evaluable(i)
  BY DEF Evaluable
<1>4. \A i, l : Violated(i, l)' = Violated(i, l)
  BY DEF Violated, Breaks, constraints
<1>5. \A c : Satisfies(c)' <=> Satisfies(c)
  BY <1>3, <1>4 DEF Satisfies
<1>6. \A i : Admissible(i)' = Admissible(i)
  BY <1>4 DEF Admissible
<1>7. \A i : Decided(i)' <=> Decided(i)
  BY <1>3, <1>6 DEF Decided
<1>8. \A i : Moves(i)' = Moves(i)
  BY <1>6, <1>7 DEF Moves, EditsOfCase
<1>9. \A i : LabelsOf(i)' = LabelsOf(i)
  BY <1>2, <1>6, <1>7 DEF LabelsOf
<1>10. \A i : Spelling(i)' = Spelling(i)
  BY <1>2 DEF Spelling, KeepsSpelling, constraints
<1>11. \A c : Answer(c)' <=> Answer(c)
  BY <1>9 DEF Answer
<1>12. \A c : Synthesized(c)' <=> Synthesized(c)
  BY <1>2, <1>8, <1>9, <1>10 DEF Synthesized, Twinned
<1> QED  BY <1>1, <1>2, <1>5, <1>7, <1>8, <1>10, <1>11, <1>12

\* The base dataset is sound as long as it stays.
LEMMA BaseDataKept == ASSUME UNCHANGED <<function, compiled, base>>, BaseData PROVE BaseData'
PROOF
<1>1. /\ Cases' = Cases /\ constraints' = constraints /\ Gold' = Gold
      /\ \A c : Satisfies(c)' <=> Satisfies(c)
      /\ \A c : Synthesized(c)' <=> Synthesized(c)
  BY RulesKept
<1>2. \A n \in DOMAIN base' : BaseSound(n)'
  BY <1>1 DEF BaseSound, BaseData
<1> QED  BY <1>1, <1>2 DEF BaseData

\* What is said of base cases, while they stay.
LEMMA CasesKept ==
  ASSUME UNCHANGED <<function, compiled, base>>
  PROVE  /\ Synthetic' = Synthetic
         /\ \A c : Known(c)' = Known(c)
         /\ \A c : AdversarialCaseLoads(c)' <=> AdversarialCaseLoads(c)
         /\ \A c : Answered(c)' <=> Answered(c)
PROOF
<1>1. /\ Inputs' = Inputs
      /\ \A c : Satisfies(c)' <=> Satisfies(c)
      /\ \A c : Answer(c)' <=> Answer(c)
      /\ \A i : Spelling(i)' = Spelling(i)
  BY RulesKept
<1>2. Synthetic' = Synthetic
  BY DEF Synthetic
<1>3. \A c : Known(c)' = Known(c)
  BY DEF Known, SameBytes
<1>4. \A c : AdversarialCaseLoads(c)' <=> AdversarialCaseLoads(c)
  BY <1>1 DEF AdversarialCaseLoads
<1>5. \A c : Answered(c)' <=> Answered(c)
  BY <1>1, <1>3 DEF Answered
<1> QED  BY <1>2, <1>3, <1>4, <1>5

\* All of it is sound as long as it stays.
LEMMA SoundKept == ASSUME UNCHANGED data, Sound PROVE Sound'
PROOF
<1>1. /\ UNCHANGED <<function, compiled, base>>
      /\ UNCHANGED <<function, compiled>>
      /\ base' = base /\ boundary' = boundary /\ pairs' = pairs /\ skipped' = skipped
      /\ compiled' = compiled
  BY DEF data
<1>2. /\ Cases' = Cases /\ constraints' = constraints
      /\ \A i : Moves(i)' = Moves(i)
      /\ \A kind : Teacher(kind)' <=> Teacher(kind)
  BY <1>1, RulesKept
<1>3. /\ Synthetic' = Synthetic
      /\ \A c : AdversarialCaseLoads(c)' <=> AdversarialCaseLoads(c)
      /\ \A c : Answered(c)' <=> Answered(c)
  BY <1>1, CasesKept
<1>4. Adversarial' = Adversarial
  BY <1>1 DEF Adversarial
<1>5. \A k \in DOMAIN boundary' : BoundaryLoads(k)'
  BY <1>1, <1>3 DEF BoundaryLoads, Sound, AdversarialData, OneChange
<1>6. \A p : Anchor(p)' = Anchor(p)
  BY <1>1 DEF Anchor
<1>7. \A p \in DOMAIN pairs' : PairLoads(p)'
  BY <1>1, <1>3, <1>6 DEF PairLoads, Sound, AdversarialData, OneChange
<1>8. Skips'
  BY <1>1, <1>2 DEF Skips, Sound, AdversarialData
<1>9. AdversarialData'
  BY <1>1, <1>2, <1>3, <1>4, <1>5, <1>7, <1>8 DEF AdversarialData, Sound, SameBytes
<1> QED  BY <1>1, <1>9, BaseDataKept DEF Sound

\* There is nothing to be said of adversarial data before there is any.
LEMMA NoneYet ==
  ASSUME boundary' = <<>>, pairs' = <<>>, skipped' = {}, (function \in Declarations)'
  PROVE  AdversarialData'
PROOF
<1>1. Adversarial' = {}
  BY DEF Adversarial
<1>2. Skips'
  BY DEF Skips
<1>3. 0 <= Len(constraints')
  BY TrainingDataAssumption DEF constraints
<1> QED  BY <1>1, <1>2, <1>3 DEF AdversarialData

\* The examples are cases, and no more than the base dataset has.
LEMMA Examples ==
  ASSUME function \in Declarations
  PROVE  /\ Gold \in Seq(Cases) /\ Len(Gold) \in Nat /\ DOMAIN Gold = 1..Len(Gold)
         /\ Len(Gold) <= Total
         /\ \A n \in DOMAIN Gold : Gold[n].origin = "gold" /\ Gold[n].spelling = "integer"
         /\ \A n, m \in DOMAIN Gold :
              Gold[n].inputs = Gold[m].inputs => Gold[n].output = Gold[m].output
PROOF
<1> DEFINE examples == function.examples
<1>1. /\ examples \in Seq([inputs : Inputs, output : Labels]) /\ Len(examples) <= Total
      /\ \A n, m \in DOMAIN examples :
           examples[n].inputs = examples[m].inputs => examples[n].output = examples[m].output
  BY TrainingDataAssumption DEF Inputs
<1>2. Gold = [n \in DOMAIN examples |->
                [inputs |-> examples[n].inputs, output |-> examples[n].output,
                 spelling |-> "integer", origin |-> "gold"]]
  BY DEF Gold
<1> HIDE DEF examples
<1>3. /\ Len(examples) \in Nat /\ DOMAIN examples = 1..Len(examples)
      /\ \A n \in DOMAIN examples : examples[n].inputs \in Inputs /\ examples[n].output \in Labels
  <2>1. Len(examples) \in Nat /\ DOMAIN examples = 1..Len(examples)
    BY <1>1, LenProperties
  <2>2. \A n \in 1..Len(examples) : examples[n] \in [inputs : Inputs, output : Labels]
    BY <1>1, ElementOfSeq
  <2> QED  BY <2>1, <2>2
<1>4. \A n \in DOMAIN examples : Gold[n] \in Cases
  BY <1>2, <1>3 DEF Cases
<1>5. Gold \in Seq(Cases) /\ Len(Gold) = Len(examples) /\ DOMAIN Gold = DOMAIN examples
  BY <1>2, <1>3, <1>4
<1> QED  BY <1>1, <1>2, <1>3, <1>5
\* Before the base dataset: nothing is there.
LEMMA CompileKeeps == ASSUME DataInv, Compile PROVE DataInv'
PROOF
<1>1. /\ phase = "compile" /\ phase' = "compiled"
      /\ function' = function /\ base' = base /\ boundary' = boundary /\ pairs' = pairs
      /\ skipped' = skipped /\ evaluation' = evaluation
      /\ DOMAIN compiled' = DOMAIN constraints
  BY DEF Compile
<1>2. base = <<>> /\ boundary = <<>> /\ pairs = <<>> /\ skipped = {} /\ evaluation = {}
  BY <1>1 DEF DataInv, Shape
<1>3. function \in Declarations
  BY DEF DataInv, Sound, BaseData
<1>4. AdversarialData'
  BY <1>1, <1>2, <1>3, NoneYet
<1>5. BaseData'
  <2>1. constraints' = constraints
    BY <1>1 DEF constraints
  <2>2. Len(<<>>) <= Total /\ <<>> \in Seq(Cases')
    BY TrainingDataAssumption
  <2> QED  BY <1>1, <1>2, <1>3, <2>1, <2>2 DEF BaseData
<1>6. Shape'
  BY <1>1, <1>2 DEF Shape
<1> QED  BY <1>4, <1>5, <1>6 DEF DataInv, Sound

\* The base dataset begins with the examples, which satisfy the constraints.
LEMMA BeginKeeps == ASSUME DataInv, Begin PROVE DataInv'
PROOF
<1>1. /\ phase = "compiled" /\ function \in Followed
      /\ UNCHANGED <<function, compiled>> /\ function' = function /\ compiled' = compiled
      /\ boundary' = boundary /\ pairs' = pairs /\ skipped' = skipped /\ evaluation' = evaluation
  BY DEF Begin
<1>2. base = <<>> /\ boundary = <<>> /\ pairs = <<>> /\ skipped = {} /\ evaluation = {}
  BY <1>1 DEF DataInv, Shape
<1>3. function \in Declarations
  BY DEF DataInv, Sound, BaseData
<1>4. CASE base' = base /\ phase' = "failed"
  <2>1. UNCHANGED data
    BY <1>1, <1>4 DEF data
  <2>2. Sound'
    BY <2>1, SoundKept DEF DataInv
  <2> QED  BY <1>1, <1>2, <1>4, <2>2 DEF DataInv, Shape
<1>5. CASE base' = Gold /\ phase' = "base" /\ \A n \in DOMAIN Gold : Satisfies(Gold[n])
  <2>1. AdversarialData'
    BY <1>1, <1>2, <1>3, NoneYet
  <2>2. /\ Gold' = Gold /\ Cases' = Cases /\ constraints' = constraints
        /\ \A c : Satisfies(c)' <=> Satisfies(c)
    BY <1>1, RulesKept
  <2>3. Gold \in Seq(Cases) /\ Len(Gold) \in Nat /\ DOMAIN Gold = 1..Len(Gold) /\ Len(Gold) <= Total
    BY <1>3, Examples
  <2>4. \A n \in DOMAIN base' : BaseSound(n)'
    BY <1>5, <2>2, <2>3 DEF BaseSound
  <2>5. BaseData'
    BY <1>1, <1>3, <1>5, <2>2, <2>3, <2>4 DEF BaseData, DataInv, Sound
  <2>6. Shape'
    BY <1>1, <1>2, <1>5, <2>2, <2>3 DEF Shape
  <2> QED  BY <2>1, <2>5, <2>6 DEF DataInv, Sound
<1> QED  BY <1>4, <1>5 DEF Begin

\* A case drawn satisfies the constraints, and is labelled as its teacher may.
LEMMA DrawKeeps ==
  ASSUME DataInv, NEW i \in Inputs, NEW l \in Labels, Draw(i, l) PROVE DataInv'
PROOF
<1> DEFINE c == Case(i, l, "synthetic")
<1>1. /\ phase = "base" /\ phase' = phase /\ Len(base) < Total
      /\ l \in LabelsOf(i) /\ Satisfies([inputs |-> i, output |-> l])
      /\ Teacher("constraints") => Twinned(i)
      /\ base' = Append(base, c)
      /\ UNCHANGED <<function, compiled>> /\ function' = function /\ compiled' = compiled
      /\ boundary' = boundary /\ pairs' = pairs /\ skipped' = skipped /\ evaluation' = evaluation
  BY DEF Draw
<1>2. boundary = <<>> /\ pairs = <<>> /\ skipped = {} /\ evaluation = {}
  BY <1>1 DEF DataInv, Shape
<1>3. function \in Declarations /\ function \in Followed /\ Len(Gold) <= Len(base)
  BY <1>1 DEF DataInv, Sound, BaseData, Shape
<1>4. AdversarialData'
  BY <1>1, <1>2, <1>3, NoneYet
<1>5. /\ c.inputs = i /\ c.output = l /\ c.spelling = Spelling(i) /\ c.origin = "synthetic"
      /\ c \in Cases
  BY DEF Case, Cases, Spelling
<1>6. Satisfies(c)
  BY <1>1, <1>5 DEF Satisfies
<1>7. Synthesized(c)
  BY <1>1, <1>5 DEF Synthesized
<1>8. /\ Gold' = Gold /\ Cases' = Cases /\ constraints' = constraints
      /\ \A d : Satisfies(d)' <=> Satisfies(d)
      /\ \A d : Synthesized(d)' <=> Synthesized(d)
  BY <1>1, RulesKept
<1>9. /\ base \in Seq(Cases) /\ Len(base) \in Nat /\ DOMAIN base = 1..Len(base)
      /\ Len(Gold) \in Nat
  BY <1>3, Examples, LenProperties DEF DataInv, Sound, BaseData
<1> HIDE DEF c
<1>10. /\ base' \in Seq(Cases) /\ Len(base') = Len(base) + 1 /\ DOMAIN base' = 1..(Len(base) + 1)
       /\ \A n \in 1..Len(base) : base'[n] = base[n]
       /\ base'[Len(base) + 1] = c
  BY <1>1, <1>5, <1>9, AppendProperties, LenProperties
<1>11. ASSUME NEW n \in DOMAIN base' PROVE BaseSound(n)'
  <2>1. CASE n \in 1..Len(base)
    <3>1. BaseSound(n)
      BY <2>1, <1>9 DEF DataInv, Sound, BaseData
    <3> QED  BY <2>1, <3>1, <1>8, <1>10 DEF BaseSound
  <2>2. CASE n = Len(base) + 1
    BY <2>2, <1>3, <1>6, <1>7, <1>8, <1>9, <1>10 DEF BaseSound
  <2> QED  BY <2>1, <2>2, <1>9, <1>10
<1>12. BaseData'
  BY <1>1, <1>3, <1>8, <1>9, <1>10, <1>11, TrainingDataAssumption DEF BaseData, DataInv, Sound
<1>13. Shape'
  BY <1>1, <1>2, <1>3, <1>8, <1>9, <1>10 DEF Shape
<1> QED  BY <1>4, <1>12, <1>13 DEF DataInv, Sound
\* A dataset that was drawn is read back.
LEMMA BaseIsRead == ASSUME DataInv, phase = "base", Len(base) = Total PROVE BaseLoads
PROOF
<1>1. /\ function \in Declarations /\ Len(Gold) <= Len(base)
      /\ base \in Seq(Cases) /\ \A n \in DOMAIN base : BaseSound(n)
  BY DEF DataInv, Sound, BaseData, Shape
<1>2. /\ Gold \in Seq(Cases) /\ Len(Gold) \in Nat /\ DOMAIN Gold = 1..Len(Gold)
      /\ \A n \in DOMAIN Gold : Gold[n].origin = "gold"
  BY <1>1, Examples
<1>3. Len(base) \in Nat /\ DOMAIN base = 1..Len(base) /\ \A n \in DOMAIN base : base[n] \in Cases
  BY <1>1, LenProperties, ElementOfSeq
<1>4. SubSeq(base, 1, Len(Gold)) = Gold
  <2> DEFINE front == SubSeq(base, 1, Len(Gold))
  <2>1. \A n \in 1..Len(Gold) : base[n] \in Cases /\ base[n] = Gold[n]
    BY <1>1, <1>2, <1>3 DEF BaseSound
  <2>2. /\ front \in Seq(Cases)
        /\ Len(front) = IF 1 <= Len(Gold) THEN Len(Gold) - 1 + 1 ELSE 0
        /\ \A n \in 1..(Len(Gold) - 1 + 1) : front[n] = base[1 + n - 1]
    BY <2>1, <1>2, SubSeqProperties
  <2> HIDE DEF front
  <2>3. Len(front) = Len(Gold) /\ \A n \in 1..Len(front) : front[n] = Gold[n]
    BY <2>1, <2>2, <1>2
  <2>4. front = Gold
    BY <2>2, <2>3, <1>2, SeqEqual
  <2> QED  BY <2>4 DEF front
<1>5. ASSUME NEW n \in DOMAIN base PROVE CaseLoads(n)
  <2>1. Satisfies(base[n]) /\ base[n].inputs \in Inputs /\ base[n].output \in Labels
    BY <1>1, <1>3 DEF BaseSound, Cases
  <2>2. n <= Len(Gold) => base[n].origin = "gold"
    BY <1>1, <1>2, <1>3 DEF BaseSound
  <2>3. n > Len(Gold) => base[n].origin = "synthetic"
    BY <1>1 DEF BaseSound, Synthesized
  <2> QED  BY <2>1, <2>2, <2>3, <1>2, <1>3 DEF CaseLoads
<1> QED  BY <1>4, <1>5 DEF BaseLoads

\* A decided input has one admissible label.
LEMMA DecidedLabel == ASSUME NEW i, Decided(i) PROVE \E l : Admissible(i) = {l}
PROOF
<1>1. IsFiniteSet(Admissible(i))
  BY TrainingDataAssumption, FS_Subset DEF Admissible
<1> QED  BY <1>1, FS_Singleton DEF Decided

\* A label that breaks no constraint is the one of a decided input.
LEMMA SatisfyingLabel ==
  ASSUME NEW c, Satisfies(c), c.output \in Labels, Decided(c.inputs)
  PROVE  Admissible(c.inputs) = {c.output}
PROOF
<1>1. c.output \in Admissible(c.inputs)
  BY DEF Satisfies, Admissible
<1> QED  BY <1>1, DecidedLabel

\* The cases of the same bytes are numbered, and have a last one.
LEMMA LastKnown ==
  ASSUME BaseData, NEW c, Known(c) # {}
  PROVE  Max(Known(c)) \in Known(c) /\ \A n \in Known(c) : n <= Max(Known(c))
PROOF
<1>1. Len(base) \in Nat /\ DOMAIN base = 1..Len(base)
  BY LenProperties DEF BaseData
<1>2. Known(c) \in SUBSET Nat /\ \A n \in Known(c) : n <= Len(base)
  BY <1>1 DEF Known
<1> QED  BY <1>1, <1>2, Greatest

\* A case that meets no conflict agrees with the base dataset and with every adversarial case.
LEMMA NewCase ==
  ASSUME Sound, NEW c, Answer(c), Satisfies(c), c.spelling = Spelling(c.inputs), ~Conflicts(c)
  PROVE  Answered(c) /\ \A d \in Adversarial : SameBytes(c, d) => c.output = d.output
PROOF
<1>1. BaseData /\ \A d \in Adversarial : Answered(d)
  BY DEF Sound, AdversarialData
<1>2. ASSUME NEW n \in Known(c), \A m \in Known(c) : m <= n PROVE base[n].output = c.output
  <2>1. Max(Known(c)) \in Known(c) /\ n <= Max(Known(c)) /\ Max(Known(c)) <= n
    BY <1>1, <1>2, LastKnown
  <2>2. Known(c) \subseteq Nat
    BY <1>1, LenProperties DEF Known, BaseData
  <2>3. n = Max(Known(c))
    BY <1>2, <2>1, <2>2
  <2> QED  BY <2>3 DEF Conflicts
<1>3. ASSUME NEW d \in Adversarial, SameBytes(c, d) PROVE c.output = d.output
  <2>1. CASE Known(c) = {}
    BY <2>1, <1>3 DEF Conflicts
  <2>2. CASE Known(c) # {}
    <3>1. Known(d) = Known(c)
      BY <1>3 DEF Known, SameBytes
    <3>2. Max(Known(c)) \in Known(c) /\ \A n \in Known(c) : n <= Max(Known(c))
      BY <1>1, <2>2, LastKnown
    <3>3. base[Max(Known(c))].output = c.output
      BY <2>2 DEF Conflicts
    <3>4. base[Max(Known(c))].output = d.output
      BY <1>1, <3>1, <3>2 DEF Answered
    <3> QED  BY <3>3, <3>4
  <2> QED  BY <2>1, <2>2
<1> QED  BY <1>2, <1>3 DEF Answered
\* What a teacher may propose is a case, spelled as the teacher spells inputs.
LEMMA Proposed ==
  ASSUME NEW i \in Inputs, NEW l \in Labels,
         NEW origin \in {"synthetic", "constraint-boundary", "counterfactual"}
  PROVE  LET c == Case(i, l, origin)
         IN  /\ c \in Cases /\ c.inputs = i /\ c.output = l /\ c.origin = origin
             /\ c.spelling = Spelling(c.inputs)
PROOF
<1>1. Spelling(i) \in {"float", "integer"}
  BY DEF Spelling
<1> QED  BY <1>1 DEF Case, Cases

\* The sides of a boundary come to different truth values, and each agrees with what is there.
LEMMA AddBoundaryKeeps ==
  ASSUME DataInv, NEW no \in Proposals, NEW yes \in Proposals, AddBoundary(no, yes)
  PROVE  DataInv'
PROOF
<1> DEFINE k == Len(boundary) + 1
           side == [false |-> no, true |-> yes]
<1>1. /\ phase = "boundary" /\ phase' = phase /\ Len(boundary) < Len(constraints)
      /\ Answer(no) /\ Answer(yes) /\ Bounds(no, yes)
      /\ boundary' = Append(boundary, side)
      /\ UNCHANGED <<function, compiled, base>> /\ UNCHANGED <<function, compiled>>
      /\ function' = function /\ compiled' = compiled /\ base' = base
      /\ pairs' = pairs /\ skipped' = skipped /\ evaluation' = evaluation
  BY DEF AddBoundary
<1>2. /\ Sound /\ BaseData /\ AdversarialData /\ function \in Declarations
      /\ pairs = <<>> /\ skipped = {} /\ evaluation = {}
      /\ Len(Gold) <= Len(base) /\ function \in Followed
  BY <1>1 DEF DataInv, Sound, BaseData, Shape
<1>3. ASSUME NEW c \in {no, yes}
      PROVE  /\ c \in Cases /\ c.spelling = Spelling(c.inputs) /\ c.origin = "constraint-boundary"
             /\ c.inputs \in Inputs /\ c.output \in Labels
             /\ Answer(c) /\ Satisfies(c) /\ ~Conflicts(c)
  <2>1. PICK i \in Inputs, l \in Labels : c = Case(i, l, "constraint-boundary")
    BY <1>3 DEF Proposals
  <2>2. /\ c \in Cases /\ c.spelling = Spelling(c.inputs) /\ c.origin = "constraint-boundary"
        /\ c.inputs = i /\ c.output = l
    BY <2>1, Proposed
  <2> QED  BY <1>1, <1>3, <2>2 DEF Bounds
<1>4. /\ compiled[k][no.inputs] = "false" /\ compiled[k][yes.inputs] = "true"
      /\ OneChange(no.inputs, yes.inputs)
  BY <1>1 DEF Bounds
<1>5. /\ Answered(no) /\ Answered(yes)
      /\ \A d \in Adversarial : (SameBytes(no, d) => no.output = d.output)
      /\ \A d \in Adversarial : (SameBytes(yes, d) => yes.output = d.output)
  BY <1>2, <1>3, NewCase
<1>6. ~SameBytes(no, yes) /\ ~SameBytes(yes, no)
  BY <1>4 DEF SameBytes
<1>7. /\ boundary \in Seq([false : Cases, true : Cases])
      /\ Len(boundary) \in Nat /\ DOMAIN boundary = 1..Len(boundary)
  BY <1>2, LenProperties DEF AdversarialData
<1>8. side \in [false : Cases, true : Cases] /\ side.false = no /\ side.true = yes
  BY <1>3
<1> HIDE DEF side
<1>9. /\ boundary' \in Seq([false : Cases, true : Cases])
      /\ Len(boundary') = k /\ DOMAIN boundary' = 1..k
      /\ \A j \in 1..Len(boundary) : boundary'[j] = boundary[j]
      /\ boundary'[k] = side
  BY <1>1, <1>7, <1>8, AppendProperties, LenProperties
<1>10. /\ Synthetic' = Synthetic
       /\ \A c : AdversarialCaseLoads(c)' <=> AdversarialCaseLoads(c)
       /\ \A c : Answered(c)' <=> Answered(c)
  BY <1>1, CasesKept
<1>11. Cases' = Cases /\ constraints' = constraints /\ Gold' = Gold
  BY <1>1, RulesKept
<1>12. ASSUME NEW j \in DOMAIN boundary' PROVE BoundaryLoads(j)'
  <2>1. CASE j \in 1..Len(boundary)
    <3>1. BoundaryLoads(j)
      BY <1>2, <1>7, <2>1 DEF AdversarialData
    <3> QED  BY <2>1, <3>1, <1>1, <1>9, <1>10 DEF BoundaryLoads, OneChange
  <2>2. CASE j = k
    <3>1. AdversarialCaseLoads(no) /\ AdversarialCaseLoads(yes)
      BY <1>3 DEF AdversarialCaseLoads
    <3> QED  BY <2>2, <3>1, <1>1, <1>4, <1>8, <1>9, <1>10 DEF BoundaryLoads, OneChange
  <2> QED  BY <2>1, <2>2, <1>7, <1>9
<1>13. Adversarial' \subseteq Adversarial \cup {no, yes}
  BY <1>1, <1>7, <1>8, <1>9 DEF Adversarial
<1>14. \A c \in Adversarial' : Answered(c)'
  BY <1>2, <1>5, <1>10, <1>13 DEF AdversarialData
<1>15. \A c, d \in Adversarial' : SameBytes(c, d) => c.output = d.output
  <2>1. \A c, d \in Adversarial : SameBytes(c, d) => c.output = d.output
    BY <1>2 DEF AdversarialData
  <2>2. \A c, d : SameBytes(c, d) => SameBytes(d, c)
    BY DEF SameBytes
  <2> QED  BY <2>1, <2>2, <1>5, <1>6, <1>13
<1>16. Skips'
  BY <1>1, <1>2 DEF Skips
<1>17. AdversarialData'
  BY <1>1, <1>2, <1>7, <1>9, <1>10, <1>11, <1>12, <1>14, <1>15, <1>16
    DEF AdversarialData, SameBytes
<1>18. Shape'
  BY <1>1, <1>2, <1>11 DEF Shape
<1> QED  BY <1>1, <1>2, <1>17, <1>18, BaseDataKept DEF DataInv, Sound

\* A number of pairs.
LEMMA WantedIsNumber == ASSUME BaseData PROVE Wanted \in Nat
PROOF
<1>1. Len(base) \in Nat /\ DOMAIN base = 1..Len(base)
  BY LenProperties DEF BaseData
<1>2. IsFiniteSet(Synthetic)
  <2>1. IsFiniteSet(1..Len(base))
    BY <1>1, FS_Interval
  <2>2. Synthetic \in SUBSET (1..Len(base))
    BY <1>1 DEF Synthetic
  <2> QED  BY <2>1, <2>2, FS_Subset
<1>3. Cardinality(Synthetic) \in Nat
  BY <1>2, FS_CardinalityType
<1> DEFINE share == (2 * Cardinality(Synthetic) * PairRatio + 100) \div 200
<1>4. share \in Nat
  BY <1>3, TrainingDataAssumption, ShareIsNumber
<1>5. Wanted = Min({Cardinality(Synthetic), share})
  BY DEF Wanted, RatioCount
<1> HIDE DEF share
<1> QED  BY <1>3, <1>4, <1>5, OneOfTwo
\* A synthetic case is one that was drawn.
LEMMA SyntheticCase ==
  ASSUME BaseData, NEW n \in Synthetic
  PROVE  /\ n \in DOMAIN base /\ base[n] \in Cases /\ Satisfies(base[n])
         /\ Synthesized(base[n])
PROOF
<1>1. n \in DOMAIN base /\ base[n].origin = "synthetic"
  BY DEF Synthetic
<1>2. /\ Len(base) \in Nat /\ DOMAIN base = 1..Len(base) /\ base[n] \in Cases
      /\ function \in Declarations
  BY <1>1, LenProperties, ElementOfSeq DEF BaseData
<1>3. /\ Len(Gold) \in Nat /\ DOMAIN Gold = 1..Len(Gold)
      /\ \A m \in DOMAIN Gold : Gold[m].origin = "gold"
  BY <1>2, Examples
<1>4. n > Len(Gold)
  BY <1>1, <1>2, <1>3 DEF BaseSound, BaseData
<1> QED  BY <1>1, <1>2, <1>4 DEF BaseSound, BaseData

\* A twin differs from its source in its label and in one path.
LEMMA AddPairKeeps ==
  ASSUME DataInv, NEW n, NEW c, AddPair(n, c) PROVE DataInv'
PROOF
<1> DEFINE pair == [source |-> n, twin |-> c]
           N == Len(pairs)
<1>1. /\ phase = "pairs" /\ phase' = phase /\ Len(pairs) < Wanted
      /\ n \in Candidates /\ c \in Twins(n)
      /\ pairs' = Append(pairs, pair)
      /\ UNCHANGED <<function, compiled, base>> /\ UNCHANGED <<function, compiled>>
      /\ function' = function /\ compiled' = compiled /\ base' = base
      /\ boundary' = boundary /\ skipped' = skipped /\ evaluation' = evaluation
  BY DEF AddPair
<1>2. /\ Sound /\ BaseData /\ AdversarialData /\ function \in Declarations
      /\ Len(boundary) = Len(constraints) /\ evaluation = {}
      /\ Len(Gold) <= Len(base) /\ function \in Followed
  BY <1>1 DEF DataInv, Sound, BaseData, Shape
<1>3. n \in Synthetic /\ n \notin Sources
  BY <1>1 DEF Candidates
<1>4. n \in DOMAIN base /\ base[n] \in Cases /\ Satisfies(base[n])
  BY <1>2, <1>3, SyntheticCase
<1>5. Answer(c) /\ Satisfies(c) /\ c.output # base[n].output /\ ~Conflicts(c)
      /\ OneChange(base[n].inputs, c.inputs)
  BY <1>1 DEF Twins, IsTwin
<1>6. /\ c \in Cases /\ c.spelling = Spelling(c.inputs) /\ c.origin = "counterfactual"
      /\ c.inputs \in Inputs /\ c.output \in Labels
  <2>1. PICK i \in (IF Teacher("constraints") THEN Moves(base[n].inputs) ELSE Inputs),
             l \in Labels : c = Case(i, l, "counterfactual")
    BY <1>1 DEF Twins, Tries
  <2>2. Moves(base[n].inputs) \subseteq Inputs
    <3>1. base[n].inputs \in Inputs
      BY <1>4 DEF Cases
    <3> QED  BY <3>1, <1>2, InputAssumption DEF Moves, EditsOfCase, Inputs
  <2>3. i \in Inputs
    BY <2>1, <2>2
  <2>4. /\ c \in Cases /\ c.spelling = Spelling(c.inputs) /\ c.origin = "counterfactual"
        /\ c.inputs = i /\ c.output = l
    BY <2>1, <2>3, Proposed
  <2> QED  BY <2>3, <2>4
<1>7. Answered(c) /\ \A d \in Adversarial : (SameBytes(c, d) => c.output = d.output)
  BY <1>2, <1>5, <1>6, NewCase
<1>8. /\ pairs \in Seq([source : Synthetic, twin : Cases])
      /\ N \in Nat /\ DOMAIN pairs = 1..N
  BY <1>2, LenProperties DEF AdversarialData
<1>9. pair \in [source : Synthetic, twin : Cases] /\ pair.source = n /\ pair.twin = c
  BY <1>3, <1>6
<1> HIDE DEF pair
<1>10. /\ pairs' \in Seq([source : Synthetic, twin : Cases])
       /\ Len(pairs') = N + 1 /\ DOMAIN pairs' = 1..(N + 1)
       /\ \A p \in 1..N : pairs'[p] = pairs[p]
       /\ pairs'[N + 1] = pair
  BY <1>1, <1>8, <1>9, AppendProperties, LenProperties
<1>11. /\ Synthetic' = Synthetic
       /\ \A d : AdversarialCaseLoads(d)' <=> AdversarialCaseLoads(d)
       /\ \A d : Answered(d)' <=> Answered(d)
  BY <1>1, CasesKept
<1>12. /\ Cases' = Cases /\ constraints' = constraints /\ Gold' = Gold
       /\ \A i : Moves(i)' = Moves(i)
       /\ \A kind : Teacher(kind)' <=> Teacher(kind)
  BY <1>1, RulesKept
<1>13. \A k \in DOMAIN boundary' : BoundaryLoads(k)'
  BY <1>1, <1>2, <1>11 DEF BoundaryLoads, AdversarialData, OneChange
<1>14. ASSUME NEW p \in DOMAIN pairs' PROVE PairLoads(p)'
  <2>1. CASE p \in 1..N
    <3>1. PairLoads(p)
      BY <1>2, <1>8, <2>1 DEF AdversarialData
    <3>2. Anchor(p)' = Anchor(p)
      BY <1>1, <1>10, <2>1 DEF Anchor
    <3> QED  BY <2>1, <3>1, <3>2, <1>10, <1>11 DEF PairLoads, OneChange
  <2>2. CASE p = N + 1
    <3> DEFINE a == [base[n] EXCEPT !.origin = "counterfactual"]
    <3>1. /\ a.origin = "counterfactual" /\ a.inputs = base[n].inputs /\ a.output = base[n].output
          /\ a.inputs \in Inputs /\ a.output \in Labels
      BY <1>4 DEF Cases
    <3>2. Anchor(p)' = a
      BY <1>1, <1>9, <1>10, <2>2 DEF Anchor
    <3> HIDE DEF a
    <3>3. Satisfies(a)
      BY <3>1, <1>4 DEF Satisfies
    <3>4. AdversarialCaseLoads(a) /\ AdversarialCaseLoads(c)
      BY <3>1, <3>3, <1>5, <1>6 DEF AdversarialCaseLoads
    <3> QED
      BY <2>2, <3>1, <3>2, <3>4, <1>3, <1>5, <1>9, <1>10, <1>11 DEF PairLoads, OneChange
  <2> QED  BY <2>1, <2>2, <1>8, <1>10
<1>15. \A p, q \in DOMAIN pairs' : pairs'[p].source = pairs'[q].source => p = q
  <2>1. \A p \in 1..N : pairs[p].source # n
    BY <1>3, <1>8 DEF Sources
  <2>2. \A p, q \in 1..N : pairs[p].source = pairs[q].source => p = q
    BY <1>2, <1>8 DEF AdversarialData
  <2> QED  BY <2>1, <2>2, <1>8, <1>9, <1>10
<1>16. Adversarial' \subseteq Adversarial \cup {c}
  <2>1. \A p \in DOMAIN pairs' : pairs'[p].twin \in {pairs[q].twin : q \in DOMAIN pairs} \cup {c}
    BY <1>8, <1>9, <1>10
  <2> QED  BY <2>1, <1>1 DEF Adversarial
<1>17. \A d \in Adversarial' : Answered(d)'
  BY <1>2, <1>7, <1>11, <1>16 DEF AdversarialData
<1>18. \A d, e \in Adversarial' : SameBytes(d, e) => d.output = e.output
  <2>1. \A d, e \in Adversarial : SameBytes(d, e) => d.output = e.output
    BY <1>2 DEF AdversarialData
  <2>2. \A d, e : SameBytes(d, e) => SameBytes(e, d)
    BY DEF SameBytes
  <2> QED  BY <2>1, <2>2, <1>7, <1>16
<1>19. Skips'
  BY <1>1, <1>2, <1>12 DEF Skips, AdversarialData
<1>20. AdversarialData'
  BY <1>1, <1>2, <1>10, <1>11, <1>12, <1>13, <1>14, <1>15, <1>17, <1>18, <1>19
    DEF AdversarialData, SameBytes
<1>21. Len(pairs') <= Wanted'
  <2>1. Wanted' = Wanted /\ Wanted \in Nat
    BY <1>2, <1>11, WantedIsNumber DEF Wanted
  <2> QED  BY <2>1, <1>1, <1>8, <1>10
<1>22. Shape'
  BY <1>1, <1>2, <1>12, <1>21 DEF Shape
<1> QED  BY <1>1, <1>2, <1>20, <1>22, BaseDataKept DEF DataInv, Sound
\* The constraints teacher's cases have the one label the constraints admit.
LEMMA TaughtLabel ==
  ASSUME BaseData, Teacher("constraints"), NEW n \in Synthetic
  PROVE  Admissible(base[n].inputs) = {base[n].output} /\ Moves(base[n].inputs) # {}
PROOF
<1>1. base[n] \in Cases /\ Satisfies(base[n]) /\ Synthesized(base[n])
  BY SyntheticCase
<1>2. ~Teacher("model") /\ ~Teacher("mixed")
  BY DEF Teacher
<1>3. Decided(base[n].inputs)
  BY <1>1, <1>2 DEF Synthesized, LabelsOf
<1>4. Admissible(base[n].inputs) = {base[n].output}
  BY <1>1, <1>3, SatisfyingLabel DEF Cases
<1> QED  BY <1>1, <1>4 DEF Synthesized, Twinned

\* An adversarial case of the constraints teacher has the one label the constraints admit.
LEMMA TaughtAnswer ==
  ASSUME Teacher("constraints"), NEW c, Answer(c), Satisfies(c), c.output \in Labels
  PROVE  Decided(c.inputs) /\ Admissible(c.inputs) = {c.output}
PROOF
<1>1. ~Teacher("model") /\ ~Teacher("mixed")
  BY DEF Teacher
<1>2. Decided(c.inputs)
  BY <1>1 DEF Answer, LabelsOf
<1> QED  BY <1>2, SatisfyingLabel

\* A label of the constraints teacher never conflicts: every case of these bytes has it.
LEMMA NoConflict ==
  ASSUME Sound, Teacher("constraints"), NEW c, Satisfies(c), c.output \in Labels, Answer(c)
  PROVE  ~Conflicts(c)
PROOF
<1>1. Decided(c.inputs) /\ Admissible(c.inputs) = {c.output}
  BY TaughtAnswer
<1>2. BaseData /\ AdversarialData
  BY DEF Sound
<1>3. ASSUME NEW n \in Known(c) PROVE base[n].output = c.output
  <2>1. n \in DOMAIN base /\ base[n].inputs = c.inputs
    BY DEF Known, SameBytes
  <2>2. Satisfies(base[n]) /\ base[n].output \in Labels
    <3>1. base[n] \in Cases
      BY <1>2, <2>1, ElementOfSeq, LenProperties DEF BaseData
    <3> QED  BY <1>2, <2>1, <3>1 DEF BaseData, BaseSound, Cases
  <2> QED  BY <1>1, <2>1, <2>2, SatisfyingLabel
<1>4. ASSUME NEW d \in Adversarial, SameBytes(c, d) PROVE d.output = c.output
  <2>1. Satisfies(d) /\ Answer(d)
    BY <1>2 DEF AdversarialData, Answered
  <2>2. d.output \in Labels
    <3>1. (\E k \in DOMAIN boundary : d \in {boundary[k].false, boundary[k].true})
          \/ \E p \in DOMAIN pairs : d = pairs[p].twin
      BY DEF Adversarial
    <3>2. \A k \in DOMAIN boundary : boundary[k].false.output \in Labels
                                       /\ boundary[k].true.output \in Labels
      BY <1>2 DEF AdversarialData, BoundaryLoads, AdversarialCaseLoads
    <3>3. \A p \in DOMAIN pairs : pairs[p].twin.output \in Labels
      BY <1>2 DEF AdversarialData, PairLoads, AdversarialCaseLoads
    <3> QED  BY <3>1, <3>2, <3>3
  <2>3. Admissible(d.inputs) = {d.output}
    BY <2>1, <2>2, TaughtAnswer
  <2> QED  BY <2>3, <1>1, <1>4 DEF SameBytes
<1>5. Known(c) # {} => Max(Known(c)) \in Known(c)
  BY <1>2, LastKnown
<1> QED  BY <1>3, <1>4, <1>5 DEF Conflicts

\* An anchor of the constraints teacher is given up only for an edit of several paths.
LEMMA GivenUp ==
  ASSUME Sound, function \in Followed, Teacher("constraints"), NEW n \in Synthetic,
         Twins(n) = {} \/ \E c \in Tries(n) : Answer(c) /\ ~IsTwin(n, c)
  PROVE  \E j \in Moves(base[n].inputs) : ChangedPaths(base[n].inputs, j) > 1
PROOF
<1> DEFINE i == base[n].inputs
<1>1. BaseData
  BY DEF Sound
<1>2. Admissible(i) = {base[n].output} /\ Moves(i) # {} /\ base[n] \in Cases
  BY <1>1, TaughtLabel, SyntheticCase
<1>3. \A j \in Moves(i) : /\ Decided(j) /\ Admissible(j) # Admissible(i)
                           /\ j \in Inputs /\ ChangedPaths(i, j) \in Nat \ {0}
  <2>1. i \in Inputs
    BY <1>2 DEF Cases
  <2> HIDE DEF i
  <2> QED  BY <2>1, InputAssumption DEF Moves, EditsOfCase, Inputs
<1>4. PICK c \in Tries(n) : Answer(c) /\ ~IsTwin(n, c)
  <2>1. CASE Twins(n) = {}
    <3>1. PICK j \in Moves(i) : TRUE
      BY <1>2
    <3>2. PICK l : Admissible(j) = {l}
      BY <1>3, DecidedLabel
    <3>3. l \in Labels
      BY <3>2 DEF Admissible
    <3> DEFINE c == Case(j, l, "counterfactual")
    <3>4. c \in Tries(n)
      BY <3>3 DEF Tries
    <3>5. c.inputs = j /\ c.output = l
      BY DEF Case
    <3>6. ~Teacher("model") /\ ~Teacher("mixed")
      BY DEF Teacher
    <3> HIDE DEF c
    <3>7. Answer(c)
      BY <3>2, <3>5, <3>6, <1>3 DEF Answer, LabelsOf
    <3> QED  BY <2>1, <3>4, <3>7 DEF Twins
  <2> QED  BY <2>1
<1>5. PICK j \in Moves(i), l \in Labels : c = Case(j, l, "counterfactual")
  BY <1>4 DEF Tries
<1>6. c.inputs = j /\ c.output = l
  BY <1>5 DEF Case
<1>7. Satisfies(c)
  <2>1. ~Teacher("model") /\ ~Teacher("mixed")
    BY DEF Teacher
  <2>2. c.output \in Admissible(c.inputs) /\ Decided(c.inputs)
    BY <2>1, <1>3, <1>4, <1>6 DEF Answer, LabelsOf
  <2> QED  BY <2>2 DEF Satisfies, Admissible, Decided
<1>8. Admissible(j) = {l}
  BY <1>4, <1>6, <1>7, TaughtAnswer
<1>9. c.output # base[n].output
  BY <1>2, <1>3, <1>6, <1>8
<1>10. ~Conflicts(c)
  BY <1>4, <1>6, <1>7, NoConflict
<1>11. ~OneChange(i, j)
  BY <1>4, <1>6, <1>7, <1>9, <1>10 DEF IsTwin
<1>12. ChangedPaths(i, j) > 1
  BY <1>3, <1>11 DEF OneChange
<1> QED  BY <1>12
\* An anchor given up is one of those.
LEMMA SkipAnchorKeeps == ASSUME DataInv, NEW n \in Synthetic, SkipAnchor(n) PROVE DataInv'
PROOF
<1>1. /\ phase = "pairs" /\ phase' \in {"pairs", "failed"}
      /\ skipped' = skipped \cup {n}
      /\ Twins(n) = {} \/ \E c \in Tries(n) : Answer(c) /\ ~IsTwin(n, c)
      /\ UNCHANGED <<function, compiled, base>> /\ UNCHANGED <<function, compiled>>
      /\ function' = function /\ compiled' = compiled /\ base' = base
      /\ boundary' = boundary /\ pairs' = pairs /\ evaluation' = evaluation
  BY DEF SkipAnchor
<1>2. /\ Sound /\ BaseData /\ AdversarialData
      /\ Len(boundary) = Len(constraints) /\ Len(pairs) <= Wanted /\ evaluation = {}
      /\ Len(Gold) <= Len(base) /\ function \in Followed
  BY <1>1 DEF DataInv, Sound, Shape
<1>3. /\ Cases' = Cases /\ constraints' = constraints /\ Gold' = Gold
      /\ \A i : Moves(i)' = Moves(i)
      /\ \A kind : Teacher(kind)' <=> Teacher(kind)
  BY <1>1, RulesKept
<1>4. /\ Synthetic' = Synthetic
      /\ \A c : AdversarialCaseLoads(c)' <=> AdversarialCaseLoads(c)
      /\ \A c : Answered(c)' <=> Answered(c)
  BY <1>1, CasesKept
<1>5. Adversarial' = Adversarial
  BY <1>1 DEF Adversarial
<1>6. \A k \in DOMAIN boundary' : BoundaryLoads(k)'
  BY <1>1, <1>2, <1>4 DEF BoundaryLoads, AdversarialData, OneChange
<1>7. \A p : Anchor(p)' = Anchor(p)
  BY <1>1 DEF Anchor
<1>8. \A p \in DOMAIN pairs' : PairLoads(p)'
  BY <1>1, <1>2, <1>4, <1>7 DEF PairLoads, AdversarialData, OneChange
<1>9. Skips'
  <2>1. Teacher("constraints") =>
          \E j \in Moves(base[n].inputs) : ChangedPaths(base[n].inputs, j) > 1
    BY <1>1, <1>2, GivenUp
  <2>2. Teacher("constraints") =>
          \A m \in skipped : \E j \in Moves(base[m].inputs) : ChangedPaths(base[m].inputs, j) > 1
    BY <1>2 DEF Skips, AdversarialData
  <2> QED  BY <2>1, <2>2, <1>1, <1>3 DEF Skips
<1>10. AdversarialData'
  BY <1>1, <1>2, <1>3, <1>4, <1>5, <1>6, <1>8, <1>9 DEF AdversarialData, SameBytes
<1>11. Wanted' = Wanted
  BY <1>4 DEF Wanted
<1>12. Shape'
  BY <1>1, <1>2, <1>3, <1>11 DEF Shape
<1> QED  BY <1>1, <1>2, <1>10, <1>12, BaseDataKept DEF DataInv, Sound

\* As many pairs as wanted are read back.
LEMMA AdversarialIsRead ==
  ASSUME DataInv, phase = "pairs", Len(pairs) = Wanted PROVE AdversarialLoads
PROOF
<1>1. AdversarialData /\ Len(boundary) = Len(constraints)
  BY DEF DataInv, Sound, Shape
<1>2. Len(pairs) \in Nat /\ DOMAIN pairs = 1..Len(pairs)
  BY <1>1, LenProperties DEF AdversarialData
<1> DEFINE f == [p \in 1..Len(pairs) |-> pairs[p].source]
<1>3. f \in Bijection(1..Len(pairs), Sources)
  <2>1. f \in Injection(1..Len(pairs), Sources)
    BY <1>1, <1>2 DEF Injection, IsInjective, Sources, AdversarialData
  <2>2. f \in Surjection(1..Len(pairs), Sources)
    BY <1>2 DEF Surjection, Sources
  <2> QED  BY <2>1, <2>2 DEF Bijection
<1>4. ExistsBijection(1..Len(pairs), Sources)
  BY <1>3 DEF ExistsBijection
<1>5. Cardinality(Sources) = Len(pairs)
  BY <1>2, <1>4, FS_CountingElements
<1> QED  BY <1>1, <1>5 DEF AdversarialLoads, AdversarialData

\* The steps between phases, and those that end a run, leave the data as it is.
LEMMA TurnsKeep ==
  ASSUME DataInv,
         CompileFails \/ BaseComplete \/ DrawFails \/ BoundaryFails \/ BoundariesComplete \/ PairsEnd
  PROVE  DataInv'
PROOF
<1>1. UNCHANGED data /\ evaluation' = evaluation
  BY DEF CompileFails, BaseComplete, DrawFails, BoundaryFails, BoundariesComplete, PairsEnd
<1>2. /\ Sound' /\ Sound /\ Shape /\ BaseData
      /\ UNCHANGED <<function, compiled>> /\ UNCHANGED <<function, compiled, base>>
      /\ function' = function /\ base' = base /\ boundary' = boundary /\ pairs' = pairs
      /\ skipped' = skipped
  BY <1>1, SoundKept DEF DataInv, Sound, data
<1>3. constraints' = constraints /\ Gold' = Gold
  BY <1>2, RulesKept
<1>4. Wanted' = Wanted
  BY <1>2, CasesKept DEF Wanted
<1>5. CASE CompileFails \/ DrawFails \/ BoundaryFails
  <2>1. phase' = "failed"
    BY <1>5 DEF CompileFails, DrawFails, BoundaryFails
  <2> QED  BY <2>1, <1>2 DEF DataInv, Shape
<1>6. CASE BaseComplete
  <2>1. phase = "base" /\ phase' \in {"corpus", "boundary"}
    BY <1>6, BaseIsRead DEF BaseComplete
  <2> QED  BY <2>1, <1>1, <1>2, <1>3 DEF DataInv, Shape
<1>7. CASE BoundariesComplete
  <2>1. phase = "boundary" /\ phase' = "pairs" /\ Len(boundary) = Len(constraints)
    BY <1>7 DEF BoundariesComplete
  <2>2. Len(pairs) <= Wanted
    BY <2>1, <1>2, WantedIsNumber DEF Shape
  <2> QED  BY <2>1, <2>2, <1>1, <1>2, <1>3, <1>4 DEF DataInv, Shape
<1>8. CASE PairsEnd
  <2>1. phase = "pairs" /\ phase' \in {"failed", "corpus", "unloadable"}
    BY <1>8 DEF PairsEnd
  <2>2. phase' # "unloadable"
    <3>1. Len(pairs) \in Nat /\ Wanted \in Nat /\ Len(pairs) <= Wanted
      BY <2>1, <1>2, WantedIsNumber, LenProperties DEF Sound, AdversarialData, Shape
    <3>2. ~(Len(pairs) < Wanted) => AdversarialLoads
      BY <2>1, <3>1, AdversarialIsRead
    <3> QED  BY <1>8, <3>2 DEF PairsEnd
  <2> QED  BY <2>1, <2>2, <1>1, <1>2 DEF DataInv, Shape
<1> QED  BY <1>5, <1>6, <1>7, <1>8

\* A run starts with nothing.
LEMMA DataStarts == ASSUME DataInit PROVE DataInv
PROOF
<1>1. /\ function \in Declarations /\ compiled = <<>> /\ base = <<>> /\ boundary = <<>>
      /\ pairs = <<>> /\ skipped = {} /\ phase = "compile" /\ evaluation = {}
  BY DEF DataInit
<1>2. BaseData
  BY <1>1, TrainingDataAssumption DEF BaseData
<1>3. AdversarialData
  <2>1. Adversarial = {}
    BY <1>1 DEF Adversarial
  <2>2. Skips
    BY <1>1 DEF Skips
  <2>3. 0 <= Len(constraints)
    BY <1>1, TrainingDataAssumption DEF constraints
  <2> QED  BY <1>1, <2>1, <2>2, <2>3 DEF AdversarialData
<1>4. Shape
  BY <1>1 DEF Shape
<1> QED  BY <1>2, <1>3, <1>4 DEF DataInv, Sound

\* Each step of gathering the data keeps the invariant.
LEMMA DataStepKeeps == ASSUME DataInv, DataStep PROVE DataInv'
PROOF
<1>1. CASE Compile
  BY <1>1, CompileKeeps
<1>2. CASE Begin
  BY <1>2, BeginKeeps
<1>3. CASE \E i \in Inputs, l \in Labels : Draw(i, l)
  BY <1>3, DrawKeeps
<1>4. CASE phase = "boundary" /\ \E no, yes \in Proposals : AddBoundary(no, yes)
  BY <1>4, AddBoundaryKeeps
<1>5. CASE \E n \in Synthetic, c \in UNION {Twins(m) : m \in Synthetic} : AddPair(n, c)
  BY <1>5, AddPairKeeps
<1>6. CASE \E n \in Synthetic : SkipAnchor(n)
  BY <1>6, SkipAnchorKeeps
<1>7. CASE CompileFails \/ BaseComplete \/ DrawFails \/ BoundaryFails \/ BoundariesComplete \/ PairsEnd
  BY <1>7, TurnsKeep
<1> QED  BY <1>1, <1>2, <1>3, <1>4, <1>5, <1>6, <1>7 DEF DataStep
----------------------------------------------------------------------------
\* The corpus

\* The corpus does not change once the data is gathered.
LEMMA RowsKept == ASSUME UNCHANGED data PROVE Rows' = Rows
PROOF
<1>1. base' = base /\ boundary' = boundary /\ pairs' = pairs
  BY DEF data
<1>2. Sources' = Sources
  BY <1>1 DEF Sources
<1>3. \A n : BaseRow(n)' = BaseRow(n)
  BY <1>1, <1>2 DEF BaseRow, Row
<1>4. \A k : BoundaryRows(k)' = BoundaryRows(k)
  BY <1>1 DEF BoundaryRows, Row
<1>5. \A p : PairRows(p)' = PairRows(p)
  BY <1>1 DEF PairRows, Anchor, Row
<1>6. [n \in DOMAIN base |-> BaseRow(n)]' = [n \in DOMAIN base |-> BaseRow(n)]
  BY <1>1, <1>3
<1>7. [k \in DOMAIN boundary |-> BoundaryRows(k)]' = [k \in DOMAIN boundary |-> BoundaryRows(k)]
  BY <1>1, <1>4
<1>8. [p \in DOMAIN pairs |-> PairRows(p)]' = [p \in DOMAIN pairs |-> PairRows(p)]
  BY <1>1, <1>5
<1> QED  BY <1>6, <1>7, <1>8 DEF Rows

\* The rows held out are whole groups without an example.
SplitSound ==
  /\ evaluation \subseteq DOMAIN Rows /\ Closed(Rows, evaluation)
  /\ \A n \in evaluation : Rows[n].case.origin # "gold"

\* Training holds out whole groups.
LEMMA PrepareSplits == ASSUME DataInv, Prepare PROVE SplitSound'
PROOF
<1>1. PICK out \in Splits(Rows) : evaluation' = out
  BY DEF Prepare
<1>2. Rows' = Rows
  BY RowsKept DEF Prepare
<1>3. Datasets
  BY DEF DataInv, Sound, BaseData, AdversarialData, Datasets
<1>4. Len(Rows) \in Nat /\ DOMAIN Rows = 1..Len(Rows)
  BY <1>3, CorpusRows
<1>5. out \subseteq DOMAIN Rows /\ Closed(Rows, out) /\ \A n \in out : Rows[n].case.origin # "gold"
  BY <1>4, SplitsHoldGroups
<1> QED  BY <1>1, <1>2, <1>5 DEF SplitSound, Closed

\* The case of a row has the bytes and the label of a base case, or is adversarial.
LEMMA RowCase ==
  ASSUME Sound, NEW r \in DOMAIN Rows
  PROVE  LET c == Rows[r].case
         IN  /\ c.inputs \in Inputs
             /\ Teacher("constraints") => c.spelling = "integer"
             /\ \/ \E b \in DOMAIN base : SameBytes(base[b], c) /\ base[b].output = c.output
                \/ c \in Adversarial
PROOF
<1> DEFINE c == Rows[r].case
<1>1. /\ BaseData /\ AdversarialData /\ Datasets /\ function \in Declarations
  BY DEF Sound, BaseData, AdversarialData, Datasets
<1>2. /\ Len(Rows) \in Nat /\ DOMAIN Rows = 1..Len(Rows)
      /\ Len(base) \in Nat /\ DOMAIN base = 1..Len(base) /\ Len(base) <= Len(Rows)
      /\ \A n \in DOMAIN base : Rows[n] = BaseRow(n)
      /\ \A n \in DOMAIN Rows : n > Len(base) => Rows[n] \in AdversarialRows
  BY <1>1, CorpusRows
<1>3. ASSUME NEW b \in DOMAIN base
      PROVE  base[b].inputs \in Inputs /\ (Teacher("constraints") => base[b].spelling = "integer")
  <2>1. base[b] \in Cases
    BY <1>1, <1>2, ElementOfSeq DEF BaseData
  <2>2. CASE b <= Len(Gold)
    <3>1. base[b] = Gold[b] /\ b \in DOMAIN Gold /\ Gold[b].spelling = "integer"
      BY <2>2, <1>1, <1>2, Examples DEF BaseData, BaseSound
    <3> QED  BY <2>1, <3>1 DEF Cases
  <2>3. CASE ~(b <= Len(Gold))
    <3>1. Len(Gold) \in Nat
      BY <1>1, Examples
    <3>2. base[b].spelling = Spelling(base[b].inputs)
      BY <2>3, <3>1, <1>1, <1>2 DEF BaseData, BaseSound, Synthesized
    <3> QED  BY <2>1, <3>2 DEF Cases, Spelling, KeepsSpelling, Teacher
  <2> QED  BY <2>2, <2>3
<1>4. ASSUME NEW d \in Adversarial, d.inputs \in Inputs, c = d
      PROVE  /\ c.inputs \in Inputs /\ c \in Adversarial
             /\ Teacher("constraints") => c.spelling = "integer"
  <2>1. d.spelling = Spelling(d.inputs)
    BY <1>1 DEF AdversarialData, Answered
  <2> QED  BY <2>1, <1>4 DEF Spelling, KeepsSpelling, Teacher
<1>5. CASE r \in DOMAIN base
  <2>1. c = base[r]
    <3>1. Rows[r] = BaseRow(r)
      BY <1>2, <1>5
    <3>2. BaseRow(r).case = base[r]
      BY DEF BaseRow, Row
    <3> QED  BY <3>1, <3>2
  <2> HIDE DEF c
  <2> QED  BY <2>1, <1>3, <1>5 DEF SameBytes, c
<1>6. CASE r \notin DOMAIN base
  <2>1. Rows[r] \in AdversarialRows
    BY <1>2, <1>6
  <2>2. CASE \E k \in DOMAIN boundary : c \in {boundary[k].false, boundary[k].true}
    <3>1. PICK k \in DOMAIN boundary : c \in {boundary[k].false, boundary[k].true}
      BY <2>2
    <3>2. c.inputs \in Inputs
      BY <1>1, <3>1 DEF AdversarialData, BoundaryLoads, AdversarialCaseLoads
    <3>3. c \in Adversarial
      BY <3>1 DEF Adversarial
    <3> HIDE DEF c
    <3> QED  BY <3>2, <3>3, <1>4 DEF c
  <2>3. CASE \E p \in DOMAIN pairs : c = pairs[p].twin
    <3>1. PICK p \in DOMAIN pairs : c = pairs[p].twin
      BY <2>3
    <3>2. c.inputs \in Inputs
      BY <1>1, <3>1 DEF AdversarialData, PairLoads, AdversarialCaseLoads
    <3>3. c \in Adversarial
      BY <3>1 DEF Adversarial
    <3> HIDE DEF c
    <3> QED  BY <3>2, <3>3, <1>4 DEF c
  <2>4. CASE \E p \in DOMAIN pairs : c = Anchor(p)
    <3>1. PICK p \in DOMAIN pairs : c = Anchor(p)
      BY <2>4
    <3> DEFINE b == pairs[p].source
    <3>2. b \in DOMAIN base
      BY <1>1, <3>1 DEF AdversarialData, PairLoads, Synthetic
    <3>3. base[b] \in Cases
      BY <1>1, <1>2, <3>2, ElementOfSeq DEF BaseData
    <3>4. c.inputs = base[b].inputs /\ c.output = base[b].output /\ c.spelling = base[b].spelling
      BY <3>1, <3>3 DEF Anchor, Cases
    <3> HIDE DEF c, b
    <3> QED  BY <3>2, <3>4, <1>3 DEF SameBytes, c
  <2> QED  BY <2>1, <2>2, <2>3, <2>4 DEF AdversarialRows, Row
<1> QED  BY <1>5, <1>6
\* Why training refuses a corpus: see CorpusAccepted in Verification.
LeakExplained ==
  /\ ~Teacher("constraints")
  /\ \/ \E n, m \in DOMAIN base :
           base[n].inputs = base[m].inputs /\ base[n].output # base[m].output
     \/ \E n, m \in DOMAIN Rows :
           /\ Rows[n].case.inputs = Rows[m].case.inputs
           /\ Rows[n].case.spelling # Rows[m].case.spelling

\* The constraints teacher and the examples never give one input two labels.
LEMMA TaughtOnce ==
  ASSUME BaseData, Teacher("constraints"), NEW n \in DOMAIN base, NEW m \in DOMAIN base,
         base[n].inputs = base[m].inputs
  PROVE  base[n].output = base[m].output
PROOF
<1>1. /\ Len(base) \in Nat /\ DOMAIN base = 1..Len(base) /\ function \in Declarations
      /\ \A k \in DOMAIN base : base[k] \in Cases /\ BaseSound(k)
  BY LenProperties, ElementOfSeq DEF BaseData
<1>2. /\ Len(Gold) \in Nat /\ DOMAIN Gold = 1..Len(Gold)
      /\ \A k, j \in DOMAIN Gold : Gold[k].inputs = Gold[j].inputs => Gold[k].output = Gold[j].output
  BY <1>1, Examples
<1>3. ASSUME NEW k \in DOMAIN base, NEW j \in DOMAIN base, base[k].inputs = base[j].inputs,
             k \in Synthetic
      PROVE  base[k].output = base[j].output
  <2>1. Admissible(base[k].inputs) = {base[k].output}
    BY <1>3, TaughtLabel
  <2>2. base[j].output \in Labels /\ Satisfies(base[j])
    BY <1>1 DEF Cases, BaseSound
  <2>3. base[j].output \in Admissible(base[j].inputs)
    BY <2>2 DEF Satisfies, Admissible
  <2> QED  BY <2>1, <2>3, <1>3
<1>4. \A k \in DOMAIN base : k \notin Synthetic => k \in DOMAIN Gold /\ base[k] = Gold[k]
  BY <1>1, <1>2 DEF BaseSound, Synthesized, Synthetic
<1>5. CASE n \in Synthetic \/ m \in Synthetic
  BY <1>3, <1>5
<1>6. CASE n \notin Synthetic /\ m \notin Synthetic
  BY <1>2, <1>4, <1>6
<1> QED  BY <1>5, <1>6

\* A split never parts what has one text and one spelling, and what has two labels is in the
\* base dataset or spelled in two ways.
LEMMA LeaksAreExplained ==
  ASSUME Sound, function \in Followed, NEW out \in Splits(Rows), Leaks(Rows, out)
  PROVE  LeakExplained
PROOF
<1>1. /\ BaseData /\ AdversarialData /\ Datasets
  BY DEF Sound, BaseData, AdversarialData, Datasets
<1>2. Len(Rows) \in Nat /\ DOMAIN Rows = 1..Len(Rows)
  BY <1>1, CorpusRows
<1>3. Closed(Rows, out) /\ out \subseteq DOMAIN Rows
  BY <1>2, SplitsHoldGroups
<1>4. PICK n \in DOMAIN Rows, m \in DOMAIN Rows :
        /\ Text(Rows[n].case.inputs) = Text(Rows[m].case.inputs)
        /\ Rows[n].case.output # Rows[m].case.output \/ (n \in out) # (m \in out)
  BY DEF Leaks
<1> DEFINE c == Rows[n].case
           d == Rows[m].case
           TwoLabels == \E k, j \in DOMAIN base :
                          base[k].inputs = base[j].inputs /\ base[k].output # base[j].output
<1>5. /\ c.inputs \in Inputs /\ d.inputs \in Inputs
      /\ Teacher("constraints") => c.spelling = "integer" /\ d.spelling = "integer"
      /\ (\E b \in DOMAIN base : SameBytes(base[b], c) /\ base[b].output = c.output)
         \/ c \in Adversarial
      /\ (\E b \in DOMAIN base : SameBytes(base[b], d) /\ base[b].output = d.output)
         \/ d \in Adversarial
  BY RowCase
<1>6. c.inputs = d.inputs
  BY <1>4, <1>5, InputAssumption DEF Text, Inputs
<1>7. CASE c.spelling # d.spelling
  BY <1>5, <1>6, <1>7 DEF LeakExplained
<1>8. CASE c.spelling = d.spelling
  <2>1. SameBytes(c, d) /\ SameBytes(d, c)
    BY <1>6, <1>8 DEF SameBytes
  <2>2. n \in GroupNextTo(Rows, m) /\ m \in GroupNextTo(Rows, n)
    BY <2>1 DEF GroupNextTo
  <2>3. (n \in out) = (m \in out)
    BY <2>2, <1>3 DEF Closed
  <2>4. c.output # d.output
    BY <1>4, <2>3
  <2> HIDE DEF c, d
  <2>5. ASSUME NEW e \in Adversarial, NEW b \in DOMAIN base, SameBytes(base[b], e),
               base[b].output # e.output
        PROVE  TwoLabels
    <3>1. b \in Known(e)
      BY <2>5 DEF Known
    <3>2. Max(Known(e)) \in Known(e) /\ \A k \in Known(e) : k <= Max(Known(e))
      BY <3>1, <1>1, LastKnown
    <3>3. base[Max(Known(e))].output = e.output
      BY <3>2, <1>1 DEF AdversarialData, Answered
    <3>4. Max(Known(e)) \in DOMAIN base /\ base[Max(Known(e))].inputs = e.inputs
      BY <3>2 DEF Known, SameBytes
    <3> QED  BY <2>5, <3>3, <3>4 DEF SameBytes
  <2>6. TwoLabels
    <3>1. CASE c \in Adversarial /\ d \in Adversarial
      BY <3>1, <2>1, <2>4, <1>1 DEF AdversarialData
    <3>2. CASE c \in Adversarial /\ d \notin Adversarial
      <4>1. PICK b \in DOMAIN base : SameBytes(base[b], d) /\ base[b].output = d.output
        BY <3>2, <1>5
      <4>2. SameBytes(base[b], c) /\ base[b].output # c.output
        BY <4>1, <2>1, <2>4 DEF SameBytes
      <4> QED  BY <3>2, <4>2, <2>5
    <3>3. CASE c \notin Adversarial /\ d \in Adversarial
      <4>1. PICK b \in DOMAIN base : SameBytes(base[b], c) /\ base[b].output = c.output
        BY <3>3, <1>5
      <4>2. SameBytes(base[b], d) /\ base[b].output # d.output
        BY <4>1, <2>1, <2>4 DEF SameBytes
      <4> QED  BY <3>3, <4>2, <2>5
    <3>4. CASE c \notin Adversarial /\ d \notin Adversarial
      <4>1. PICK b \in DOMAIN base : SameBytes(base[b], c) /\ base[b].output = c.output
        BY <3>4, <1>5
      <4>2. PICK e \in DOMAIN base : SameBytes(base[e], d) /\ base[e].output = d.output
        BY <3>4, <1>5
      <4>3. base[b].inputs = base[e].inputs /\ base[b].output # base[e].output
        BY <4>1, <4>2, <2>1, <2>4 DEF SameBytes
      <4> QED  BY <4>3
    <3> QED  BY <3>1, <3>2, <3>3, <3>4
  <2>7. ~Teacher("constraints")
    BY <2>6, <1>1, TaughtOnce
  <2> QED  BY <2>6, <2>7 DEF LeakExplained
<1> QED  BY <1>7, <1>8
\* A refusal is explained before the corpus is trained on.
LEMMA PrepareExplains ==
  ASSUME DataInv, Prepare, phase' = "leak" PROVE LeakExplained
PROOF
<1>1. phase = "corpus" /\ Sound /\ function \in Followed
  BY DEF Prepare, DataInv, Shape
<1>2. \E out \in Splits(Rows) : Leaks(Rows, out)
  BY DEF Prepare
<1> QED  BY <1>1, <1>2, LeaksAreExplained

\* What was held out and why a corpus was refused stay so as long as the data do.
LEMMA SplitKept ==
  ASSUME UNCHANGED data
  PROVE  /\ UNCHANGED evaluation /\ SplitSound => SplitSound'
         /\ LeakExplained => LeakExplained'
PROOF
<1>1. Rows' = Rows
  BY RowsKept
<1>2. base' = base /\ function' = function
  BY DEF data
<1>3. UNCHANGED evaluation /\ SplitSound => SplitSound'
  BY <1>1 DEF SplitSound, Closed
<1>4. LeakExplained => LeakExplained'
  BY <1>1, <1>2 DEF LeakExplained, Teacher
<1> QED  BY <1>3, <1>4

\* Gathering the data decides neither the function nor what is held out.
LEMMA GatherKeeps == ASSUME DataStep PROVE function' = function /\ evaluation' = evaluation
PROOF
<1>1. CASE Compile \/ CompileFails \/ Begin
  BY <1>1 DEF Compile, CompileFails, Begin, data
<1>2. CASE \E i \in Inputs, l \in Labels : Draw(i, l)
  BY <1>2 DEF Draw
<1>3. CASE BaseComplete \/ DrawFails
  BY <1>3 DEF BaseComplete, DrawFails, data
<1>4. CASE phase = "boundary" /\ \E no, yes \in Proposals : AddBoundary(no, yes)
  BY <1>4 DEF AddBoundary
<1>5. CASE BoundaryFails \/ BoundariesComplete
  BY <1>5 DEF BoundaryFails, BoundariesComplete, data
<1>6. CASE \E n \in Synthetic, c \in UNION {Twins(m) : m \in Synthetic} : AddPair(n, c)
  BY <1>6 DEF AddPair
<1>7. CASE \E n \in Synthetic : SkipAnchor(n)
  BY <1>7 DEF SkipAnchor
<1>8. CASE PairsEnd
  BY <1>8 DEF PairsEnd, data
<1> QED  BY <1>1, <1>2, <1>3, <1>4, <1>5, <1>6, <1>7, <1>8 DEF DataStep
=============================================================================
