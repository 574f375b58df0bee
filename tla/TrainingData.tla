---------------------------- MODULE TrainingData ----------------------------
(***************************************************************************)
(* The data one neural function is trained on: the base dataset (the       *)
(* examples of the sema call and the teacher's cases), one boundary pair   *)
(* for each constraint, the counterfactual pairs, the corpus they make, its *)
(* split into training and held-out rows, and the check training makes of  *)
(* both parts.                                                             *)
(*                                                                         *)
(* Three kinds of teacher answer: a language model, which may say anything; *)
(* the constraints teacher, which draws inputs and lets the constraints    *)
(* label them; and the mixed one, a language model corrected by the        *)
(* constraints.  How a request is retried, charged and journaled is        *)
(* TeacherJournal's subject: here one action is the first acceptable       *)
(* answer, another the failure after the last attempt.                     *)
(*                                                                         *)
(* What an input is, which single edits of it there are and how many JSON  *)
(* paths two inputs differ at, which predicates compile and what they come *)
(* to on an input are parameters (InputTypes and PredicateTrees            *)
(* have them), and so is the canonical text of an input, which training    *)
(* compares inputs by (CanonicalInput).  The bytes of a cached case depend *)
(* on how its numbers are spelled as well: 1 as the compiler and the       *)
(* constraints teacher write it, 1.0 as the strict JSON reader returns it  *)
(* from a language model.  Both have one canonical text.                   *)
(***************************************************************************)
EXTENDS Naturals, Sequences, FiniteSets, FiniteSetsExt, SequencesExt

CONSTANTS
  Declarations,   \* the functions: [teacher, schema, constraints, examples]
  Followed,       \* the ones followed beyond the compilation of their constraints: a bound
  Labels,
  Total,          \* --cases
  PairRatio,      \* counterfactual_ratio, in percent
  HoldOutRatio,   \* evaluation_ratio, in percent
  InputSpace(_),            \* the inputs of a schema
  Edits(_, _),              \* the single edits of an input, by schema
  ChangedPaths(_, _),       \* the number of JSON paths two inputs differ at
  Canonical(_, _),          \* the canonical text of an input, by schema
  SpelledTwice(_),          \* whether an input holds a number
  PredicateCompiles(_, _),  \* whether a predicate compiles, by schema
  PredicateValue(_, _)      \* "true", "false" or the kind of the error, on an input

\* The declarations are the compiler's: an input has one output among the examples (definition.ts).
ASSUME TrainingDataAssumption ==
  /\ Followed \subseteq Declarations
  /\ \A f \in Declarations :
       /\ f.teacher \in {"model", "constraints", "mixed"}
       /\ Len(f.constraints) \in Nat /\ DOMAIN f.constraints = 1..Len(f.constraints)
       /\ \A k \in DOMAIN f.constraints :
            f.constraints[k].kind \in {"always", "never"} /\ f.constraints[k].output \in Labels
       /\ f.examples \in Seq([inputs : InputSpace(f.schema), output : Labels])
       /\ \A n, m \in DOMAIN f.examples :
            f.examples[n].inputs = f.examples[m].inputs => f.examples[n].output = f.examples[m].output
       /\ Len(f.examples) <= Total
  /\ IsFiniteSet(Labels) /\ Total \in Nat /\ PairRatio \in 0..100 /\ HoldOutRatio \in 1..99

\* An edit of an input is an input, which differs from it somewhere; and two inputs have two
\* canonical texts.
ASSUME InputAssumption ==
  \A f \in Followed : \A i \in InputSpace(f.schema) :
    /\ \A j \in Edits(f.schema, i) :
         j \in InputSpace(f.schema) /\ ChangedPaths(i, j) \in Nat \ {0}
    /\ \A j \in InputSpace(f.schema) : Canonical(f.schema, i) = Canonical(f.schema, j) => i = j

VARIABLES
  function,    \* the declaration, its teacher included
  compiled,    \* compiled[k]: what predicate k comes to, on every input
  base,        \* the base dataset: gold cases, then synthetic ones
  boundary,    \* boundary[k]: the two sides of constraint k
  pairs,       \* counterfactual pairs: [source, twin]
  skipped,     \* the anchors given up
  phase,       \* where the run is
  evaluation   \* the rows held out, by position

data == <<function, compiled, base, boundary, pairs, skipped>>

Inputs == InputSpace(function.schema)
constraints == function.constraints
Text(i) == Canonical(function.schema, i)
Teacher(kind) == function.teacher = kind

----------------------------------------------------------------------------
\* Constraints, and what a teacher says of them

\* The function has an example to be verified on, and every predicate of it compiles.
Compile ==
  /\ phase = "compile" /\ function.examples # <<>>
  /\ \A k \in DOMAIN constraints : PredicateCompiles(constraints[k].predicate, function.schema)
  /\ compiled' = [k \in DOMAIN constraints |->
                   [i \in Inputs |-> PredicateValue(constraints[k].predicate, i)]]
  /\ phase' = "compiled"
  /\ UNCHANGED <<function, base, boundary, pairs, skipped, evaluation>>

CompileFails ==
  /\ phase = "compile"
  /\ \/ function.examples = <<>>
     \/ \E k \in DOMAIN constraints :
          ~PredicateCompiles(constraints[k].predicate, function.schema)
  /\ phase' = "failed"
  /\ UNCHANGED <<data, evaluation>>

Evaluable(i) == \A k \in DOMAIN compiled : compiled[k][i] \in {"true", "false"}
Breaks(k, output) ==
  IF constraints[k].kind = "always" THEN output # constraints[k].output
  ELSE output = constraints[k].output

\* evaluate_output_contract: the active constraints an output breaks.
Violated(i, output) == {k \in DOMAIN compiled : compiled[k][i] = "true" /\ Breaks(k, output)}

\* CompiledConstraints.validate_case
Satisfies(c) == Evaluable(c.inputs) /\ Violated(c.inputs, c.output) = {}

Admissible(i) == {l \in Labels : Violated(i, l) = {}}
Decided(i) == Evaluable(i) /\ Cardinality(Admissible(i)) = 1

\* What a language model answered is spelled as it came, unless the mixed teacher relabels it, for
\* which it needs constraints.
KeepsSpelling == Teacher("model") \/ (Teacher("mixed") /\ constraints = <<>>)
Spelling(i) == IF KeepsSpelling /\ SpelledTwice(i) THEN "float" ELSE "integer"

\* The labels a teacher may give an input: decided inputs are labelled by the constraints.
LabelsOf(i) ==
  CASE Teacher("model") -> Labels
    [] Teacher("mixed") -> IF Decided(i) THEN Admissible(i) ELSE Labels
    [] Teacher("constraints") -> IF Decided(i) THEN Admissible(i) ELSE {}

\* What a case of any dataset is.
Cases == [inputs : Inputs, output : Labels, spelling : {"integer", "float"},
          origin : {"gold", "synthetic", "constraint-boundary", "counterfactual"}]
Case(i, l, origin) == [inputs |-> i, output |-> l, spelling |-> Spelling(i), origin |-> origin]

\* _single_changed_path
OneChange(i, j) == ChangedPaths(i, j) = 1

\* ConstraintSampler.edits, and those that move the constraints' answer.
EditsOfCase(i) == Edits(function.schema, i)
Moves(i) == {j \in EditsOfCase(i) : Decided(j) /\ Admissible(j) # Admissible(i)}

\* Mutant: interior points are kept as well.
TwinnedAnyhow(i) == TRUE

\* The twin filter.
Twinned(i) == Moves(i) # {}

----------------------------------------------------------------------------
\* The base dataset

Gold == [n \in DOMAIN function.examples |->
           [inputs |-> function.examples[n].inputs, output |-> function.examples[n].output,
            spelling |-> "integer", origin |-> "gold"]]
Synthetic == {n \in DOMAIN base : base[n].origin = "synthetic"}
Drawn == {i \in Inputs : Decided(i) /\ Twinned(i)}
Used == {base[n].inputs : n \in Synthetic}

\* The examples come first, and may not break a constraint; a run that is followed begins.
Begin ==
  /\ phase = "compiled" /\ function \in Followed
  /\ IF \A n \in DOMAIN Gold : Satisfies(Gold[n])
     THEN base' = Gold /\ phase' = "base"
     ELSE base' = base /\ phase' = "failed"
  /\ UNCHANGED <<function, compiled, boundary, pairs, skipped, evaluation>>

\* A case the constraints admit.  The constraints teacher draws inputs it has not drawn,
\* and repeats them when there are no others.
Draw(i, l) ==
  /\ phase = "base" /\ Len(base) < Total
  /\ l \in LabelsOf(i) /\ Satisfies([inputs |-> i, output |-> l])
  /\ Teacher("constraints") => Twinned(i) /\ (i \notin Used \/ Drawn \subseteq Used)
  /\ base' = Append(base, Case(i, l, "synthetic"))
  /\ UNCHANGED <<function, compiled, boundary, pairs, skipped, phase, evaluation>>

\* _parse_cached_case
CaseLoads(n) ==
  /\ base[n].origin = (IF n <= Len(Gold) THEN "gold" ELSE "synthetic")
  /\ base[n].inputs \in Inputs /\ base[n].output \in Labels
  /\ Satisfies(base[n])

\* What a dataset that is read from its file must be, be it just published or of an earlier run.
BaseLoads ==
  /\ Len(base) = Total
  /\ SubSeq(base, 1, Len(Gold)) = Gold
  /\ \A n \in DOMAIN base : CaseLoads(n)

\* The dataset is published and read back.  Constraints only shape adversarial data when there
\* are any.
BaseComplete ==
  /\ phase = "base" /\ Len(base) = Total
  /\ phase' = (IF ~BaseLoads THEN "unloadable"
               ELSE IF constraints = <<>> THEN "corpus" ELSE "boundary")
  /\ UNCHANGED <<data, evaluation>>

\* Violators filled every replacement round; or the constraints teacher met an input it
\* cannot label, or none it can within its draws (it repeats those it has).
DrawFails ==
  /\ phase = "base" /\ Len(base) < Total
  /\ Teacher("constraints") => (\E i \in Inputs : ~Decided(i)) \/ Synthetic = {}
  /\ phase' = "failed"
  /\ UNCHANGED <<data, evaluation>>

----------------------------------------------------------------------------
\* Boundary pairs and counterfactual pairs

Adversarial == (UNION {{boundary[k].false, boundary[k].true} : k \in DOMAIN boundary})
               \cup {pairs[n].twin : n \in DOMAIN pairs}
SameBytes(c, d) == c.inputs = d.inputs /\ c.spelling = d.spelling
Known(c) == {n \in DOMAIN base : SameBytes(base[n], c)}

\* Mutant: labels are compared within the base dataset only.
ConflictsWithBase(c) == \E n \in Known(c) : base[n].output # c.output

\* _reject_label_conflicts: the last base case of these bytes, or an adversarial one, has
\* another label.
Conflicts(c) ==
  IF Known(c) # {} THEN base[Max(Known(c))].output # c.output
  ELSE \E d \in Adversarial : SameBytes(c, d) /\ d.output # c.output

\* _validate_boundary_proposal, for the constraint at hand.
Bounds(no, yes) ==
  LET k == Len(boundary) + 1
  IN  /\ compiled[k][no.inputs] = "false" /\ compiled[k][yes.inputs] = "true"
      /\ Satisfies(no) /\ Satisfies(yes)
      /\ OneChange(no.inputs, yes.inputs)
      /\ ~Conflicts(no) /\ ~Conflicts(yes)

Proposals == {Case(i, l, "constraint-boundary") : i \in Inputs, l \in Labels}
Answer(c) == c.output \in LabelsOf(c.inputs)

AddBoundary(no, yes) ==
  /\ phase = "boundary" /\ Len(boundary) < Len(constraints)
  /\ Answer(no) /\ Answer(yes) /\ Bounds(no, yes)
  /\ Teacher("constraints") =>
       yes.inputs \in EditsOfCase(no.inputs) \/ no.inputs \in EditsOfCase(yes.inputs)
  /\ boundary' = Append(boundary, [false |-> no, true |-> yes])
  /\ UNCHANGED <<function, compiled, base, pairs, skipped, phase, evaluation>>

\* UnsynthesizableConstraintError: no acceptable pair within the attempts.
BoundaryFails ==
  /\ phase = "boundary" /\ Len(boundary) < Len(constraints)
  /\ phase' = "failed"
  /\ UNCHANGED <<data, evaluation>>

BoundariesComplete ==
  /\ phase = "boundary" /\ Len(boundary) = Len(constraints)
  /\ phase' = "pairs"
  /\ UNCHANGED <<data, evaluation>>

RatioCount(total, percent) == Min({total, (2 * total * percent + 100) \div 200})
Wanted == RatioCount(Cardinality(Synthetic), PairRatio)
Sources == {pairs[n].source : n \in DOMAIN pairs}

\* The candidates come in the order of their digests, which is as good as any order.
Candidates == Synthetic \ (Sources \cup skipped)

\* _validate_counterfactual.
IsTwin(n, c) ==
  /\ Satisfies(c) /\ c.output # base[n].output
  /\ OneChange(base[n].inputs, c.inputs)
  /\ ~Conflicts(c)

\* What a teacher may answer for an anchor; the constraints teacher answers with an edit that
\* moves its answer, whatever number of paths the edit changes.
Tries(n) ==
  {Case(i, l, "counterfactual") :
     i \in IF Teacher("constraints") THEN Moves(base[n].inputs) ELSE Inputs, l \in Labels}
Twins(n) == {c \in Tries(n) : Answer(c) /\ IsTwin(n, c)}

AddPair(n, c) ==
  /\ phase = "pairs" /\ Len(pairs) < Wanted
  /\ n \in Candidates /\ c \in Twins(n)
  /\ pairs' = Append(pairs, [source |-> n, twin |-> c])
  /\ UNCHANGED <<function, compiled, base, boundary, skipped, phase, evaluation>>

\* No acceptable twin within the attempts: the next anchor, as long as there are spares.
SkipAnchor(n) ==
  /\ phase = "pairs" /\ Len(pairs) < Wanted /\ n \in Candidates
  /\ Twins(n) = {} \/ \E c \in Tries(n) : Answer(c) /\ ~IsTwin(n, c)
  /\ skipped' = skipped \cup {n}
  /\ phase' = IF Cardinality(skipped') > Wanted THEN "failed" ELSE "pairs"
  /\ UNCHANGED <<function, compiled, base, boundary, pairs, evaluation>>

\* _parse_cached_case of an adversarial dataset, which is read back as the base dataset is.
AdversarialCaseLoads(c) ==
  /\ c.origin \in {"constraint-boundary", "counterfactual"}
  /\ c.inputs \in Inputs /\ c.output \in Labels /\ Satisfies(c)

\* The sides of constraint k.
BoundaryLoads(k) ==
  LET no == boundary[k].false
      yes == boundary[k].true
  IN  /\ AdversarialCaseLoads(no) /\ compiled[k][no.inputs] = "false"
      /\ AdversarialCaseLoads(yes) /\ compiled[k][yes.inputs] = "true"
      /\ OneChange(no.inputs, yes.inputs)

\* Pair p, whose anchor is a copy of its source.
Anchor(p) == [base[pairs[p].source] EXCEPT !.origin = "counterfactual"]
PairLoads(p) ==
  /\ pairs[p].source \in Synthetic
  /\ AdversarialCaseLoads(Anchor(p)) /\ AdversarialCaseLoads(pairs[p].twin)
  /\ Anchor(p).output # pairs[p].twin.output
  /\ OneChange(Anchor(p).inputs, pairs[p].twin.inputs)

AdversarialLoads ==
  /\ Len(boundary) = Len(constraints) /\ Len(pairs) = Wanted
  /\ Cardinality(Sources) = Len(pairs)
  /\ \A k \in DOMAIN boundary : BoundaryLoads(k)
  /\ \A p \in DOMAIN pairs : PairLoads(p)

\* Too few pairs, or the adversarial dataset is published and read back.
PairsEnd ==
  /\ phase = "pairs" /\ (Len(pairs) = Wanted \/ Candidates = {})
  /\ phase' = (IF Len(pairs) < Wanted THEN "failed"
               ELSE IF AdversarialLoads THEN "corpus" ELSE "unloadable")
  /\ UNCHANGED <<data, evaluation>>

----------------------------------------------------------------------------
\* The corpus and its split

Row(c, group) == [case |-> c, group |-> group]

\* A pair's number is the group of its source, its anchor and its twin.
BaseRow(n) ==
  Row(base[n], IF n \in Sources
               THEN <<"pair", CHOOSE p \in DOMAIN pairs : pairs[p].source = n>>
               ELSE <<"base", n>>)

PairRows(p) == <<Row(Anchor(p), <<"pair", p>>), Row(pairs[p].twin, <<"pair", p>>)>>
BoundaryRows(k) == <<Row(boundary[k].false, <<"boundary", k>>),
                     Row(boundary[k].true, <<"boundary", k>>)>>

\* assemble_training_corpus, before groups are merged.
Rows == [n \in DOMAIN base |-> BaseRow(n)]
        \o FlattenSeq([k \in DOMAIN boundary |-> BoundaryRows(k)])
        \o FlattenSeq([p \in DOMAIN pairs |-> PairRows(p)])

\* The rows linked to a row: those of its group, and those of the same bytes.  (Mutant for
\* GroupOf: links are not followed any further.)
GroupNextTo(rows, n) ==
  {m \in DOMAIN rows : \/ rows[m].group = rows[n].group
                       \/ SameBytes(rows[m].case, rows[n].case)}

\* _merge_duplicate_input_groups: everything linked, over any number of links.
GroupOf(rows, n) ==
  LET near == [m \in DOMAIN rows |-> GroupNextTo(rows, m)]
      reach[d \in 0..Len(rows)] ==
        IF d = 0 THEN {n} ELSE UNION {near[m] : m \in reach[d - 1]}
  IN  reach[Len(rows)]

Groups(rows) == {GroupOf(rows, n) : n \in DOMAIN rows}
Origins(rows, group) == {rows[n].case.origin : n \in group}

\* A gold group is never held out.
Rankable(rows) == {g \in Groups(rows) : "gold" \notin Origins(rows, g)}

Distance(a, b) == IF a < b THEN b - a ELSE a - b

\* The groups held out under a ranking: the shortest prefix nearest to the target.  One group
\* stays in training when there is no gold one.
Prefix(total, ranked, kept) ==
  LET target == Max({1, Min({total - 1, (2 * total * HoldOutRatio + 100) \div 200})})
      off == [n \in 1..kept |-> Distance(Cardinality(UNION {ranked[m] : m \in 1..n}), target)]
      near(n) == \A m \in 1..kept : off[n] <= off[m]
  IN  IF kept < 1 THEN {} ELSE UNION {ranked[m] : m \in 1..Min({n \in 1..kept : near(n)})}

\* A seed ranks the groups by digest: any ranking.
Splits(rows) ==
  LET groups == Groups(rows)
      rankable == Rankable(rows)
      length == Len(rows)
      kept == Cardinality(rankable) - (IF rankable = groups THEN 1 ELSE 0)
  IN  IF Cardinality(groups) < 2 THEN {{}}
      ELSE {Prefix(length, ranked, kept) : ranked \in SetToSeqs(rankable)}

\* _validate_no_canonical_leakage: one canonical text has two labels, or is on both sides.
Leaks(rows, out) ==
  \E n, m \in DOMAIN rows :
    /\ Text(rows[n].case.inputs) = Text(rows[m].case.inputs)
    /\ rows[n].case.output # rows[m].case.output \/ (n \in out) # (m \in out)

\* The check before an attempt is trained.
Prepare ==
  /\ phase = "corpus"
  /\ LET rows == Rows
     IN  \E out \in Splits(rows) :
           /\ evaluation' = out
           /\ phase' = IF out = {} THEN "one-group"
                       ELSE IF Leaks(rows, out) THEN "leak" ELSE "train"
  /\ UNCHANGED data

DataInit ==
  /\ function \in Declarations /\ compiled = <<>>
  /\ base = <<>> /\ boundary = <<>> /\ pairs = <<>> /\ skipped = {}
  /\ phase = "compile" /\ evaluation = {}

DataStep ==
  \/ Compile \/ CompileFails \/ Begin
  \/ \E i \in Inputs, l \in Labels : Draw(i, l)
  \/ BaseComplete \/ DrawFails
  \/ phase = "boundary" /\ \E no, yes \in Proposals : AddBoundary(no, yes)
  \/ BoundaryFails \/ BoundariesComplete
  \/ \E n \in Synthetic, c \in UNION {Twins(m) : m \in Synthetic} : AddPair(n, c)
  \/ \E n \in Synthetic : SkipAnchor(n)
  \/ PairsEnd
=============================================================================
