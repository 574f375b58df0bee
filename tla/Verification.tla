---------------------------- MODULE Verification ----------------------------
(***************************************************************************)
(* One function from its corpus to a published release and the int8        *)
(* release derived from it: an attempt is trained on a split of the        *)
(* corpus, verified on every row and on inputs held out of the corpus, and *)
(* retried with the next seed when every gate it failed was failed         *)
(* narrowly (evaluate_training_result, seed_retry_decision).  What a model *)
(* answers after training, and how well it is calibrated, is anything.     *)
(***************************************************************************)
EXTENDS TrainingData

CONSTANTS
  Attempts,      \* --seed-attempts
  Tolerance,     \* --max-constraint-violation-rate, in percent
  Margin,        \* the retry's multiple of a threshold
  Sample,        \* --held-out-samples
  ChangeRate,    \* --max-decision-change-rate, in percent
  AttestedChanges  \* --max-attested-disagreements

ASSUME VerificationAssumption ==
  /\ Attempts \in Nat \ {0} /\ Tolerance \in 0..100 /\ Margin \in Nat \ {0}
  /\ Sample \in Nat \ {0} /\ ChangeRate \in 0..100 /\ AttestedChanges \in Nat

\* The expected calibration error: within its threshold, within Margin times it, or beyond.
Calibrations == {"within", "near", "beyond"}

\* A model reads the canonical text of an input and nothing else.
Models == [{Text(i) : i \in Inputs} -> Labels]
Decision(m, i) == m[Text(i)]

VARIABLES
  attempt,     \* seeds tried
  sample,      \* the held-out sample of the first seed
  answers, ece,  \* the trained model
  release,     \* the answers of the published model, or NoRelease
  int8         \* the answers of the derived one, or NoRelease

NoRelease == [i \in {} |-> i]
vars == <<data, phase, evaluation, attempt, sample, answers, ece, release, int8>>
model == <<answers, ece>>
published == <<release, int8>>

RowTexts == LET rows == Rows IN {Text(rows[n].case.inputs) : n \in DOMAIN rows}

\* The samples a seed may draw, outside the canonical texts of every record.
Samples == {s \in SUBSET {i \in Inputs : Text(i) \notin RowTexts} : Cardinality(s) <= Sample}

----------------------------------------------------------------------------
\* Training

\* The seed of the first attempt draws the sample.
Assemble ==
  /\ attempt = 0 /\ Prepare /\ attempt' = 1
  /\ sample' \in (IF constraints = <<>> THEN {{}} ELSE Samples)
  /\ UNCHANGED <<model, published>>

\* Mutant: a retry draws its own sample.
Redraw ==
  /\ attempt > 0 /\ Prepare /\ attempt' = attempt + 1
  /\ sample' \in Samples
  /\ UNCHANGED <<model, published>>

\* The next seed splits the same corpus again.
Retry ==
  /\ attempt > 0 /\ Prepare /\ attempt' = attempt + 1
  /\ UNCHANGED <<sample, model, published>>

Train ==
  /\ phase = "train" /\ phase' = "verify"
  /\ answers' \in Models /\ ece' \in Calibrations
  /\ UNCHANGED <<data, evaluation, attempt, sample, published>>

----------------------------------------------------------------------------
\* Verification

Count(S) == Cardinality(S)

GoldRows == {n \in DOMAIN base : base[n].origin = "gold"}

\* _validate_source_examples: the gold rows are the examples, in their order.
HoldsExamples ==
  /\ Cardinality(GoldRows) = Len(Gold) /\ Gold # <<>>
  /\ \A n \in DOMAIN Gold : /\ n \in GoldRows
                            /\ Text(base[n].inputs) = Text(Gold[n].inputs)
                            /\ base[n].output = Gold[n].output

\* What evaluate_training_result asks for before it measures anything.
Verifiable ==
  /\ HoldsExamples
  /\ evaluation # {} /\ \A n \in evaluation : Rows[n].case.origin # "gold"

Missed(m) == {n \in GoldRows : Decision(m, base[n].inputs) # base[n].output}

\* Every constraint a record's answer breaks counts.
Violations(m) ==
  LET rows == Rows
  IN  UNION {{<<n, k>> : k \in Violated(rows[n].case.inputs, Decision(m, rows[n].case.inputs))} :
               n \in DOMAIN rows}

\* Of the held-out sample, inputs count.
Broken(m) == {i \in sample : Violated(i, Decision(m, i)) # {}}

\* count / of > percent / 100
Exceeds(count, of, percent) == count * 100 > percent * of

\* Mutant: the sample is not scored.
FailedGatesOfRows ==
  {g \in {"examples", "constraints", "ece"} :
     CASE g = "examples" -> Missed(answers) # {}
       [] g = "constraints" -> Exceeds(Count(Violations(answers)), Len(Rows), Tolerance)
       [] g = "ece" -> ece # "within"}

FailedGates ==
  {g \in {"examples", "constraints", "held-out", "ece"} :
     CASE g = "examples" -> Missed(answers) # {}
       [] g = "constraints" -> Exceeds(Count(Violations(answers)), Len(Rows), Tolerance)
       [] g = "held-out" -> Exceeds(Count(Broken(answers)), Count(sample), Tolerance)
       [] g = "ece" -> ece # "within"}

\* seed_retry_decision: no gold miss, and every failed gate within the margin.  A zero
\* tolerance has no margin.
Narrow ==
  /\ "examples" \notin FailedGates
  /\ "constraints" \in FailedGates =>
       ~Exceeds(Count(Violations(answers)), Len(Rows), Margin * Tolerance)
  /\ "held-out" \in FailedGates =>
       ~Exceeds(Count(Broken(answers)), Count(sample), Margin * Tolerance)
  /\ ece # "beyond"

\* Mutant: the last seed is retried too.
SeedLeftAnyway == attempt <= Attempts

SeedLeft == attempt < Attempts

\* The verified IR is built and the release exported.
Passes ==
  /\ phase = "verify" /\ Verifiable /\ FailedGates = {}
  /\ phase' = "published" /\ release' = answers
  /\ UNCHANGED <<data, evaluation, attempt, sample, model, int8>>

FailsNarrowly ==
  /\ phase = "verify" /\ Verifiable /\ FailedGates # {} /\ Narrow /\ SeedLeft
  /\ phase' = "corpus"
  /\ UNCHANGED <<data, evaluation, attempt, sample, model, published>>

Fails ==
  /\ phase = "verify"
  /\ ~Verifiable \/ (FailedGates # {} /\ ~(Narrow /\ SeedLeft))
  /\ phase' = "failed"
  /\ UNCHANGED <<data, evaluation, attempt, sample, model, published>>

----------------------------------------------------------------------------
\* releases derive --int8

\* A record to decide again; the examples are attested.
Record(c) == [inputs |-> c.inputs, attested |-> c.origin = "gold"]
BaseRecords == [n \in DOMAIN base |-> Record(base[n])]
OwnRecords == LET rows == Rows
              IN  [n \in 1..(Len(rows) - Len(base)) |-> Record(rows[Len(base) + n].case)]

\* The adversarial datasets on the release's dataset that the cache still has: the release's
\* own, or one of another training of the same dataset.  What other files there are is skipped.
Held == SUBSET {"own", "another"}

\* _adversarial_sidecar: the one the cache's record of the function pins, or, when that record
\* is of another dataset or gone, the only one held.  {}: the derivation is refused.
Sidecars(pinned, held) ==
  CASE pinned = "nothing" -> {"none"}
    [] pinned \in {"own", "another"} -> {pinned} \cap held
    [] pinned = "unknown" -> IF held = {} THEN {"none"}
                             ELSE IF Cardinality(held) = 1 THEN held ELSE {}
Found == UNION {Sidecars(pinned, held) :
                  pinned \in {"own", "another", "nothing", "unknown"}, held \in Held}

\* verification_records.  One case stands for the adversarial dataset of another training.
Records(sidecar) ==
  CASE sidecar = "none" -> {BaseRecords}
    [] sidecar = "own" -> {BaseRecords \o OwnRecords}
    [] sidecar = "another" -> {Append(BaseRecords, [inputs |-> i, attested |-> FALSE]) :
                                 i \in Inputs}

Changed(q, records) ==
  {n \in DOMAIN records : Decision(q, records[n].inputs) # Decision(release, records[n].inputs)}
Attested(records) == {n \in DOMAIN records : records[n].attested}

\* Mutant: the rate alone decides.
AcceptsRate(q, records) ==
  ~Exceeds(Count(Changed(q, records)), Len(records), ChangeRate)

\* The quantization gate, but for calibration.
Accepts(q, records) ==
  /\ Count(Changed(q, records) \cap Attested(records)) <= AttestedChanges
  /\ ~Exceeds(Count(Changed(q, records)), Len(records), ChangeRate)

DeriveInt8(q, records) ==
  /\ phase = "published" /\ Accepts(q, records)
  /\ int8' = q /\ phase' = "derived"
  /\ UNCHANGED <<data, evaluation, attempt, sample, model, release>>

\* The gate refuses, or the records cannot be told.
RefuseInt8 ==
  /\ phase = "published" /\ phase' = "refused"
  /\ UNCHANGED <<data, evaluation, attempt, sample, model, published>>

Init ==
  /\ DataInit
  /\ attempt = 0 /\ sample = {} /\ answers = NoRelease /\ ece = "within"
  /\ release = NoRelease /\ int8 = NoRelease

Gather == DataStep /\ UNCHANGED <<attempt, sample, model, published>>

Next ==
  \/ Gather \/ Assemble \/ Retry \/ Train
  \/ Passes \/ FailsNarrowly \/ Fails
  \/ phase = "published" /\ \E sidecar \in Found :
       \E records \in Records(sidecar), q \in Models : DeriveInt8(q, records)
  \/ RefuseInt8

Spec == Init /\ [][Next]_vars

----------------------------------------------------------------------------
\* Properties

Ended == {"failed", "unloadable", "one-group", "leak", "derived", "refused"}
Phases == {"compile", "compiled", "base", "boundary", "pairs", "corpus", "train", "verify", "published"} \cup Ended

\* Every variable keeps its type, no more cases are drawn than asked for, rows are held out by
\* their positions, and no more seeds are tried than the run was given.
TypeOK ==
  /\ base \in Seq(Cases) /\ Len(base) <= Total
  /\ compiled = <<>> \/ DOMAIN compiled = DOMAIN constraints
  /\ boundary \in Seq([false : Cases, true : Cases]) /\ Len(boundary) <= Len(constraints)
  /\ pairs \in Seq([source : Synthetic, twin : Cases]) /\ skipped \subseteq Synthetic
  /\ phase \in Phases /\ evaluation \subseteq DOMAIN Rows
  /\ attempt \in 0..Attempts /\ sample \subseteq Inputs
  /\ ece \in Calibrations
  /\ \A m \in {answers, release, int8} : m = NoRelease \/ m \in Models

\* What generation publishes, it reads back, and training accepts: the check for leaks between
\* the two parts of the split, which knows only canonical texts, refuses a corpus only when a language model labelled one input twice in the base
\* dataset, or spelled an input otherwise than an example does.  The checks of the adversarial
\* cases and the merging of groups are there to rule out all the rest.
CorpusAccepted ==
  /\ phase # "unloadable"
  /\ phase = "leak" =>
       /\ ~Teacher("constraints")
       /\ \/ \E n, m \in DOMAIN base :
               base[n].inputs = base[m].inputs /\ base[n].output # base[m].output
          \/ LET rows == Rows
             IN  \E n, m \in DOMAIN rows :
                   /\ rows[n].case.inputs = rows[m].case.inputs
                   /\ rows[n].case.spelling # rows[m].case.spelling

\* The split never parts a counterfactual twin from its source or one side of a boundary from
\* the other, and never takes an example away from training.
PairsTogether ==
  LET rows == Rows
  IN  \A n \in evaluation :
        /\ \A m \in DOMAIN rows : rows[n].group = rows[m].group => m \in evaluation
        /\ \A m \in GoldRows : ~SameBytes(rows[n].case, base[m])

\* An anchor the constraints teacher let through gets its twin when its turn comes, whatever
\* cases were accepted meanwhile; one is given up only where an edit of it may change several
\* JSON paths at once, which is where an input is a union of object types.
AnchorsKeepTwins ==
  Teacher("constraints") =>
    \A n \in skipped : \E j \in Moves(base[n].inputs) : ChangedPaths(base[n].inputs, j) > 1

\* A predicate the compilation accepts comes to a truth value on every input of the function's
\* schema, or fails in arithmetic: it never meets a value of a kind it cannot use, or a member
\* or an item that is not there.
CompiledEvaluates ==
  phase = "compiled" =>
    \A k \in DOMAIN compiled, i \in Inputs : compiled[k][i] \in {"true", "false", "non-finite"}

\* What is published answers every example, and breaks constraints on the rows and on the
\* held-out sample of the first seed no more often than the tolerance allows, whichever
\* attempt it is and whatever the attempts before it were.
ReleaseMeetsContract ==
  release # NoRelease =>
    /\ \A n \in GoldRows : Decision(release, base[n].inputs) = base[n].output
    /\ ~Exceeds(Count(Violations(release)), Len(Rows), Tolerance)
    /\ ~Exceeds(Count(Broken(release)), Count(sample), Tolerance)

\* Another seed is tried only after an attempt that answered every example, and is measured on
\* the sample that attempt was measured on.
RetrySound ==
  [][attempt > 0 /\ attempt' # attempt => Missed(answers) = {} /\ sample' = sample]_vars

\* With no disagreement attested, the derived int8 model answers every example as written,
\* though the derivation compares it with the release only, and on whatever records it finds.
GoldSurvives ==
  int8 # NoRelease /\ AttestedChanges = 0 =>
    \A n \in GoldRows : Decision(int8, base[n].inputs) = base[n].output
=============================================================================
