------------------------ MODULE Verification_proofs ------------------------
(***************************************************************************)
(* What a release and a retry rest on, for every declaration, teacher,     *)
(* input space, seed count and tolerance.                                  *)
(***************************************************************************)
EXTENDS CompiledPredicates, TrainingData_proofs, Predicates_proofs, TLAPS

Gathering == {"compile", "compiled", "base", "boundary", "pairs"}
After == {"published", "derived", "refused"}

\* What is asked of a model that is published.
Meets(m) ==
  /\ \A n \in GoldRows : Decision(m, base[n].inputs) = base[n].output
  /\ ~Exceeds(Count(Violations(m)), Len(Rows), Tolerance)
  /\ ~Exceeds(Count(Broken(m)), Count(sample), Tolerance)

\* The constraints a decision breaks do not change once the data is gathered.
LEMMA ViolatedKept ==
  ASSUME UNCHANGED data PROVE \A i, l : Violated(i, l)' = Violated(i, l)
PROOF
<1>1. compiled' = compiled /\ function' = function
  BY DEF data
<1>2. \A k, l : Breaks(k, l)' <=> Breaks(k, l)
  BY <1>1 DEF Breaks, constraints
<1> QED  BY <1>1, <1>2 DEF Violated

\* Nor what a model decides, which is what it answers to the text of an input.
LEMMA DecisionKept ==
  ASSUME UNCHANGED data PROVE \A m, i : Decision(m, i)' = Decision(m, i)
PROOF
<1>1. function' = function
  BY DEF data
<1>2. \A i : Text(i)' = Text(i)
  BY <1>1 DEF Text
<1> QED  BY <1>2 DEF Decision

\* Nor, while a model stays, the examples it misses.
LEMMA MissedKept ==
  ASSUME UNCHANGED data, answers' = answers PROVE Missed(answers)' = Missed(answers)
PROOF
<1>1. \A i : Decision(answers, i)' = Decision(answers, i)
  BY DecisionKept DEF Decision
<1>2. base' = base
  BY DEF data
<1> QED  BY <1>1, <1>2 DEF Missed, GoldRows

\* A release that stays meets what it met before.
LEMMA MeetsKept ==
  ASSUME UNCHANGED data, sample' = sample, release' = release, Meets(release)
  PROVE  Meets(release)'
PROOF
<1>1. Rows' = Rows
  BY RowsKept
<1>2. \A i, l : Violated(i, l)' = Violated(i, l)
  BY ViolatedKept
<1>3. base' = base
  BY DEF data
<1>4. \A i : Decision(release, i)' = Decision(release, i)
  BY DecisionKept DEF Decision
<1>5. Violations(release)' = Violations(release)
  BY <1>1, <1>2, <1>4 DEF Violations
<1>6. Broken(release)' = Broken(release)
  BY <1>2, <1>4 DEF Broken
<1>7. \A n \in GoldRows' : Decision(release, base[n].inputs)' = base[n].output
  BY <1>3, <1>4 DEF Meets, GoldRows
<1>8. /\ ~Exceeds(Count(Violations(release)'), Len(Rows'), Tolerance)
      /\ ~Exceeds(Count(Broken(release)'), Count(sample'), Tolerance)
  BY <1>1, <1>5, <1>6 DEF Meets
<1> QED  BY <1>3, <1>7, <1>8 DEF Meets, GoldRows, Exceeds, Count

\* The released answers meet what the trained model's met.
LEMMA MeetsTaken ==
  ASSUME UNCHANGED data, sample' = sample, release' = answers, Meets(answers)
  PROVE  Meets(release)'
PROOF
<1>1. Rows' = Rows
  BY RowsKept
<1>2. \A i, l : Violated(i, l)' = Violated(i, l)
  BY ViolatedKept
<1>3. base' = base
  BY DEF data
<1>4. \A i : Decision(release, i)' = Decision(answers, i)
  BY DecisionKept DEF Decision
<1>5. Violations(release)' = Violations(answers)
  BY <1>1, <1>2, <1>4 DEF Violations
<1>6. Broken(release)' = Broken(answers)
  BY <1>2, <1>4 DEF Broken
<1>7. \A n \in GoldRows' : Decision(release, base[n].inputs)' = base[n].output
  BY <1>3, <1>4 DEF Meets, GoldRows
<1>8. /\ ~Exceeds(Count(Violations(release)'), Len(Rows'), Tolerance)
      /\ ~Exceeds(Count(Broken(release)'), Count(sample'), Tolerance)
  BY <1>1, <1>5, <1>6 DEF Meets
<1> QED  BY <1>3, <1>7, <1>8 DEF Meets, GoldRows, Exceeds, Count

\* Nothing is released before the verification passes, no attempt is made before the data is
\* there, and a retry follows an attempt without a missed example.
Inv ==
  /\ phase \in Gathering => attempt = 0
  /\ phase \notin After => release = NoRelease
  /\ phase \in After => Meets(release)
  /\ phase = "corpus" /\ attempt > 0 => Missed(answers) = {}

\* Gathering the data ends in a corpus or in failure.
LEMMA GatherPhases ==
  ASSUME DataStep PROVE phase \in Gathering /\ phase' \in Gathering \cup {"corpus", "failed", "unloadable"}
PROOF
<1>1. CASE Compile \/ CompileFails \/ Begin
  BY <1>1 DEF Compile, CompileFails, Begin, Gathering
<1>2. CASE \E i \in Inputs, l \in Labels : Draw(i, l)
  BY <1>2 DEF Draw, Gathering
<1>3. CASE BaseComplete \/ DrawFails
  BY <1>3 DEF BaseComplete, DrawFails, Gathering
<1>4. CASE phase = "boundary" /\ \E no, yes \in Proposals : AddBoundary(no, yes)
  BY <1>4 DEF AddBoundary, Gathering
<1>5. CASE BoundaryFails \/ BoundariesComplete
  BY <1>5 DEF BoundaryFails, BoundariesComplete, Gathering
<1>6. CASE \E n \in Synthetic, c \in UNION {Twins(m) : m \in Synthetic} : AddPair(n, c)
  BY <1>6 DEF AddPair, Gathering
<1>7. CASE \E n \in Synthetic : SkipAnchor(n)
  BY <1>7 DEF SkipAnchor, Gathering
<1>8. CASE PairsEnd
  BY <1>8 DEF PairsEnd, Gathering
<1> QED  BY <1>1, <1>2, <1>3, <1>4, <1>5, <1>6, <1>7, <1>8 DEF DataStep

\* Splitting the corpus leads to training or to a refusal, and leaves the data alone.
LEMMA PreparePhases ==
  ASSUME Prepare
  PROVE  phase = "corpus" /\ phase' \in {"one-group", "leak", "train"} /\ UNCHANGED data
PROOF
  BY DEF Prepare

\* An attempt that fails narrowly missed no example.
LEMMA NarrowMissesNothing == ASSUME Narrow PROVE Missed(answers) = {}
PROOF
<1> DEFINE Failed(g) ==
      CASE g = "examples" -> Missed(answers) # {}
        [] g = "constraints" -> Exceeds(Count(Violations(answers)), Len(Rows), Tolerance)
        [] g = "held-out" -> Exceeds(Count(Broken(answers)), Count(sample), Tolerance)
        [] g = "ece" -> ece # "within"
<1>1. "examples" \in FailedGates <=> Failed("examples")
  BY DEF FailedGates
<1>2. Failed("examples") <=> Missed(answers) # {}
  OBVIOUS
<1> QED  BY <1>1, <1>2 DEF Narrow

\* A model that fails no gate meets the contract.
LEMMA NoGateFailed == ASSUME FailedGates = {} PROVE Meets(answers)
PROOF
<1> DEFINE Failed(g) ==
      CASE g = "examples" -> Missed(answers) # {}
        [] g = "constraints" -> Exceeds(Count(Violations(answers)), Len(Rows), Tolerance)
        [] g = "held-out" -> Exceeds(Count(Broken(answers)), Count(sample), Tolerance)
        [] g = "ece" -> ece # "within"
<1>1. \A g \in {"examples", "constraints", "held-out", "ece"} : ~Failed(g)
  BY DEF FailedGates
<1>2. Missed(answers) = {}
  BY <1>1
<1>3. /\ ~Exceeds(Count(Violations(answers)), Len(Rows), Tolerance)
      /\ ~Exceeds(Count(Broken(answers)), Count(sample), Tolerance)
  BY <1>1
<1> QED  BY <1>2, <1>3 DEF Meets, Missed

\* The invariant holds of every run's start and of every step.
LEMMA InvInit == Init => Inv
PROOF
  BY DEF Init, DataInit, Inv, Gathering, After, NoRelease

\* Each step keeps the invariant.
LEMMA InvStep == Inv /\ [Next]_vars => Inv'
PROOF
<1> SUFFICES ASSUME Inv, [Next]_vars PROVE Inv'
  OBVIOUS
<1>1. CASE Gather
  <2>1. phase \in Gathering /\ phase' \in Gathering \cup {"corpus", "failed", "unloadable"}
    BY <1>1, GatherPhases DEF Gather
  <2>2. attempt' = attempt /\ release' = release
    BY <1>1 DEF Gather, published
  <2> QED  BY <2>1, <2>2 DEF Inv, Gathering, After
<1>2. CASE Assemble \/ Retry
  <2>1. phase = "corpus" /\ phase' \in {"one-group", "leak", "train"}
    BY <1>2, PreparePhases DEF Assemble, Retry
  <2>2. release' = release
    BY <1>2 DEF Assemble, Retry, published
  <2> QED  BY <2>1, <2>2 DEF Inv, Gathering, After
<1>3. CASE Train
  BY <1>3 DEF Train, Inv, Gathering, After, published
<1>4. CASE Passes
  <2>1. Meets(answers)
    BY <1>4, NoGateFailed DEF Passes
  <2>2. UNCHANGED data /\ sample' = sample /\ release' = answers
    BY <1>4 DEF Passes
  <2>3. Meets(release)'
    BY <2>1, <2>2, MeetsTaken
  <2>4. phase' = "published"
    BY <1>4 DEF Passes
  <2> QED  BY <2>3, <2>4 DEF Inv, Gathering, After
<1>5. CASE FailsNarrowly
  <2>1. Missed(answers) = {}
    BY <1>5, NarrowMissesNothing DEF FailsNarrowly
  <2>2. phase = "verify" /\ phase' = "corpus" /\ release' = release
    BY <1>5 DEF FailsNarrowly, published
  <2>3. UNCHANGED data /\ answers' = answers
    BY <1>5 DEF FailsNarrowly, model
  <2>4. Missed(answers)' = {}
    BY <2>1, <2>3, MissedKept
  <2> QED  BY <2>2, <2>4 DEF Inv, Gathering, After
<1>6. CASE Fails
  BY <1>6 DEF Fails, Inv, Gathering, After, published
<1>7. CASE phase = "published" /\ \E sidecar \in Found :
            \E records \in Records(sidecar), q \in Models : DeriveInt8(q, records)
  <2>1. phase = "published" /\ phase' = "derived" /\ release' = release
    BY <1>7 DEF DeriveInt8
  <2>2. UNCHANGED data /\ sample' = sample
    BY <1>7 DEF DeriveInt8
  <2>3. Meets(release)
    BY <2>1 DEF Inv, After
  <2>4. Meets(release)'
    BY <2>1, <2>2, <2>3, MeetsKept
  <2> QED  BY <2>1, <2>4 DEF Inv, Gathering, After
<1>8. CASE RefuseInt8
  <2>1. phase = "published" /\ phase' = "refused" /\ release' = release
    BY <1>8 DEF RefuseInt8, published
  <2>2. UNCHANGED data /\ sample' = sample
    BY <1>8 DEF RefuseInt8
  <2>3. Meets(release)
    BY <2>1 DEF Inv, After
  <2>4. Meets(release)'
    BY <2>1, <2>2, <2>3, MeetsKept
  <2> QED  BY <2>1, <2>4 DEF Inv, Gathering, After
<1>9. CASE UNCHANGED vars
  <2>1. UNCHANGED data /\ UNCHANGED <<phase, attempt, sample, answers, release>>
    BY <1>9 DEF vars
  <2>2. phase \in After => Meets(release)'
    BY <2>1, MeetsKept DEF Inv
  <2>3. Missed(answers)' = Missed(answers)
    BY <2>1, MissedKept
  <2> QED  BY <2>1, <2>2, <2>3 DEF Inv
<1> QED  BY <1>1, <1>2, <1>3, <1>4, <1>5, <1>6, <1>7, <1>8, <1>9 DEF Next

\* The steps after the data is gathered.
Later == \/ Assemble \/ Retry \/ Train \/ Passes \/ FailsNarrowly \/ Fails
         \/ phase = "published" /\ \E sidecar \in Found :
              \E records \in Records(sidecar), q \in Models : DeriveInt8(q, records)
         \/ RefuseInt8

\* They leave the data alone, and what is held out as well, but for the splits.
LEMMA LaterKeeps ==
  ASSUME Later
  PROVE  /\ UNCHANGED data
         /\ phase \in {"corpus", "train", "verify", "published"}
         /\ phase' \in {"one-group", "leak", "train", "verify", "published", "corpus", "failed",
                       "derived", "refused"}
         /\ Prepare \/ (evaluation' = evaluation /\ phase' # "leak")
PROOF
<1>1. CASE Assemble \/ Retry
  <2>1. Prepare
    BY <1>1 DEF Assemble, Retry
  <2> QED  BY <2>1, PreparePhases
<1>2. CASE Train
  BY <1>2 DEF Train
<1>3. CASE Passes \/ FailsNarrowly \/ Fails
  BY <1>3 DEF Passes, FailsNarrowly, Fails
<1>4. CASE phase = "published" /\ \E sidecar \in Found :
             \E records \in Records(sidecar), q \in Models : DeriveInt8(q, records)
  BY <1>4 DEF DeriveInt8
<1>5. CASE RefuseInt8
  BY <1>5 DEF RefuseInt8
<1> QED  BY <1>1, <1>2, <1>3, <1>4, <1>5 DEF Later

\* The data, what is held out of the corpus, and why a corpus is refused.
DataFacts == DataInv /\ SplitSound /\ (phase = "leak" => LeakExplained)

\* They hold of every run's start.
LEMMA DataFactsInit == Init => DataFacts
PROOF
<1> SUFFICES ASSUME Init PROVE DataFacts
  OBVIOUS
<1>1. DataInv /\ evaluation = {} /\ phase # "leak"
  BY DataStarts DEF Init, DataInit
<1> QED  BY <1>1 DEF DataFacts, SplitSound, Closed

\* Every step keeps them.
LEMMA DataFactsStep == DataFacts /\ [Next]_vars => DataFacts'
PROOF
<1> SUFFICES ASSUME DataFacts, [Next]_vars PROVE DataFacts'
  OBVIOUS
<1>1. CASE Gather
  <2>1. DataStep
    BY <1>1 DEF Gather
  <2>2. DataInv'
    BY <2>1, DataStepKeeps DEF DataFacts
  <2>3. evaluation = {} /\ evaluation' = {}
    BY <2>1, GatherPhases, GatherKeeps DEF DataFacts, DataInv, Shape, Gathering
  <2>4. phase' # "leak"
    BY <2>1, GatherPhases DEF Gathering
  <2> QED  BY <2>2, <2>3, <2>4 DEF DataFacts, SplitSound, Closed
<1>2. CASE Later
  <2>1. /\ UNCHANGED data
        /\ phase \in {"corpus", "train", "verify", "published"}
        /\ phase' \in {"one-group", "leak", "train", "verify", "published", "corpus", "failed",
                      "derived", "refused"}
        /\ Prepare \/ (evaluation' = evaluation /\ phase' # "leak")
    BY <1>2, LaterKeeps
  <2>2. Sound'
    BY <2>1, SoundKept DEF DataFacts, DataInv
  <2>3. Shape'
    <3>1. function \in Followed
      BY <2>1 DEF DataFacts, DataInv, Shape
    <3> QED  BY <2>1, <3>1 DEF Shape, data
  <2>4. CASE Prepare
    <3>1. SplitSound'
      BY <2>4, PrepareSplits DEF DataFacts
    <3>2. phase' = "leak" => LeakExplained'
      BY <2>1, <2>4, PrepareExplains, SplitKept DEF DataFacts
    <3> QED  BY <2>2, <2>3, <3>1, <3>2 DEF DataFacts, DataInv
  <2>5. CASE evaluation' = evaluation /\ phase' # "leak"
    BY <2>1, <2>2, <2>3, <2>5, SplitKept DEF DataFacts, DataInv
  <2> QED  BY <2>1, <2>4, <2>5
<1>3. CASE UNCHANGED vars
  <2>1. UNCHANGED data /\ UNCHANGED evaluation /\ phase' = phase
    BY <1>3 DEF vars
  <2>2. Sound'
    BY <2>1, SoundKept DEF DataFacts, DataInv
  <2>3. Wanted' = Wanted /\ Gold' = Gold /\ constraints' = constraints
    BY <2>1 DEF Wanted, Synthetic, Gold, constraints, data
  <2>4. Shape'
    BY <2>1, <2>3 DEF Shape, DataFacts, DataInv, data
  <2> QED  BY <2>1, <2>2, <2>4, SplitKept DEF DataFacts, DataInv
<1> QED  BY <1>1, <1>2, <1>3 DEF Next, Later

\* They hold throughout.
LEMMA DataFactsHold == Spec => []DataFacts
PROOF
  BY DataFactsInit, DataFactsStep, PTL DEF Spec

\* A model read before is one still, while the function stays.
LEMMA ModelsKept == ASSUME function' = function PROVE Models' = Models /\ Inputs' = Inputs
PROOF
<1>1. Inputs' = Inputs
  BY DEF Inputs
<1>2. \A i : Text(i)' = Text(i)
  BY DEF Text
<1> QED  BY <1>1, <1>2 DEF Models

\* The attempts, the sample and the models.
Trained ==
  /\ phase \in Phases /\ attempt \in 0..Attempts
  /\ phase = "corpus" => attempt < Attempts
  /\ sample \subseteq Inputs /\ ece \in Calibrations
  /\ answers = NoRelease \/ answers \in Models
  /\ phase \in {"verify"} \cup After => answers \in Models
  /\ release = NoRelease \/ release \in Models
  /\ int8 = NoRelease \/ int8 \in Models
  /\ phase \in Gathering => attempt = 0

\* They are as they should at the start.
LEMMA TrainedInit == Init => Trained
PROOF
  BY VerificationAssumption DEF Init, DataInit, Trained, Phases, Calibrations, After, Gathering

\* Every step keeps them so.
LEMMA TrainedStep == Trained /\ [Next]_vars => Trained'
PROOF
<1> SUFFICES ASSUME Trained, [Next]_vars PROVE Trained'
  OBVIOUS
<1>1. CASE Gather
  <2>1. /\ phase \in Gathering /\ phase' \in Gathering \cup {"corpus", "failed", "unloadable"}
        /\ function' = function
    BY <1>1, GatherPhases, GatherKeeps DEF Gather
  <2>2. attempt = 0 /\ 0 < Attempts
    BY <2>1, VerificationAssumption DEF Trained
  <2>3. /\ attempt' = attempt /\ sample' = sample /\ answers' = answers /\ ece' = ece
        /\ release' = release /\ int8' = int8
    BY <1>1 DEF Gather, model, published
  <2>4. Models' = Models /\ Inputs' = Inputs
    BY <2>1, ModelsKept
  <2> QED  BY <2>1, <2>2, <2>3, <2>4 DEF Trained, Phases, Ended, Gathering, After
<1>2. CASE Later
  <2>1. UNCHANGED data /\ function' = function
    BY <1>2, LaterKeeps DEF data
  <2>2. Models' = Models /\ Inputs' = Inputs
    BY <2>1, ModelsKept
  <2>3. CASE Assemble
    <3>1. attempt = 0 /\ attempt' = 1 /\ phase' \in {"one-group", "leak", "train"} /\ 1 <= Attempts
      BY <2>3, PreparePhases, VerificationAssumption DEF Assemble
    <3>2. sample' \subseteq Inputs
      BY <2>3 DEF Assemble, Samples
    <3>3. answers' = answers /\ ece' = ece /\ release' = release /\ int8' = int8
      BY <2>3 DEF Assemble, model, published
    <3> QED
      BY <3>1, <3>2, <3>3, <2>2, VerificationAssumption DEF Trained, Phases, Ended, Gathering, After
  <2>4. CASE Retry
    <3>1. /\ phase = "corpus" /\ phase' \in {"one-group", "leak", "train"}
          /\ attempt' = attempt + 1 /\ sample' = sample
      BY <2>4, PreparePhases DEF Retry
    <3>2. answers' = answers /\ ece' = ece /\ release' = release /\ int8' = int8
      BY <2>4 DEF Retry, model, published
    <3>3. attempt + 1 \in 0..Attempts
      BY <3>1, VerificationAssumption DEF Trained
    <3> QED  BY <3>1, <3>2, <3>3, <2>2 DEF Trained, Phases, Ended, Gathering, After
  <2>5. CASE Train
    <3>1. /\ phase' = "verify" /\ answers' \in Models /\ ece' \in Calibrations
          /\ attempt' = attempt /\ sample' = sample /\ release' = release /\ int8' = int8
      BY <2>5 DEF Train, published
    <3> QED  BY <3>1, <2>2 DEF Trained, Phases, Ended, Gathering, After
  <2>6. CASE Passes
    <3>1. /\ phase = "verify" /\ phase' = "published" /\ release' = answers
          /\ attempt' = attempt /\ sample' = sample /\ int8' = int8
          /\ answers' = answers /\ ece' = ece
      BY <2>6 DEF Passes, model
    <3> QED  BY <3>1, <2>2 DEF Trained, Phases, Ended, Gathering, After
  <2>7. CASE FailsNarrowly \/ Fails
    <3>1. /\ phase = "verify" /\ phase' \in {"corpus", "failed"}
          /\ phase' = "corpus" => attempt < Attempts
          /\ attempt' = attempt /\ sample' = sample /\ release' = release /\ int8' = int8
          /\ answers' = answers /\ ece' = ece
      BY <2>7 DEF FailsNarrowly, Fails, SeedLeft, model, published
    <3> QED  BY <3>1, <2>2 DEF Trained, Phases, Ended, Gathering, After
  <2>8. CASE phase = "published" /\ \E sidecar \in Found :
               \E records \in Records(sidecar), q \in Models : DeriveInt8(q, records)
    <3>1. /\ phase = "published" /\ phase' = "derived" /\ int8' \in Models
          /\ attempt' = attempt /\ sample' = sample /\ release' = release
          /\ answers' = answers /\ ece' = ece
      BY <2>8 DEF DeriveInt8, model
    <3> QED  BY <3>1, <2>2 DEF Trained, Phases, Ended, Gathering, After
  <2>9. CASE RefuseInt8
    <3>1. /\ phase = "published" /\ phase' = "refused"
          /\ attempt' = attempt /\ sample' = sample /\ release' = release /\ int8' = int8
          /\ answers' = answers /\ ece' = ece
      BY <2>9 DEF RefuseInt8, model, published
    <3> QED  BY <3>1, <2>2 DEF Trained, Phases, Ended, Gathering, After
  <2> QED  BY <1>2, <2>3, <2>4, <2>5, <2>6, <2>7, <2>8, <2>9 DEF Later
<1>3. CASE UNCHANGED vars
  <2>1. /\ function' = function /\ phase' = phase /\ attempt' = attempt /\ sample' = sample
        /\ answers' = answers /\ ece' = ece /\ release' = release /\ int8' = int8
    BY <1>3 DEF vars, data
  <2>2. Models' = Models /\ Inputs' = Inputs
    BY <2>1, ModelsKept
  <2> QED  BY <2>1, <2>2 DEF Trained
<1> QED  BY <1>1, <1>2, <1>3 DEF Next, Later

\* The records a derived model is measured on start with the base dataset's.
LEMMA RecordsStart ==
  ASSUME Datasets, NEW sidecar \in Found, NEW records \in Records(sidecar)
  PROVE  /\ IsFiniteSet(DOMAIN records)
         /\ \A n \in DOMAIN base : n \in DOMAIN records /\ records[n] = Record(base[n])
PROOF
<1> DEFINE Kept == {Record(base[n]) : n \in DOMAIN base}
                  \cup {Record(Rows[n].case) : n \in DOMAIN Rows}
                  \cup {[inputs |-> i, attested |-> FALSE] : i \in Inputs}
<1>1. /\ Len(Rows) \in Nat /\ DOMAIN Rows = 1..Len(Rows)
      /\ Len(base) \in Nat /\ DOMAIN base = 1..Len(base) /\ Len(base) <= Len(Rows)
  BY CorpusRows
<1>2. /\ BaseRecords \in Seq(Kept) /\ Len(BaseRecords) = Len(base)
      /\ \A n \in DOMAIN base : BaseRecords[n] = Record(base[n])
  <2>1. \A n \in DOMAIN base : Record(base[n]) \in Kept
    OBVIOUS
  <2> HIDE DEF Kept
  <2> QED  BY <2>1, <1>1 DEF BaseRecords
<1>3. OwnRecords \in Seq(Kept)
  <2>1. Len(Rows) - Len(base) \in Nat
    BY <1>1
  <2>2. \A n \in 1..(Len(Rows) - Len(base)) : Len(base) + n \in DOMAIN Rows
    BY <1>1
  <2>3. \A n \in 1..(Len(Rows) - Len(base)) : Record(Rows[Len(base) + n].case) \in Kept
    BY <2>2
  <2> HIDE DEF Kept
  <2> QED  BY <2>1, <2>3 DEF OwnRecords
<1>4. sidecar \in {"none", "own", "another"}
  <2>1. PICK pinned \in {"own", "another", "nothing", "unknown"}, held \in Held :
          sidecar \in Sidecars(pinned, held)
    BY DEF Found
  <2>2. held \subseteq {"own", "another"}
    BY DEF Held
  <2> QED  BY <2>1, <2>2 DEF Sidecars
<1>5. \E rest \in Seq(Kept) : records = BaseRecords \o rest
  <2>1. CASE sidecar = "none"
    <3>1. records = BaseRecords
      BY <2>1 DEF Records
    <3>2. BaseRecords = BaseRecords \o <<>> /\ <<>> \in Seq(Kept)
      BY <1>2, ConcatEmptySeq
    <3> QED  BY <3>1, <3>2
  <2>2. CASE sidecar = "own"
    BY <2>2, <1>3 DEF Records
  <2>3. CASE sidecar = "another"
    <3>1. PICK i \in Inputs : records = Append(BaseRecords, [inputs |-> i, attested |-> FALSE])
      BY <2>3 DEF Records
    <3> DEFINE one == [inputs |-> i, attested |-> FALSE]
    <3>2. one \in Kept
      OBVIOUS
    <3> HIDE DEF one, Kept
    <3>3. Append(BaseRecords, one) = BaseRecords \o <<one>>
      BY <3>2, <1>2, AppendIsConcat
    <3>4. records = Append(BaseRecords, one)
      BY <3>1 DEF one
    <3>5. <<one>> \in Seq(Kept)
      BY <3>2
    <3> QED  BY <3>3, <3>4, <3>5
  <2> QED  BY <1>4, <2>1, <2>2, <2>3
<1> HIDE DEF Kept
<1>6. PICK rest \in Seq(Kept) : records = BaseRecords \o rest
  BY <1>5
<1>7. /\ records \in Seq(Kept) /\ Len(records) = Len(BaseRecords) + Len(rest) /\ Len(rest) \in Nat
      /\ \A n \in 1..(Len(BaseRecords) + Len(rest)) : records[n] =
           IF n <= Len(BaseRecords) THEN BaseRecords[n] ELSE rest[n - Len(BaseRecords)]
  BY <1>2, <1>6, ConcatProperties, LenProperties
<1>8. DOMAIN records = 1..Len(records)
  BY <1>7, LenProperties
<1>9. IsFiniteSet(DOMAIN records)
  <2>1. Len(records) \in Int
    BY <1>1, <1>2, <1>7
  <2>2. IsFiniteSet(1..Len(records))
    BY <2>1, FS_Interval
  <2> QED  BY <2>2, <1>8
<1>10. \A n \in DOMAIN base : n \in DOMAIN records /\ records[n] = Record(base[n])
  BY <1>1, <1>2, <1>7, <1>8
<1> QED  BY <1>9, <1>10

\* Whatever is published answers every example and breaks constraints no more often than
\* tolerated, whichever attempt it comes from (verification.py's gates and the seed retries).
THEOREM ReleaseContract == Spec => []ReleaseMeetsContract
PROOF
<1>1. Inv => ReleaseMeetsContract
  BY DEF Inv, Meets, ReleaseMeetsContract
<1> QED  BY <1>1, InvInit, InvStep, PTL DEF Spec

\* A retry follows an attempt that answered every example, and keeps the sample of the first
\* seed (seed_retry_decision, the attempt loop of the train command).
THEOREM RetriesSound == Spec => RetrySound
PROOF
<1>1. Inv /\ [Next]_vars =>
        [attempt > 0 /\ attempt' # attempt => Missed(answers) = {} /\ sample' = sample]_vars
  <2> SUFFICES ASSUME Inv, Next, attempt > 0, attempt' # attempt
               PROVE  Missed(answers) = {} /\ sample' = sample
    OBVIOUS
  <2>1. ~Gather /\ ~Train /\ ~Passes /\ ~FailsNarrowly /\ ~Fails /\ ~RefuseInt8
    BY DEF Gather, Train, Passes, FailsNarrowly, Fails, RefuseInt8
  <2>2. ~(\E sidecar \in Found :
            \E records \in Records(sidecar), q \in Models : DeriveInt8(q, records))
    BY DEF DeriveInt8
  <2>3. ~Assemble
    BY DEF Assemble
  <2>4. Retry
    BY <2>1, <2>2, <2>3 DEF Next
  <2>5. phase = "corpus"
    BY <2>4, PreparePhases DEF Retry
  <2> QED  BY <2>4, <2>5 DEF Retry, Inv
<1> QED  BY <1>1, InvInit, InvStep, PTL DEF Spec, RetrySound
\* No corpus that generation publishes is refused for a leak but for the two reasons a language
\* model can give, and none fails to be read back (adversarial.py, dataset.py and the check of
\* training.py against canonical leakage).
THEOREM CorpusIsAccepted == Spec => []CorpusAccepted
PROOF
<1>1. DataFacts => CorpusAccepted
  BY DEF DataFacts, DataInv, Shape, LeakExplained, CorpusAccepted
<1> QED  BY <1>1, DataFactsHold, PTL

\* The split of training.py keeps pairs together and examples in training.
THEOREM PairsStayTogether == Spec => []PairsTogether
PROOF
<1>1. ASSUME DataFacts PROVE PairsTogether
  <2>1. Datasets
    BY <1>1 DEF DataFacts, DataInv, Sound, BaseData, AdversarialData, Datasets
  <2>2. /\ DOMAIN Rows = 1..Len(Rows) /\ Len(Rows) \in Nat /\ Len(base) \in Nat
        /\ DOMAIN base = 1..Len(base) /\ Len(base) <= Len(Rows)
        /\ \A m \in DOMAIN base : Rows[m] = BaseRow(m)
    BY <2>1, CorpusRows
  <2>3. /\ evaluation \subseteq DOMAIN Rows
        /\ \A n \in evaluation : GroupNextTo(Rows, n) \subseteq evaluation
        /\ \A n \in evaluation : Rows[n].case.origin # "gold"
    BY <1>1 DEF DataFacts, SplitSound, Closed
  <2>4. ASSUME NEW n \in evaluation, NEW m \in DOMAIN Rows, Rows[m].group = Rows[n].group
        PROVE  m \in evaluation
    BY <2>3, <2>4 DEF GroupNextTo
  <2>5. ASSUME NEW n \in evaluation, NEW m \in GoldRows PROVE ~SameBytes(Rows[n].case, base[m])
    <3>1. m \in DOMAIN base /\ base[m].origin = "gold" /\ m \in DOMAIN Rows
      BY <2>2 DEF GoldRows
    <3>2. BaseRow(m).case = base[m]
      BY DEF BaseRow, Row
    <3>3. Rows[m].case = base[m]
      BY <2>2, <3>1, <3>2
    <3>4. SameBytes(Rows[n].case, base[m]) => m \in GroupNextTo(Rows, n)
      BY <3>1, <3>3 DEF GroupNextTo, SameBytes
    <3> QED  BY <2>3, <3>1, <3>3, <3>4
  <2> QED  BY <2>4, <2>5 DEF PairsTogether
<1> QED  BY <1>1, DataFactsHold, PTL

\* The constraints teacher finds a twin for every anchor it let through, but where an edit
\* changes several paths (constraints.py's sampler and adversarial.py's label conflicts).
THEOREM AnchorsGetTwins == Spec => []AnchorsKeepTwins
PROOF
<1>1. DataFacts => AnchorsKeepTwins
  BY DEF DataFacts, DataInv, Sound, AdversarialData, Skips, AnchorsKeepTwins
<1> QED  BY <1>1, DataFactsHold, PTL

\* With no disagreement attested, a model the derivation accepts decides every example as the
\* release does, whatever records it was compared on.
LEMMA AcceptedAnswers ==
  ASSUME Datasets, Meets(release), AttestedChanges = 0,
         NEW sidecar \in Found, NEW records \in Records(sidecar), NEW q, Accepts(q, records)
  PROVE  \A n \in GoldRows : Decision(q, base[n].inputs) = base[n].output
PROOF
<1> SUFFICES ASSUME NEW n \in GoldRows PROVE Decision(q, base[n].inputs) = base[n].output
  OBVIOUS
<1>1. n \in DOMAIN base /\ base[n].origin = "gold"
  BY DEF GoldRows
<1>2. n \in DOMAIN records /\ records[n] = Record(base[n]) /\ IsFiniteSet(DOMAIN records)
  BY <1>1, RecordsStart
<1>3. records[n].inputs = base[n].inputs /\ records[n].attested
  <2>1. records[n] = [inputs |-> base[n].inputs, attested |-> base[n].origin = "gold"]
    BY <1>2 DEF Record
  <2>2. (base[n].origin = "gold") = TRUE
    BY <1>1
  <2>3. records[n] = [inputs |-> base[n].inputs, attested |-> TRUE]
    BY <2>1, <2>2, Zenon
  <2> QED  BY <2>3
<1>4. Changed(q, records) \cap Attested(records) = {}
  <2> DEFINE both == Changed(q, records) \cap Attested(records)
  <2>1. both \subseteq DOMAIN records
    BY DEF Changed
  <2>2. IsFiniteSet(both)
    BY <1>2, <2>1, FS_Subset
  <2>3. Cardinality(both) \in Nat /\ (Cardinality(both) = 0 <=> both = {})
    BY <2>2, FS_CardinalityType, FS_EmptySet
  <2>4. Cardinality(both) <= 0
    BY DEF Accepts, Count
  <2> QED  BY <2>3, <2>4
<1>5. n \in Attested(records)
  BY <1>2, <1>3 DEF Attested
<1>6. Decision(q, records[n].inputs) = Decision(release, records[n].inputs)
  BY <1>2, <1>4, <1>5 DEF Changed
<1>7. Decision(release, base[n].inputs) = base[n].output
  BY DEF Meets
<1> QED  BY <1>3, <1>6, <1>7

\* A model is derived only at the end, and then answers every example.
Derived ==
  /\ phase # "derived" => int8 = NoRelease
  /\ phase = "derived" /\ AttestedChanges = 0 =>
       \A n \in GoldRows : Decision(int8, base[n].inputs) = base[n].output

\* Every step keeps it so.
LEMMA DerivedStep == Inv /\ DataFacts /\ Derived /\ [Next]_vars => Derived'
PROOF
<1> SUFFICES ASSUME Inv, DataFacts, Derived, [Next]_vars PROVE Derived'
  OBVIOUS
<1>1. CASE Gather
  <2>1. int8' = int8 /\ phase # "derived" /\ phase' # "derived"
    BY <1>1, GatherPhases DEF Gather, published, Gathering
  <2> QED  BY <2>1 DEF Derived
<1>2. CASE Assemble \/ Retry \/ Train \/ Passes \/ FailsNarrowly \/ Fails \/ RefuseInt8
  <2>1. int8' = int8
    BY <1>2 DEF Assemble, Retry, Train, Passes, FailsNarrowly, Fails, RefuseInt8, published
  <2>2. phase # "derived" /\ phase' # "derived"
    BY <1>2, PreparePhases
       DEF Assemble, Retry, Train, Passes, FailsNarrowly, Fails, RefuseInt8
  <2> QED  BY <2>1, <2>2 DEF Derived
<1>3. CASE phase = "published" /\ \E sidecar \in Found :
             \E records \in Records(sidecar), q \in Models : DeriveInt8(q, records)
  <2>9. PICK sidecar \in Found :
          \E records \in Records(sidecar), q \in Models : DeriveInt8(q, records)
    BY <1>3
  <2>1. PICK records \in Records(sidecar), q \in Models : DeriveInt8(q, records)
    BY <2>9
  <2>2. Accepts(q, records) /\ int8' = q /\ phase' = "derived" /\ UNCHANGED data
    BY <2>1 DEF DeriveInt8
  <2>3. Meets(release)
    BY <1>3 DEF Inv, After
  <2>4. Datasets
    BY DEF DataFacts, DataInv, Sound, BaseData, AdversarialData, Datasets
  <2>5. SUFFICES ASSUME AttestedChanges = 0
                 PROVE  \A n \in GoldRows' : Decision(int8, base[n].inputs)' = base'[n].output
    BY <2>2 DEF Derived
  <2>6. \A n \in GoldRows : Decision(q, base[n].inputs) = base[n].output
    BY <2>2, <2>3, <2>4, <2>5, AcceptedAnswers
  <2>7. base' = base /\ \A i : Text(i)' = Text(i)
    BY <2>2 DEF data, Text
  <2> QED  BY <2>2, <2>6, <2>7 DEF GoldRows, Decision
<1>4. CASE UNCHANGED vars
  <2>1. phase' = phase /\ int8' = int8 /\ base' = base /\ \A i : Text(i)' = Text(i)
    BY <1>4 DEF vars, data, Text
  <2> QED  BY <2>1 DEF Derived, GoldRows, Decision
<1> QED  BY <1>1, <1>2, <1>3, <1>4 DEF Next

\* Every variable keeps its type (DatasetCase and its readers in compiler/src and
\* teachers/dataset.py, the attempt loop and the releases of the train command).
THEOREM TypeCorrect == Spec => []TypeOK
PROOF
<1>1. DataFacts /\ Trained => TypeOK
  <2> SUFFICES ASSUME DataFacts, Trained PROVE TypeOK
    OBVIOUS
  <2>1. BaseData /\ AdversarialData /\ SplitSound
    BY DEF DataFacts, DataInv, Sound
  <2> QED  BY <2>1 DEF BaseData, AdversarialData, SplitSound, Trained, TypeOK
<1>2. Spec => []Trained
  BY TrainedInit, TrainedStep, PTL DEF Spec
<1> QED  BY <1>1, <1>2, DataFactsHold, PTL

\* With no disagreement attested, the derived int8 model answers every example as written
\* (releases derive --int8, which compares it with the release on the records it finds).
THEOREM GoldIsKept == Spec => []GoldSurvives
PROOF
<1>1. Init => Derived
  BY DEF Init, DataInit, Derived
<1>2. Derived => GoldSurvives
  BY DEF Derived, GoldSurvives
<1> QED  BY <1>1, <1>2, DerivedStep, InvInit, InvStep, DataFactsHold, PTL DEF Spec

\* The table of a compilation: all predicates compile, and it has what each comes to on each input.
Tabled ==
  phase = "compiled" =>
    /\ \A k \in DOMAIN constraints : PredicateCompiles(constraints[k].predicate, function.schema)
    /\ compiled = [k \in DOMAIN constraints |->
                    [i \in Inputs |-> PredicateValue(constraints[k].predicate, i)]]

\* Only the compilation leads to the phase that follows it.
LEMMA OnlyCompileCompiles == ASSUME DataStep, phase' = "compiled" PROVE Compile
PROOF
<1>1. ~CompileFails /\ ~Begin
  BY DEF CompileFails, Begin
<1>2. ~(\E i \in Inputs, l \in Labels : Draw(i, l))
  BY DEF Draw
<1>3. ~BaseComplete /\ ~DrawFails
  BY DEF BaseComplete, DrawFails
<1>4. ~(phase = "boundary" /\ \E no, yes \in Proposals : AddBoundary(no, yes))
  BY DEF AddBoundary
<1>5. ~BoundaryFails /\ ~BoundariesComplete
  BY DEF BoundaryFails, BoundariesComplete
<1>6. ~(\E n \in Synthetic, c \in UNION {Twins(m) : m \in Synthetic} : AddPair(n, c))
  BY DEF AddPair
<1>7. ~(\E n \in Synthetic : SkipAnchor(n))
  BY DEF SkipAnchor
<1>8. ~PairsEnd
  BY DEF PairsEnd
<1> QED  BY <1>1, <1>2, <1>3, <1>4, <1>5, <1>6, <1>7, <1>8 DEF DataStep

\* Every step keeps the table.
LEMMA TabledStep == Tabled /\ [Next]_vars => Tabled'
PROOF
<1> SUFFICES ASSUME Tabled, [Next]_vars, phase' = "compiled" PROVE Tabled'
  BY DEF Tabled
<1>1. CASE Gather
  <2>1. Compile
    BY <1>1, OnlyCompileCompiles DEF Gather
  <2> QED  BY <2>1 DEF Compile, Tabled, constraints, Inputs
<1>2. CASE Later
  BY <1>2, LaterKeeps
<1>3. CASE UNCHANGED vars
  <2>1. UNCHANGED <<function, compiled, phase>>
    BY <1>3 DEF vars, data
  <2> QED  BY <2>1 DEF Tabled, constraints, Inputs
<1> QED  BY <1>1, <1>2, <1>3 DEF Next, Later

\* A predicate the compilation accepts comes to a truth value on every input of the function's
\* schema, or fails in arithmetic, whatever the declarations, the types, the inputs and the
\* predicates, as long as they are types, inputs and predicates of the language
\* (compile_constraints and the evaluation of its result).
THEOREM PredicatesEvaluate ==
  ASSUME NEW S, Typed(S), NEW meaning, \A f \in Declarations : Interprets(S, meaning[f], f)
  PROVE  Spec => []CompiledEvaluates
PROOF
<1> DEFINE R == ShownBy(S.fits, S.inputTypes, S.static)
<1>1. Faithful(R) /\ \A type \in S.inputTypes : \A v :
                       <<v, type>> \in S.fits => Good(R, v, S.static[type])
  BY InputsAreShown DEF Typed
<1> HIDE DEF R
<1>2. ASSUME NEW f \in Declarations, NEW i \in InputSpace(f.schema), NEW k \in DOMAIN f.constraints,
             PredicateCompiles(f.constraints[k].predicate, f.schema)
      PROVE  PredicateValue(f.constraints[k].predicate, i) \in {"true", "false", "non-finite"}
  <2> DEFINE predicate == f.constraints[k].predicate
             E == meaning[f].expressions
             types == meaning[f].types
             values == meaning[f].values[i]
             given == Given(S, f)
  <2>1. /\ Expressions(E, meaning[f].depth) /\ Inferred(E, given, types) /\ Evaluated(E, i, values)
        /\ InputsFit(S, f) /\ Agrees(meaning[f], f, predicate)
    BY DEF Interprets
  <2>2. /\ predicate \in E /\ Require(types[predicate], {"boolean"})
        /\ PredicateValue(predicate, i) = Truth(values[predicate])
    BY <1>2, <2>1 DEF Agrees
  <2>3. \A name \in DOMAIN given : Good(R, i[name], given[name])
    BY <1>1, <2>1 DEF InputsFit, Given
  <2> HIDE DEF predicate, E, types, values, given
  <2>4. \A e \in E : types[e] # {} => Outcome(R, values[e], types[e])
    BY <1>1, <2>1, <2>3, TypesAreSound
  <2>5. Outcome(R, values[predicate], types[predicate])
    BY <2>2, <2>4 DEF Require
  <2>6. Truth(values[predicate]) \in {"true", "false", "non-finite"}
    BY <2>2, <2>5, BooleanIsDecided
  <2> QED  BY <2>2, <2>6 DEF predicate
<1>3. DataFacts /\ Tabled => CompiledEvaluates
  <2> SUFFICES ASSUME DataFacts, Tabled, phase = "compiled",
                      NEW k \in DOMAIN compiled, NEW i \in Inputs
               PROVE  compiled[k][i] \in {"true", "false", "non-finite"}
    BY DEF CompiledEvaluates
  <2>1. /\ k \in DOMAIN constraints
        /\ PredicateCompiles(constraints[k].predicate, function.schema)
        /\ compiled[k][i] = PredicateValue(constraints[k].predicate, i)
    BY DEF Tabled
  <2>2. function \in Declarations /\ i \in InputSpace(function.schema)
    BY DEF DataFacts, DataInv, Sound, BaseData, Inputs
  <2> QED  BY <1>2, <2>1, <2>2 DEF constraints
<1>4. Init => Tabled
  BY DEF Init, DataInit, Tabled
<1> QED  BY <1>3, <1>4, TabledStep, DataFactsHold, PTL DEF Spec
=============================================================================
