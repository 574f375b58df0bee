# SemantScript in TLA+

SemantScript turns typed prompts in TypeScript (`sema` sites) into small ONNX
models: a compiler finds the sites, a trainer builds a release of models for
them, and a runtime answers calls in-process. This directory specifies the
parts of it whose correctness depends on an order of events nobody wrote a test
for: threads sharing memory, promises on one chain, processes changing one
directory without a lock, a paid teacher and a cache that outlive killed runs,
and the long way of one function from its constraints to a release.

Paths below are relative to `src/`.

## 1. Inventory

| part | sources | state | operations | what makes it hard | modelled |
|---|---|---|---|---|---|
| Inference bridge | `runtime/src/inference-runtime.ts`, `inference-worker.ts`, `inference-protocol.ts` | sequence, fault, closed; control block and response buffer shared with the worker; worker backend, invocation flag | create, `call`, `callStage`, `endScope`, `close`; the worker's message handlers | two threads, `Atomics.wait`, late answers, timeouts, a worker that dies while the main thread sleeps | `InferenceRuntime`, `CallService` |
| Request scopes | `runtime/src/artifact-runtime.ts` (`withSemaScope`), `inference-worker.ts` (`keepInScope`) | runtimes of a scope; embeddings kept per scope in the worker | open, call inside, settle, evict | tensors disposed by an eviction or a late `end-scope` while in use; release after failures; calls that outlive their scope | in `InferenceRuntime` |
| Artifact lifecycle | `runtime/src/artifact-runtime.ts` | active artifact, lifecycle chain, watcher with `reloading`/`pending` | load, watched reload, close of a handle, close of the active artifact | asynchronous operations interleaved with timers and file events | `ArtifactLifecycle` |
| Artifact loader | `runtime/src/artifact-loader.ts`, `onnx-model.ts` | none | read pointer, validate, load | files changing underneath | its outcome, in `ArtifactLifecycle` |
| Release store: exporter | `trainer/.../artifact.py` | `releases/`, `.staging-*`, `current.json` | stage, publish, verify existing, point, clean up | crashes, two exporters, a concurrent prune | `ReleaseStore` |
| Release store: CLI | `cli/src/releases.ts`, `manifest.ts` | the same directory, `.pruning-*` | rollback, promote, prune | check-then-act across processes | `ReleaseStore` |
| Releases derive (int8) | `trainer/.../derive.py`, `quantization.py` | a release, the cache's datasets | find records, compare, publish | stale or missing sidecars, disagreements hidden in a rate | `Verification`, in part |
| Teacher spend and journal | `trainer/.../teacher_spend.py`, `teachers/anthropic.py`, `teachers/ollama.py` | meter, journal files, batch handles, the provider's batches | reserve, charge, store, replay, submit, resume, discard | crash between payment and record, a rejected answer that is replayed for ever | `TeacherJournal` |
| Build cache | `trainer/.../build_cache.py`, `application.py`, `cli.py` (`train_bundle`) | encoder, adapters, function records, index; releases and pointer | decide what to reuse, restore, train, retry, export, store | crash between files, edits and reverts, weights of two trainings side by side | `BuildCache` |
| Inputs and constraints | `trainer/.../constraints.py`, `case_contract.py`, `canonical_input.py`, `strict_json.py` | none | compile, evaluate, encode an input | two walks over one expression that must agree; texts that must not collide | `InputTypes`, `Predicates`, `CanonicalInput` |
| Datasets and corpus | `trainer/.../dataset.py`, `adversarial.py`, `teachers/constraints.py`, `training_contract.py`, `training.py` | the datasets of one function | draw, bound, twin, publish and read back, group, split | each case is checked against those accepted before it; groups merge over several links | `TrainingData` |
| Verification and retries | `trainer/.../verification.py`, `lifecycle.py`, `held_out.py` | attempt, sample, trained model | train, verify, retry, publish | gates over several attempts, one sample for all of them | `Verification` |
| Dispatch, confidence, fallbacks | `runtime/src/artifact-runtime.ts`, `confidence-policy.ts` | fallback invocation stack | dispatch, handle call, policy | re-entrance | no |
| Execution planner | `compiler/src/execution-plan.ts` | none | resolve dependencies, create stages | cycles, ties, minimality | no |
| Framework transactions | `framework/src/persistence.ts` | a leased connection | `transactional`, `gate` | failing queries | no |
| CLI dev loop | `cli/src/dev.ts` | timer, running, pending | schedule, drain, stop | abort and changes during a cycle | no |
| Compiler front end, model package, schemas, benchmarks | see `PROJECT.json` | none that is shared | pure or numeric | data, not control | no |

The parts meet in six places. The teacher's journal feeds the datasets
(journal -> data), which training reads back (data -> verification). The build
cache decides which functions go that way again and exports what passed
(verification -> cache -> store). The trainer writes releases that the loader
reads, through `current.json` (store -> lifecycle). The lifecycle creates and
closes inference runtimes (lifecycle -> bridge). A dispatched call runs in the
request scope of the handler that made it (scope -> bridge -> worker).

What makes each part correct is the list of properties in section 3; every
hazard found while reading, covered or not, is in `PROJECT.json`, at its line.

## 2. Modules and how they correspond to the code

### `InferenceRuntime`

One action per step that another thread can observe. `pc` is where the main
thread is inside `call` or `callStage`; a JavaScript turn that touches nothing
shared is one step.

| code | model |
|---|---|
| `createInferenceRuntime`, `initialize` | `Initialized`, `InitializationFails` |
| `#assertUsable`, input checks | `Refuse`, `RejectInput`, guard `Usable` |
| stores before `postMessage` | `BeginCall`, `BeginStage` (`Prepare`) |
| `postMessage` | `Post`, `PostFails` |
| `Atomics.wait` | `EnterWait`, `TimeOut`, woken by `Notify` |
| loads after the wait, decoding, `finally` | `Observe`, `Read` |
| `withSemaScope`, `endScope` | `OpenScope`, `SettleScope` |
| `close`, `worker.terminate()`, exit event | `Close`, `Terminate`, `NoticeExit` |
| worker `message` handler | `TakeInvoke`, `TakeEndScope`, `TakeShutdown` |
| the awaits of `OnnxBackend.invokeStage` | `Encoded`, `Adapted`, `Evaluated`, `InvocationFails` |
| `completeBytes`, store by store | `WriteBytes`, `WritePayload`, `WriteState`, `Notify` |

Abstractions: a request is a model value and its answer is the request itself,
so returning somebody else's answer is visible. All error codes that come from
the work of the call are one code. Every function has an adapter of its own
(`AfterEncoder` keys function embeddings by request). The buffer of a stage,
which the code allocates afresh, is the same variable cleared. `MaxSequence`,
`MaxStage` and `ScopeEntries` stand for 2^31-1, 64 and 64.

A call carries any scope that was opened, settled ones included: the code takes it
from AsyncLocalStorage and does not ask whether `fn` is over, so a continuation
that `fn` left behind still calls in it. `ScopeReleased` says that what a scope
kept is dropped once `fn` settles and stays dropped; such a late call is its one
exception besides close and fault, and what it keeps stays until close, because
`release` has run.

`CallService` is what the caller may rely on: one call at a time, the answer to
a call is the answer to what it asked, a failure that breaks the service is
final, every call ends. `InferenceRuntime` instantiates it with a refinement
mapping (`Service`), and `ImplementsCallService` says the bridge implements it.

### `ArtifactLifecycle`

The lifecycle chain is `queue`; its head is the operation in progress and `step`
says after which await it is. The continuation of a load's promise, where
`loadSemaArtifact` and `reload` touch the watcher, runs before the next
operation starts (`Continue`). A watcher's closure outlives the watcher
(`watch[n]` with its `reloading` and `pending`), as in JavaScript. The debounce
timer is `due`: it is set by a change and cleared by `stopWatching`. The history
variables `tried` and `shut` only serve properties.

### `ReleaseStore`

Processes share the artifact root and nothing else. Each action is one system
call on the root, or a run of calls that touch only files nobody else reads (the
staging directory while it is written). `Killed` ends a process anywhere. A
directory is absent, part or whole; a digest is its rank in `compareNewestFirst`.
A rollback that finds no target, and any read error, is covered by `Killed`:
such a process stops with the root as it is. `overlapped` is a history variable:
it remembers which commands ran during a prune, because the code promises less
then.

### `TeacherJournal`

What `semantscript train` asks a teacher for one function, from the reservation
of a request to the published datasets, over any number of runs. `stage` is the
dataset at hand, `step` the next thing the run does with the request at hand.

| code | model |
|---|---|
| rounds of `_generate_valid` | `BeginRound`, `AfterRound`, `RoundsExhausted`, `CountRound` |
| attempts and anchors of `_generate_cases` | `NextBoundary`, `NextAnchor`, `Again`, `NoAnchorLeft` |
| `SpendMeter` | `Refused`, `Send`, `Charged`, `ExpectedOutput`, `Estimate` |
| `ResponseJournal` | `Ask`, `Store`, `RecordHandle`, `Drop`, `DiscardKey` |
| message batches | `OpenBatch`, `Submit`, `Collect`, `Settle`, `Expire`, `Gone` |
| `main` around a failure | `Leave`, `Stop`, `StopRejected` |
| a kill, a provider that drops a batch | `Crash`, `Expire` |

An answer is acceptable, well formed but rejected, or malformed; which it is, and
what it costs, is the service's choice. Files are written atomically, as the code
does with a temporary file and `os.replace`. `bills`, `excuse` and `sent` are
history: what was paid for a key, why it could be paid again, and the run's own
payments.

### `BuildCache`

`train_bundle` step by step over the files of the cache. A file of weights is the
number of the training it comes from, which stands for its digest as well. A run
may stop at every step (`Crash`), and between the stores of the encoder, each
adapter, each function record and the index. `Disturb` bounds what the user does
meanwhile: edit the bundle, the settings or a depth, lose a dataset, damage a
file, or point the artifact root at an older release.

### `Predicates`, `PredicateTrees`, `InputTypes`, `CanonicalInput`

Pure operators. `Predicates` has the two walks over a constraint's expression, one
node at a time: `TypesStep` makes the static types of a node from those of its
operands (`_infer_expression_types`), `EvaluateStep` its value from theirs
(`_evaluate`); `StaticStep` makes the static types of an input type from those of
its parts, and `FitsType` says which JSON values an input type takes
(`_validate_input_value`). `PredicateTrees` is the recursion over whole types and
expressions: `Compiles` is what `compile_constraints` accepts, `Verdict` what
evaluation comes to. `InputTypes` has the values of the types, the single edits the
constraints teacher tries and the JSON paths the adversarial validator counts.
`CanonicalInput` encodes an input as the typed tree and writes the tree as either
version of the canonical text, a sequence of tokens. The last three are RECURSIVE,
so only TLC uses them; `TrainingData` takes what it needs of them as constant
operators, and `MCVerification.cfg` gives it these. `CompiledPredicates` says, in
the terms of `Predicates`, what two of these operators mean.

### `TrainingData` and `Verification`

One function, from its declaration to the end. `TrainingData` compiles the
constraints, assembles the base dataset with one of three teachers (a language
model, which may answer anything; the constraints; both, the second correcting the
first where there are constraints), one boundary pair for
each constraint and the counterfactual pairs, refuses what the code refuses, reads
every dataset back as the code does after publishing it, builds the corpus, merges
groups and splits. `Verification` adds the attempts: a model is any function from
canonical texts to labels, its calibration one of three grades; the gates,
`seed_retry_decision`, the held-out sample of the first seed, the release, and the
int8 release derived from it on the records the cache still has (`Sidecars` says
which adversarial dataset is taken, `Records` what it may hold).

A draw at random is any draw; a ranking by digest is any order. Token budgets,
byte limits and the wording of prompts are left out.

## 3. Runs

All bounds are constants of the specification and appear in the `.cfg` files.
Deadlock checking is off where the systems may stop (closed runtime, no process
left, bounds used up, a function refused or released); `teacher_journal` keeps it
on, because its finished run is a step of its own.

| run | instance | states | checks |
|---|---|---|---|
| `inference_runtime` | 2 requests on one input, stages of 2, one scope, sequence wraps at 3 | 275 k | `TypeOK`, `OwnAnswer`, `QuietBetweenCalls`, `NeverTurnedAway`, `FaultIsFinal`, `CallReturns`, `ImplementsCallService` |
| `request_scopes` | 2 requests on 2 inputs, 2 scopes, caches of one entry | 862 k | `EmbeddingsLive`, `ScopeReleased` |
| `artifact_lifecycle` | 3 loads or reloads, 2 closes, 2 pointer changes, 2 releases | 88 k | `TypeOK`, `OnlyTheActiveRuns`, `NoStrayWatcher`, `LastLoadWins`, `ChangeIsLoaded`, `HandleCloseEnds` |
| `release_store` | 2 exporters of one digest, 1 switch, 2 prunes, 3 digests, `--keep 1` | 1.3 M (symmetry) | `TypeOK`, `ReleasesWhole`, `PointerNeverDangles`, `StagingGone`, `NewestKept`, `SweptClean` |
| `teacher_journal` | teachers direct, automatic and local; 2 cases, 2 rounds, 1 constraint, 2 anchors, 2 attempts; 2 answers that are not ok, 1 failure from outside | 257 k | `TypeOK`, `PaidOnce`, `CapHolds`, `SpendCharged`, `EventuallyDone` |
| `build_cache` | 2 bundles over 3 functions and 2 domains, 2 depths, 2 seeds, 3 runs, 2 disturbances | 708 k | `TypeOK`, `RestoreNeverRefused`, `HeadsCurrent`, `HeadsVerified`, `OnlyChangedTrain`, `RunEnds` |
| `train_and_verify` | 7 functions over 3 schemas followed to the end, about 2000 predicates over a schema with every kind of input; 3 cases, 2 labels, 2 seeds | 221 k | `TypeOK`, `CompiledEvaluates`, `CorpusAccepted`, `PairsTogether`, `AnchorsKeepTwins`, `ReleaseMeetsContract`, `GoldSurvives`, `RetrySound` |
| `false_protocol_error` | as `inference_runtime` | - | `NoFalseProtocolError`, violated |
| `settled_scope` | as `inference_runtime` | - | `SettledScopeDropped`, violated |
| `close_stops_watcher` | as `artifact_lifecycle` | - | `ClosedStaysClosed`, violated |
| `prune_spares_current` | one process of each kind | - | `PruneSparesCurrent`, violated |
| `reused_release_serves` | as `build_cache`, one domain, no retry | - | `ReusedReleaseServes`, violated |

Why the bounds are enough. Two requests suffice to tell a foreign answer from
one's own, and three sequence numbers make a late answer meet a later call and
the wrap. A cache of one entry evicts at the second input. Three loads give a
load, a reload and a reload pending behind it, with closes between any two.
The journal's cap of nine blocks stops every mode on its way, two rejected answers
meet a rejected rerun of a rejected answer, and one failure from outside can fall
between any two steps. Three runs of `train` make a cache, damage it and use it;
two disturbances are an edit and its revert, or an edit and a lost or damaged
file. `Followed` names the functions that go beyond the compilation: one per kind
of teacher, one whose inputs are a union of objects (the edits that change two
paths), one whose inputs are a literal or a boolean of the same spelling (texts
that could collide), one whose example breaks a constraint. `Probe` has an object
with an optional member, an array, a tuple, an enumeration and a number, each
over two numbers and two strings; predicates are two operators deep, because a
type error needs a read below an operator. Three cases are an example, an anchor
and another case to conflict with.

`train_and_verify` also evaluates `CanonicalIsInjective`, an assumption of its
module: over every input of the four schemas the two canonical texts are
injective, as `canonical_input.py` promises. `CorpusAccepted` rests on it, since
training compares inputs by their texts. And it evaluates `RecursionInterprets`: the
recursive walks of `PredicateTrees`, on the predicates of the functions followed and
on those that compare what they read with itself, are an interpretation
(`Interprets`) as the theorem `PredicatesEvaluate` asks for.

Symmetry in `release_store` exchanges processes of one kind, which differ by
name only; it is used with invariants and step properties, never with liveness.

What the violated runs show (details in `PROJECT.json`, `findings`):

* `NoFalseProtocolError`: the worker stores the state, then notifies. The notify
  of one call can wake the wait of the next, which latches a fault on a sound
  worker.
* `SettledScopeDropped`: a scope learns of a runtime only when a call succeeds,
  so what a failing call kept in the worker is still there when `fn` settles, and
  nobody asks the worker to drop it. (Calls after `fn` settled play no part here.)
* `ClosedStaysClosed`: a load in flight starts its watcher after
  `closeSemaArtifact` stopped the old one.
* `PruneSparesCurrent`: a rollback that verified its target before a prune
  renamed it points at it after the prune's last look.
* `ReusedReleaseServes`: after an edit and its revert every function has a cached
  record, so the run retrains nothing and reports the last release, which was
  built for the edited bundle.

What the passing runs show that a reader may not expect. `CorpusAccepted` has two
exceptions, both a language model's: it may label one input twice within the base
dataset, and the strict JSON reader spells its whole numbers `1.0`, so a case
passes the duplicate checks, which compare bytes, and meets the leak check, which
compares canonical texts. `AnchorsKeepTwins` has one: inputs that are unions of
object types, which the constraints teacher edits as one leaf. Calibration and
split are made per attempt, the held-out sample once: `RetrySound` is about that.
A batch the provider accepted just before the run died is paid for twice
(`excuse` counts it), as the code's comment says.

### Fairness

* `InferenceRuntime`: the main thread runs a call to its end (`Atomics.wait` has
  a timeout, so `CallStep` is enabled until it returns); the worker's event loop
  turns (`WorkerStep`), which does not exclude that the thread dies; `close`
  ends in `terminate()`. No fairness is given to the application.
* `ArtifactLifecycle`: an operation of the chain ends, because a worker starts
  or fails within its initialization timeout and closes within five seconds;
  Node's timers fire. Nothing forces loads, closes or pointer changes.
* `TeacherJournal`: a run keeps going (`RunStep`; every request has a timeout) and
  the user starts the command again (`Start`). Crashes and bad answers are bounded
  by `MaxFaults` and `MaxBad`, which stand for "not for ever".
* `BuildCache`: a run that is not killed takes its next step (`TrainStep`).
  Nothing forces runs, edits or crashes.
* `TrainingData` and `Verification` have none; only safety is claimed.
* `ReleaseStore` has none: a process may be killed at any point, and only safety
  is claimed.

## 4. Proofs

Every component has a module of proofs beside it (`Verification_proofs` extends
`TrainingData_proofs` and `Predicates_proofs`, as the modules extend each other).
Every theorem there holds for all values of the constants that satisfy
the component's named assumptions. The bounds of the runs are constants too, so
the theorems hold for every bound. What is assumed, beyond the kinds of the
constants and that model values are distinct:

* `JournalAssumption`: there is a longest answer (a request names a `max_tokens`),
  and no more pairs are wanted than there are candidates;
* `BuildCacheAssumption`: a function belongs to a domain, a bundle is not empty,
  and "no record" is not a record;
* `TrainingDataAssumption`: examples are inputs of the schema with labels of the
  output type, there are at most as many as cases asked for, and no two examples
  give one input two answers, which the compiler refuses before the trainer starts
  (`compiler/src/definition.ts:272`);
* `InputAssumption`: an edit of an input is another input of the same schema, and
  two inputs of one schema have two canonical texts. TLC evaluates it, as all of
  them, on the schemas of the run, where `Edits`, `ChangedPaths` and `Canonical`
  are the operators of `InputTypes` and `CanonicalInput`.

`PredicatesEvaluate` has hypotheses instead, `Typed` and `Interprets`: inputs are
values of the declared types, and the types and values of every expression are those
the two walks make of its operands', node by node. What the walks do at a node is not
assumed: that is what is proved about.

The layout is the same in all modules: an inductive invariant, a conjunction of
named parts; a lemma for each action or for each part that the step keeps it; and
the properties as its consequences. A step property follows from the invariant in
the state before the step. TLC checked the strengthening parts on the instances of
section 3, or on smaller ones where an instance of the run is too large, before
they were proved.

| theorem | property | rests on |
|---|---|---|
| `InferenceRuntime_proofs!TypeCorrect` | `TypeOK` | |
| `AnswersAreOwn` | `OwnAnswer` | `InboxOK`, `JobOK`, `WritingOK`, `ControlOK` |
| `BetweenCallsQuiet` | `QuietBetweenCalls` | `InboxOK`, `JobOK`, `WritingOK` |
| `WorkerNeverRefuses` | `NeverTurnedAway` | `InboxOK`, `WritingOK`, `ControlOK` |
| `EmbeddingsOutliveUse` | `EmbeddingsLive` | `JobOK`, `InboxOK` |
| `FaultPersists` | `FaultIsFinal` | `Life` |
| `StepsAsCallService` | safety of `ImplementsCallService` | `IInv`, `Asking` |
| `ArtifactLifecycle_proofs!TypeCorrect` | `TypeOK` | |
| `OneWorker` | `OnlyTheActiveRuns` | itself |
| `WatchersReachable` | `NoStrayWatcher` | itself |
| `LoadsInOrder` | `LastLoadWins` | `InOrder`, `StepOK` |
| `ReleaseStore_proofs!TypeCorrect` | `TypeOK` | `Candidate` |
| `NeverPartial` | `ReleasesWhole` | `Intact`, `Staged`, `OneAtATime` |
| `PointerValid` | `PointerNeverDangles` | `Pointed`, `Spares`, `Apart` |
| `NoStagingLeft` | `StagingGone` | `Staged` |
| `NewestStays` | `NewestKept` | `Spares`, `Candidate` |
| `SweepCompletes` | `SweptClean` | `Listed`, `OneAtATime` |
| `TeacherJournal_proofs!TypeCorrect` | `TypeOK` | `StageSound`, `AskedSound` |
| `PaidOnceForEachReason` | `PaidOnce` | `PaidSound`, `AskedSound` |
| `SpendStaysUnderTheCap` | `CapHolds` | `SpendSound`, `BatchesSound` |
| `MeterHoldsTheSpend` | `SpendCharged` | `SpendSound` |
| `BuildCache_proofs!TypeCorrect` | `TypeOK` | `RunState`, `ModelSound` |
| `RestoreAccepted` | `RestoreNeverRefused` | `ReusedSound`, `RecordsSound` |
| `ExportsCurrentHeads` | `HeadsCurrent` | `ModelSound`, `ReusedSound` |
| `PublishesVerifiedHeads` | `HeadsVerified` | `RecordsSound`, `ModelSound` |
| `TrainsOnlyWhatChanged` | `OnlyChangedTrain` | `SettledSound`, `StoringSound` |
| `TrainingData_proofs!DataStepKeeps` | | `Sound`, `Shape` |
| `GroupIsClosed` | | |
| `Verification_proofs!TypeCorrect` | `TypeOK` | `DataFacts`, `Trained` |
| `CorpusIsAccepted` | `CorpusAccepted` | `DataFacts` |
| `PairsStayTogether` | `PairsTogether` | `DataFacts` |
| `AnchorsGetTwins` | `AnchorsKeepTwins` | `DataFacts` |
| `ReleaseContract` | `ReleaseMeetsContract` | `Inv` |
| `RetriesSound` | `RetrySound` | `Inv` |
| `GoldIsKept` | `GoldSurvives` | `Derived`, `Inv`, `DataFacts` |
| `Predicates_proofs!TypesAreSound` | | `StepIsSound` |
| `InputsAreShown` | | `LargestHolds`, `FitIsShown` |
| `Verification_proofs!PredicatesEvaluate` | `CompiledEvaluates` | `Tabled`, `DataFacts` |

**The bridge.** `OwnAnswer` speaks of the moment a call returns and says nothing
of a late answer on its way, so it is not inductive. The invariant says why one
cannot arrive: at most one invocation is under way, in the inbox (`InboxOK`), as
the job (`JobOK`) or being stored (`WritingOK`), the control block stays pending
until its state is stored, and unless the runtime has faulted that invocation is
the one of the call in progress. A timeout therefore has to latch the fault, and
the code does: without it the next call could meet the old answer. That also
makes the worker's two refusals unreachable, for every wrap of the sequence.
`Life` ties the threads' lives together (nothing is in the inbox of a worker
that is starting or gone).

`StepsAsCallService` is the refinement of `CallService` step by step, under the
mapping `Status`, `Asked`, `Ended`: preparing a call is `Ask`; reading the response
is `Answer`, `Fail` or `FailForGood`; the other ways a call ends are `FailForGood`;
all that the worker does is hidden (`HiddenSteps`). That a read value answers what
was asked is `ReadsAnswer`. What the theorem lacks of `ImplementsCallService` is the
fairness of `CallService`, that every call ends.

**The lifecycle.** Loads wait in `queue` in the order of their numbers, behind
all loads whose runtime was started; the load at the head is the one exception,
once it has swapped (`Chain`). The order is kept by appending only
(`enqueueLifecycle`); `LastLoadWins` is then the third conjunct of `Chain` at
the head.

**The store.** The key is `Spares`: every candidate of a prune is older than some
release on disk. A release leaves only as a candidate, and then a newer one
stays, so the fact survives any number of overlapping prunes, and the newest
release is never a candidate. `Pointed` needs it: a trainer points at the newest
release, and a switch cannot run during a prune (`Apart`, from the history
variable), so the pointer never meets a candidate. `Intact` shows that a rename
only ever moves whole directories.

**The journal.** A key names a request by what is asked and by how often this run
has asked it; the journal answers for a key. `PaidOnce` therefore needs to know
that a run never numbers two requests alike, and that a rerun numbers them as the
run before did: `AskedSound` bounds every occurrence number by the round or the
attempt the run is in, and `StageSound` bounds those by the configuration.
`PaidSound` says where a payment is: recorded, on its way to disk, or excused by a
crash, an expired batch or a failed write. The cap is about what is billed and the
code about an estimate before and a meter after: `SpendSound` closes the gap with
what the batch at hand still owes, and knows that a resumed or replayed batch
was not sent by this run.

**The cache.** The index, encoder, adapters and records are written one at a time,
in this order after the old ones were dropped. `StoringSound` follows the writes:
a record is stored only when the encoder and adapter it names are in place, so a
crash between any two leaves records that a later run reads as changed, or none.
`RecordsSound` is what survives every crash; `ReusedSound` and `ModelSound` tie the
records a run means to reuse to the model it builds; `SettledSound` carries what a
finished run left to the next one, for `OnlyChangedTrain`.

**The data.** `CorpusAccepted` is about a reader that repeats, on the finished
dataset, checks the writer made one case at a time against an unfinished one.
`Sound` is what the reader asks of the whole, stated of every unfinished dataset:
each boundary and each pair loads, one label per input's bytes among adversarial
cases, one pair per source. `NewCase` and `NoConflict` show that the writer's check
of one case against those before it keeps it. `AnchorsKeepTwins` is a part of `Sound`
itself (`Skips`): the label the constraints teacher gives is the only one they admit,
so `NoConflict` shows that nothing accepted before can conflict with the twin an
anchor was kept for, and `GivenUp` leaves only the edits of several paths.
What a leak needs (`LeaksAreExplained`) rests on `TaughtOnce`: that teacher and the
examples never give one input two labels.

**The split.** `GroupOf` follows links once for each row there is. `GroupIsClosed`
shows that this is often enough: each round adds a row or changes nothing, and
there are only as many rows. Then a group is an equivalence class, a prefix of the
groups holds out whole classes (`SplitsHoldGroups`), and a class with an example is
not ranked. These are facts about functions defined by recursion over the rows.
The induction theorems of the library cannot be used, but `Induction` states
induction for a set of numbers, and follows from the least number outside the set
(`Least`, from the well-founded order of the natural numbers); so the functions of
`TrainingData` are within reach of the prover, the RECURSIVE operators of other
modules are not.

**The derived release.** Quantization is compared with the release, not with the
examples, and on records found afterwards. `RecordsStart` shows that whichever
sidecar is found the base dataset comes first and in its order, so every example
is among the attested records; `AcceptedAnswers` then needs that the release
itself answers the examples in this later state, which is `Inv`.

**The release.** Its invariant is `Inv`. The gates are judged in one state and the
contract is about every later one, so `Inv` says that what met it still does:
the records, the constraints and the texts a decision depends on are functions of
the data, which nothing changes once the corpus stands (`RowsKept`,
`ViolatedKept`, `DecisionKept`), and the sample is drawn once. A retry starts from
the corpus phase, which an attempt reaches only by failing narrowly, and a missed
example is never narrow (`NarrowMissesNothing`). The theorems take the teacher,
the input space, the edits and the canonical texts as arbitrary constants: they
do not depend on the small schemas of the run.

**Predicates.** The compilation judges a predicate by types, the evaluation walks
the same expression again over values. `TypesAreSound` says the walks agree: an
expression with types comes to a value of one of them or to an arithmetic failure.
`StepIsSound` is the step, one lemma for each kind of node (`PropertyIsGood`,
`IndexIsGood`, `UnaryIsGood`, `BinaryIsSound`); the rest is the least expression it
fails for (`LeastNumber`), since the operands of an expression come before it. What
a value of a type is (`Shows`) concerns the value's parts, to any depth, and a
definition by recursion over them is out of the prover's reach. So the relation
between values and types is the largest one that is faithful (`Largest`): a value it
relates to a type is made as the type says, from parts it relates again. It holds
all that is made from it (`LargestHolds`), so no induction over values is needed, and
`InputsAreShown` finds every value an input type takes in it, by the least type it
fails for. `PredicatesEvaluate` joins them to the state machine: only `Compile` leads
to the phase `compiled`, and it evaluates the predicates it accepted on the inputs of
the schema it accepted them for (`Tabled`).

Liveness, the fairness part of `ImplementsCallService` and anything about
ENABLED cannot be proved with the installed provers.

## 5. Only model-checked, and not modelled

Only model-checked:

* liveness (`CallReturns`, `ScopeReleased`, `ChangeIsLoaded`, `HandleCloseEnds`,
  `EventuallyDone`, `RunEnds`) and the fairness that `ImplementsCallService` states,
  whose steps are proved: out of the prover's reach;
* `CanonicalIsInjective`, over the RECURSIVE operators of `InputTypes` and
  `CanonicalInput`, and that the RECURSIVE operators of `PredicateTrees` are an
  interpretation (`RecursionInterprets`), which is their definition unfolded once:
  no module with a theorem may reach them. The other proofs about the data take
  compiled constraints and canonical texts as they come (`InputAssumption`).

Not modelled, and why:

* Dispatch with its confidence policy and fallbacks: one synchronous turn of the
  application's own functions. The execution planner, transactions and the dev
  loop: small and apart from the rest; the dev loop schedules as the watched
  reload does. They are the next modules to write, and their hazards are listed.
* Stage fusion by adapter in `inference-worker.ts`: every function of
  `InferenceRuntime` has an adapter of its own. The fusion keys passes by adapter
  and text, which is sound because the trainer refuses one adapter over several
  encoder depths (`application.py`).
* In `releases derive`, the rewriting of graphs and the calibration comparison;
  in the exporter, the documents and graphs themselves; in the loader, their
  validation. The operators `*`, `%`, `**`, `<=` and `>` of predicates, which are
  evaluated as those that `Predicates` has; the budgets and limits of predicates
  and inputs. Host objects,
  cycles and surrogates; the TypeScript twins of the Python encoder and evaluator,
  which golden files tie to it.
* Training, calibration, quantization, ONNX export and the compiler front end:
  their correctness lies in numbers and types these models abstract away.
