----------------------------- MODULE BuildCache -----------------------------
(***************************************************************************)
(* `semantscript train` over its build cache (train_bundle): which         *)
(* functions are reused, what is trained again, on which encoder and       *)
(* adapters, with which seeds, what is published and in which order the    *)
(* cache is rewritten.  Between two runs the user edits the bundle, the    *)
(* recipe or a domain's depth, the teacher's dataset is lost, a cache file *)
(* is damaged, or the artifact root is pointed at an older release.  A run *)
(* may be killed, or fail on a write, at any of its steps.                 *)
(*                                                                         *)
(* Function ids are content-addressed: to edit an expression is to replace *)
(* one id of the bundle by another.  A file of weights is the version of   *)
(* the weights in it, which stands for their digest too; 0 is no file.     *)
(***************************************************************************)
EXTENDS Naturals, Sequences, FiniteSets

CONSTANTS
  Functions,     \* function ids, of every edit of the program
  Domains,       \* adapter refs
  DomainOf,      \* the adapter ref of each function
  Bundles,       \* the sets of functions the program is edited to
  Recipes,       \* settings of the command; 0 are the default ones
  Depths,        \* encoder depths a domain may declare; None is the full encoder
  Attempts,      \* --seed-attempts
  MaxRuns, MaxEdits,  \* bounds: runs of the command, disturbances between and in them
  None

\* A trained head; a release's weights; functions/<id>/record.json; application.json.
HeadType == [recipe : Recipes, depth : Depths, data : Nat, enc : Nat, adp : Nat, version : Nat,
             passed : BOOLEAN]
ModelOf(set) == [enc : Nat, adp : [Domains -> Nat], heads : [set -> HeadType]]
RecordType == [recipe : Recipes, depth : Depths, data : Nat, shared : Nat \X Nat,
               head : HeadType]
IndexType == [enc : Nat, adp : [Domains -> Nat], release : Nat]

\* None, an absent file or value, is none of the values it stands in for.
ASSUME BuildCacheAssumption ==
  /\ DomainOf \in [Functions -> Domains]
  /\ Bundles \subseteq (SUBSET Functions) \ {{}} /\ Bundles # {}
  /\ 0 \in Recipes /\ None \in Depths
  /\ Attempts \in Nat \ {0} /\ MaxRuns \in Nat /\ MaxEdits \in Nat
  /\ None \notin Nat \X Nat /\ None \notin RecordType /\ None \notin IndexType

VARIABLES
  bundle, recipe, depth, data,  \* what is to be built: depth[d] of a domain, data[f] its dataset
  index,         \* application.json, or None when it is absent or cannot be parsed
  encFile, adpFile,  \* shared.safetensors, and adapters/<ref>.safetensors
  records,       \* records[f]: functions/<id>/ when it is whole, or None
  releases, pointer,  \* what was published, and current.json's release
  step,          \* the next step of the run
  cached, full,  \* the run's use_cache and full flags
  reused, todo,  \* cached functions it keeps, functions it still has to train
  attempt, model, restored,  \* the attempt, its weights, the adapters it restored
  pending,       \* adapters, then functions, that remain to be stored
  runs, edits,   \* bounds used up
  settled        \* history: the bundle of the last run, while nothing disturbs what it left

source == <<bundle, recipe, depth, data>>
cache == <<index, encFile, adpFile, records>>
published == <<releases, pointer>>
run == <<cached, full, reused, todo, attempt, model, restored, pending>>
vars == <<source, cache, published, step, run, runs, edits, settled>>

NoFiles == [d \in Domains |-> 0]
NoModel == [enc |-> 0, adp |-> NoFiles, heads |-> <<>>]
Used(set) == {DomainOf[f] : f \in set}

\* Functions, and adapters, are taken in the order of the bundle: one order of them all.
First(set) == CHOOSE x \in set : TRUE

Disturb == edits < MaxEdits /\ edits' = edits + 1

----------------------------------------------------------------------------
\* ApplicationCache, reading

Intact == /\ index # None /\ encFile = index.enc
          /\ \A d \in Domains : index.adp[d] # 0 => adpFile[d] = index.adp[d]

\* function_shared_sha256: the encoder and the adapter a record must carry.
SharedState(d) == IF index.adp[d] = 0 THEN None ELSE <<index.enc, index.adp[d]>>

\* Mutant: the adapter is not part of a function's digest.
MatchesEncoder(f) == records[f].shared[1] = index.enc

Matches(f) == records[f].shared = SharedState(DomainOf[f])

Reusable(f) ==
  /\ Intact /\ records[f] # None
  /\ records[f].recipe = recipe /\ records[f].depth = depth[DomainOf[f]]
  /\ Matches(f)

\* The artifact root's current release, when it is the one the cache last published.
Stands == index # None /\ index.release # 0 /\ pointer = index.release

----------------------------------------------------------------------------
\* A run, up to the model it publishes

\* Without the cache everything is trained in any case.
StartRun(on, all) ==
  /\ step = "idle" /\ runs < MaxRuns /\ runs' = runs + 1
  /\ cached' = on /\ full' = all
  /\ reused' = (IF on /\ ~all THEN {f \in bundle : Reusable(f)} ELSE {})
  /\ todo' = bundle \ reused'
  /\ attempt' = 0 /\ model' = NoModel /\ restored' = {} /\ pending' = {}
  /\ step' = IF on /\ todo' = {} /\ Stands THEN "stands" ELSE "datasets"
  /\ UNCHANGED <<source, cache, published, edits, settled>>

Finish == step' = "idle" /\ reused' = {} /\ todo' = {} /\ attempt' = 0
          /\ model' = NoModel /\ restored' = {} /\ pending' = {}
          /\ UNCHANGED <<cached, full>>

\* The report says "reused": nothing is trained and nothing exported.
Reuse ==
  /\ step = "stands" /\ Finish
  /\ UNCHANGED <<source, cache, published, runs, edits, settled>>

\* Mutant: the records are trusted for the datasets too.
LoadDatasetsBlindly ==
  /\ step = "datasets" /\ step' = "attempt"
  /\ UNCHANGED <<source, cache, published, run, runs, edits, settled>>

\* The datasets are loaded or generated; a function whose dataset moved trains again.
LoadDatasets ==
  /\ step = "datasets"
  /\ reused' = {f \in reused : records[f].data = data[f]}
  /\ todo' = bundle \ reused'
  /\ step' = "attempt"
  /\ UNCHANGED <<source, cache, published, cached, full, attempt, model, restored,
                 pending, runs, edits, settled>>

\* The version of the weights an attempt trains; those of a run that publishes nothing are
\* never seen again.
Version(n) == Len(releases) * (Attempts + 1) + n

TrainedHead(f, m, version) ==
  [recipe |-> recipe, depth |-> depth[DomainOf[f]], data |-> data[f],
   enc |-> m.enc, adp |-> m.adp[DomainOf[f]], version |-> version, passed |-> FALSE]

\* Mutant: only a joint attempt is counted.
NextAttemptJointly == attempt' = attempt + (IF reused = {} THEN 1 ELSE 0)

NextAttempt == attempt' = attempt + 1

\* _rehydrate_application: the encoder, the adapters a reused function reads, their heads.
Restore ==
  /\ step = "attempt" /\ reused # {}
  /\ NextAttempt
  /\ restored' = Used(reused)
  /\ model' = [enc |-> encFile,
               adp |-> [d \in Domains |-> IF d \in Used(reused) THEN adpFile[d] ELSE 0],
               heads |-> [f \in reused |-> records[f].head]]
  /\ todo' = bundle \ reused
  /\ step' = IF todo' = {} THEN "export" ELSE "heads"
  /\ UNCHANGED <<source, cache, published, cached, full, reused, pending, runs, edits, settled>>

\* add_function_head: one head, and the adapter of a domain that has none yet.
AddHead ==
  /\ step = "heads"
  /\ LET f == First(todo)
         v == Version(attempt)
         m == [model EXCEPT !.adp[DomainOf[f]] = IF @ = 0 THEN v ELSE @]
     IN  model' = [m EXCEPT !.heads = [g \in DOMAIN @ \cup {f} |->
                     IF g = f THEN TrainedHead(f, m, v) ELSE @[g]]]
  /\ todo' = todo \ {First(todo)}
  /\ step' = IF todo' = {} THEN "verify" ELSE "heads"
  /\ UNCHANGED <<source, cache, published, cached, full, reused, attempt, restored,
                 pending, runs, edits, settled>>

\* train_application: encoder, adapters and every head together.
TrainJointly ==
  /\ step = "attempt" /\ reused = {}
  /\ NextAttempt
  /\ LET v == Version(attempt')
         m == [enc |-> v, heads |-> <<>>,
               adp |-> [d \in Domains |-> IF d \in Used(bundle) THEN v ELSE 0]]
     IN  model' = [m EXCEPT !.heads = [f \in bundle |-> TrainedHead(f, m, v)]]
  /\ todo' = {} /\ restored' = {}
  /\ step' = "verify"
  /\ UNCHANGED <<source, cache, published, cached, full, reused, pending, runs, edits, settled>>

Trained == bundle \ reused
Verified(set) == [model EXCEPT !.heads = [f \in DOMAIN @ |->
                    IF f \in set THEN [@[f] EXCEPT !.passed = TRUE] ELSE @[f]]]

\* Mutant: the verification of the last function decides for all.
PassesLast ==
  /\ step = "verify" /\ step' = "export"
  /\ \E f \in Trained : model' = Verified({f})
  /\ UNCHANGED <<source, cache, published, cached, full, reused, todo, attempt, restored,
                 pending, runs, edits, settled>>

Passes ==
  /\ step = "verify" /\ step' = "export"
  /\ model' = Verified(Trained)
  /\ UNCHANGED <<source, cache, published, cached, full, reused, todo, attempt, restored,
                 pending, runs, edits, settled>>

\* Mutant: one seed too many.
FailsNarrowlyOnceMore ==
  /\ step = "verify" /\ attempt <= Attempts /\ step' = "attempt"
  /\ UNCHANGED <<source, cache, published, run, runs, edits, settled>>

\* Every failed gate was narrow, and a seed is left: the next attempt starts over.
FailsNarrowly ==
  /\ step = "verify" /\ attempt < Attempts /\ step' = "attempt"
  /\ UNCHANGED <<source, cache, published, run, runs, edits, settled>>

\* A gate failed by far, or the seeds are used up: TrainBundleFailure.
Fails ==
  /\ step = "verify" /\ Finish
  /\ UNCHANGED <<source, cache, published, runs, edits, settled>>

----------------------------------------------------------------------------
\* Publishing, and rewriting the cache one file at a time

\* export_multi_function_artifact: the release appears and current.json names it.
Export ==
  /\ step = "export"
  /\ releases' = Append(releases, model) /\ pointer' = Len(releases) + 1
  /\ IF ~cached THEN Finish
     ELSE /\ step' = IF reused = {} THEN "drop" ELSE "adapters"
          /\ pending' = {d \in Domains : model.adp[d] # 0} \ restored
          /\ UNCHANGED <<cached, full, reused, todo, attempt, model, restored>>
  /\ UNCHANGED <<source, cache, runs, edits>>
  /\ settled' = IF cached THEN None ELSE settled

\* The records and the adapters of the previous encoder go, as far as the file system lets:
\* both removals ignore its errors.
DropPrevious ==
  /\ step = "drop" /\ step' = "encoder"
  /\ \/ /\ records' = [f \in Functions |-> None] /\ adpFile' = NoFiles
        /\ UNCHANGED edits
     \/ /\ Disturb
        /\ \E kept \in SUBSET Functions, left \in SUBSET Domains :
             /\ records' = [f \in Functions |-> IF f \in kept THEN records[f] ELSE None]
             /\ adpFile' = [d \in Domains |-> IF d \in left THEN adpFile[d] ELSE 0]
  /\ UNCHANGED <<source, index, encFile, published, run, runs, settled>>

StoreEncoder ==
  /\ step = "encoder" /\ step' = "adapters"
  /\ encFile' = model.enc
  /\ UNCHANGED <<source, index, adpFile, records, published, run, runs, edits,
                 settled>>

StoreAdapter ==
  /\ step = "adapters" /\ pending # {}
  /\ adpFile' = [adpFile EXCEPT ![First(pending)] = model.adp[First(pending)]]
  /\ pending' = pending \ {First(pending)}
  /\ UNCHANGED <<source, index, encFile, records, published, step, cached, full, reused,
                 todo, attempt, model, restored, runs, edits, settled>>

AdaptersStored ==
  /\ step = "adapters" /\ pending = {}
  /\ pending' = Trained /\ step' = "functions"
  /\ UNCHANGED <<source, cache, published, cached, full, reused, todo, attempt, model,
                 restored, runs, edits, settled>>

\* store_function clears the function's directory; its record is written last.
ClearFunction ==
  /\ step = "functions" /\ pending # {} /\ records[First(pending)] # None
  /\ records' = [records EXCEPT ![First(pending)] = None]
  /\ UNCHANGED <<source, index, encFile, adpFile, published, step, run, runs,
                 edits, settled>>

\* Mutant: an incremental run records the index's digests only.
StoredSharedOfIndex(d) ==
  IF reused = {} THEN <<model.enc, model.adp[d]>> ELSE <<index.enc, index.adp[d]>>

\* The digests of the shared files as this run knows them: those it wrote, or the index's.
StoredShared(d) ==
  IF reused = {} THEN <<model.enc, model.adp[d]>>
  ELSE <<index.enc, IF d \in restored THEN index.adp[d] ELSE model.adp[d]>>

Record(f) ==
  [recipe |-> recipe, depth |-> depth[DomainOf[f]], data |-> data[f],
   shared |-> StoredShared(DomainOf[f]), head |-> model.heads[f]]

StoreFunction ==
  /\ step = "functions" /\ pending # {} /\ records[First(pending)] = None
  /\ records' = [records EXCEPT ![First(pending)] = Record(First(pending))]
  /\ pending' = pending \ {First(pending)}
  /\ UNCHANGED <<source, index, encFile, adpFile, published, step, cached, full, reused,
                 todo, attempt, model, restored, runs, edits, settled>>

\* store_index: the new index is in the file, or a part of it that does not parse.
NewIndex ==
  [enc |-> IF reused = {} THEN model.enc ELSE index.enc,
   adp |-> [d \in Domains |->
     IF reused # {} /\ (d \in restored \/ model.adp[d] = 0) THEN index.adp[d]
     ELSE model.adp[d]],
   release |-> Len(releases)]

StoreIndex ==
  /\ step = "functions" /\ pending = {}
  /\ index' = NewIndex /\ settled' = bundle
  /\ Finish
  /\ UNCHANGED <<source, encFile, adpFile, records, published, runs, edits>>

----------------------------------------------------------------------------
\* What happens to a run, and between two runs

\* The process is killed, or a write fails; the file being written may be cut short.
Crash ==
  /\ step # "idle" /\ Disturb /\ Finish
  /\ IF step = "functions" /\ pending = {} THEN index' \in {index, None}
     ELSE UNCHANGED index
  /\ UNCHANGED <<source, encFile, adpFile, records, published, runs, settled>>

\* A rewrite of the program: another set of function ids.
EditBundle(functions) ==
  /\ step = "idle" /\ Disturb
  /\ functions # bundle /\ bundle' = functions
  /\ UNCHANGED <<recipe, depth, data, cache, published, step, run, runs, settled>>

EditSettings(r, ds) ==
  /\ step = "idle" /\ Disturb
  /\ <<r, ds>> # <<recipe, depth>> /\ recipe' = r /\ depth' = ds
  /\ settled' = None
  /\ UNCHANGED <<bundle, data, cache, published, step, run, runs>>

\* The cached dataset is removed: the teacher will answer otherwise.
LoseDataset(f) ==
  /\ step = "idle" /\ Disturb
  /\ data' = [data EXCEPT ![f] = @ + 1]
  /\ settled' = None
  /\ UNCHANGED <<bundle, recipe, depth, cache, published, step, run, runs>>

\* A file of the cache is damaged: its digest is no longer the one recorded.
Damage ==
  /\ step = "idle" /\ Disturb
  /\ \/ encFile # 0 /\ encFile' = 0 /\ UNCHANGED <<index, adpFile, records>>
     \/ \E d \in Domains : /\ adpFile[d] # 0 /\ adpFile' = [adpFile EXCEPT ![d] = 0]
                           /\ UNCHANGED <<index, encFile, records>>
     \/ \E f \in Functions : /\ records[f] # None /\ records' = [records EXCEPT ![f] = None]
                             /\ UNCHANGED <<index, encFile, adpFile>>
     \/ index # None /\ index' = None /\ UNCHANGED <<encFile, adpFile, records>>
  /\ settled' = None
  /\ UNCHANGED <<source, published, step, run, runs>>

\* `releases rollback` or `promote`.
PointAt(r) ==
  /\ step = "idle" /\ Disturb /\ r # pointer /\ pointer' = r
  /\ UNCHANGED <<source, cache, releases, step, run, runs, settled>>

Init ==
  /\ bundle \in Bundles /\ recipe = 0 /\ depth = [d \in Domains |-> None]
  /\ data = [f \in Functions |-> 0]
  /\ index = None /\ encFile = 0 /\ adpFile = NoFiles
  /\ records = [f \in Functions |-> None]
  /\ releases = <<>> /\ pointer = 0
  /\ step = "idle" /\ cached = TRUE /\ full = FALSE
  /\ reused = {} /\ todo = {} /\ attempt = 0 /\ model = NoModel /\ restored = {}
  /\ pending = {} /\ runs = 0 /\ edits = 0 /\ settled = None

TrainStep ==
  \/ Reuse \/ LoadDatasets \/ Restore \/ TrainJointly
  \/ AddHead \/ Passes \/ FailsNarrowly \/ Fails
  \/ Export \/ DropPrevious \/ StoreEncoder
  \/ StoreAdapter \/ AdaptersStored \/ ClearFunction \/ StoreFunction \/ StoreIndex

User ==
  \/ \E on, all \in BOOLEAN : (on \/ ~all) /\ StartRun(on, all)
  \/ \E functions \in Bundles : EditBundle(functions)
  \/ \E r \in Recipes, ds \in [Domains -> Depths] : EditSettings(r, ds)
  \/ \E f \in Functions : LoseDataset(f)
  \/ Damage \/ Crash
  \/ \E r \in DOMAIN releases : PointAt(r)

Next == TrainStep \/ User
Spec == Init /\ [][Next]_vars
FairSpec == Spec /\ WF_vars(TrainStep)

----------------------------------------------------------------------------
\* Properties

\* Every variable has its type, and the cache, the model and the releases name only
\* functions and adapters of this application.
TypeOK ==
  /\ bundle \in Bundles /\ recipe \in Recipes
  /\ depth \in [Domains -> Depths] /\ data \in [Functions -> Nat]
  /\ index \in IndexType \cup {None} /\ (index # None => index.release \in DOMAIN releases)
  /\ encFile \in Nat /\ adpFile \in [Domains -> Nat]
  /\ records \in [Functions -> RecordType \cup {None}]
  /\ \A r \in DOMAIN releases : \E set \in Bundles : releases[r] \in ModelOf(set)
  /\ pointer \in {0} \cup DOMAIN releases
  /\ cached \in BOOLEAN /\ full \in BOOLEAN
  /\ reused \subseteq bundle /\ todo \subseteq bundle /\ attempt \in 0..Attempts
  /\ \E set \in SUBSET bundle : model \in ModelOf(set)
  /\ restored \subseteq Used(bundle)

\* The cached weights a run reports as reused, or is about to restore, are those each
\* reused head was trained and verified on, whatever run was killed over the cache or file
\* damaged before: _rehydrate_application never refuses them ("do not match their
\* verified state").
RestoreNeverRefused ==
  step \in {"stands", "attempt"} => \A f \in reused :
    /\ records[f].head.enc = encFile
    /\ records[f].head.adp = adpFile[DomainOf[f]]

\* What is exported is the bundle, each head trained under the settings, on the dataset
\* and over the very encoder and adapter that are exported with it.
HeadsCurrent ==
  step = "export" =>
    /\ DOMAIN model.heads = bundle
    /\ \A f \in bundle :
         LET h == model.heads[f]
         IN  h = [TrainedHead(f, model, h.version) EXCEPT !.passed = h.passed]

\* No head is published that did not pass verification in the attempt that trained it,
\* whichever attempts and runs it was cached through.
HeadsVerified ==
  \A r \in DOMAIN releases : \A f \in DOMAIN releases[r].heads :
    releases[r].heads[f].passed

\* "Changing one expression retrains only that head": after a run that finished, a run
\* of any other bundle trains no function the finished one holds.
OnlyChangedTrain ==
  step = "attempt" /\ cached /\ ~full /\ settled # None => bundle \cap settled \subseteq reused

\* Every run ends: the seed retries are bounded, and rewriting the cache comes to an end.
RunEnds == step # "idle" ~> step = "idle"

\* docs/build-cache.md: a run that changed the bundle exports "a new release", and only
\* "nothing changed" leaves the last one in place: the release a run calls "reused" has
\* the functions of the bundle.
ReusedReleaseServes == step = "stands" => bundle \subseteq DOMAIN releases[pointer].heads
=============================================================================
