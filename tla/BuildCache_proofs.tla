------------------------- MODULE BuildCache_proofs -------------------------
(***************************************************************************)
(* Proofs about the build cache.  The invariant says what is true of the   *)
(* cache at every step of a run: every record describes the head it holds, *)
(* the functions a run means to reuse still read as unchanged, the model   *)
(* being built is current for every function that is not left to train,    *)
(* and a store that stops half way leaves no record that a later run could *)
(* read with the wrong encoder or adapter.  ApplicationCache writes its    *)
(* files one by one, so the invariant follows them through the drop of the *)
(* old ones, the encoder, the adapters, the functions and the index.       *)
(***************************************************************************)
EXTENDS BuildCache, TLAPS

\* The steps of a run that hold a model being trained, and those that store it.
Building == {"heads", "verify", "export"}
Storing == {"drop", "encoder", "adapters", "functions"}
Steps == {"idle", "stands", "datasets", "attempt"} \cup Building \cup Storing

\* A record describes the verified head it holds.
RecordsSound ==
  \A f \in Functions : records[f] # None =>
    LET r == records[f] IN
    /\ r.shared = <<r.head.enc, r.head.adp>> /\ r.head.passed
    /\ r.head.recipe = r.recipe /\ r.head.depth = r.depth /\ r.head.data = r.data

\* The record of f is what a run with the settings at hand reads as unchanged.
Reads(f) == records[f] # None /\ records[f].recipe = recipe
            /\ records[f].depth = depth[DomainOf[f]] /\ Matches(f)

\* Where a run is: its attempts, what is left to train, and nothing kept when idle.
RunState ==
  /\ step \in Steps
  /\ step = "idle" => reused = {} /\ todo = {} /\ pending = {} /\ restored = {}
                      /\ model = NoModel
  /\ step \in {"stands", "datasets", "attempt"} => attempt < Attempts
  /\ step \in Building \cup Storing => attempt > 0
  /\ step \notin {"heads", "stands", "datasets", "attempt"} => todo = {}
  /\ step = "heads" => todo # {} /\ todo \cap reused = {}

\* What the run means to reuse still reads as unchanged, and its files are intact.
ReusedSound ==
  /\ reused # {} => index # None /\ encFile = index.enc /\ \A f \in reused : Reads(f)
  /\ reused # {} /\ step \notin Storing => Intact
  /\ step \notin {"stands", "datasets"} => \A f \in reused : records[f].data = data[f]

\* The head of f belongs to its settings, its data and the model it is part of.
Current(f) ==
  LET h == model.heads[f] IN
  /\ h.recipe = recipe /\ h.depth = depth[DomainOf[f]] /\ h.data = data[f]
  /\ h.enc = model.enc /\ h.adp = model.adp[DomainOf[f]] /\ h.adp # 0

\* The model at hand is current for every function not left to train, and a
\* restored adapter is the one on disk and in the index.
ModelSound ==
  step \in Building \cup Storing =>
    /\ DOMAIN model.heads = bundle \ todo
    /\ \A f \in bundle \ todo : Current(f)
    /\ \A f \in reused : model.heads[f].passed
    /\ step \notin {"heads", "verify"} => \A f \in bundle : model.heads[f].passed
    /\ restored = Used(reused)
    /\ reused # {} => model.enc = index.enc
    /\ \A d \in restored : /\ index.adp[d] # 0 /\ model.adp[d] = index.adp[d]
                           /\ adpFile[d] = index.adp[d]

\* Every adapter of the model but those left is on disk.
AdaptersWritten(left) ==
  \A d \in Domains :
    /\ d \notin restored /\ d \notin left /\ model.adp[d] # 0 => adpFile[d] = model.adp[d]
    /\ reused # {} /\ model.adp[d] = 0 /\ index.adp[d] # 0 => adpFile[d] = index.adp[d]

\* How much of the model the store has written, step by step.
StoringSound ==
  step \in Storing =>
    /\ releases # <<>> /\ settled = None
    /\ step \in {"drop", "encoder"} =>
         reused = {} /\ pending = {d \in Domains : model.adp[d] # 0}
    /\ step \in {"adapters", "functions"} /\ reused = {} => encFile = model.enc
    /\ step = "adapters" =>
         pending \subseteq {d \in Domains : model.adp[d] # 0} \ restored
         /\ AdaptersWritten(pending)
    /\ step = "functions" =>
         /\ AdaptersWritten({}) /\ pending \subseteq Trained
         /\ \A f \in Trained \ pending : records[f] = Record(f)

\* After a run stored everything, and until something changes, all it settled is
\* reusable, and the next run reuses it.
SettledSound ==
  settled # None =>
    /\ \A f \in settled : f \in Functions /\ Reusable(f) /\ records[f].data = data[f]
    /\ step # "idle" /\ cached /\ ~full => bundle \cap settled \subseteq reused

\* The models of every set of functions; TLC cannot enumerate them.
ModelType == UNION {ModelOf(set) : set \in SUBSET Functions}

\* What was exported are models.
Releases == releases \in Seq(ModelType)

\* The inductive invariant.
IInv == /\ TypeOK /\ Releases /\ RecordsSound /\ HeadsVerified /\ RunState /\ ReusedSound
        /\ ModelSound /\ StoringSound /\ SettledSound

----------------------------------------------------------------------------
\* Operators of the model

\* The function or domain a loop turns to is one of those left.
LEMMA FirstIsMember == ASSUME NEW set, set # {} PROVE First(set) \in set
  BY DEF First

\* The parts of a model, and that a model is its parts.
LEMMA ModelFields ==
  ASSUME NEW set, NEW m \in ModelOf(set)
  PROVE  /\ m.enc \in Nat /\ m.adp \in [Domains -> Nat] /\ m.heads \in [set -> HeadType]
         /\ DOMAIN m.heads = set
         /\ m = [enc |-> m.enc, adp |-> m.adp, heads |-> m.heads]
  BY DEF ModelOf

\* The model of a run that has trained nothing is a model of no function.
LEMMA NoModelTyped == NoModel \in ModelOf({})
<1>1. <<>> \in [{} -> HeadType]
  OBVIOUS
<1> QED
  BY <1>1 DEF NoModel, NoFiles, ModelOf

\* What typing says of the bundle and of the model at hand.
LEMMA Typing ==
  ASSUME TypeOK
  PROVE  /\ bundle \subseteq Functions /\ bundle # {}
         /\ \A f \in Functions : DomainOf[f] \in Domains
         /\ model \in ModelOf(DOMAIN model.heads) /\ DOMAIN model.heads \subseteq bundle
<1>1. PICK set \in SUBSET bundle : model \in ModelOf(set)
  BY DEF TypeOK
<1>2. DOMAIN model.heads = set
  BY <1>1, ModelFields
<1> QED
  BY BuildCacheAssumption, <1>1, <1>2 DEF TypeOK

\* A head trained for f is a head, and carries what it was trained from.
LEMMA HeadTyped ==
  ASSUME TypeOK, NEW f \in Functions, NEW m, m.enc \in Nat, m.adp \in [Domains -> Nat],
         NEW v \in Nat
  PROVE  /\ TrainedHead(f, m, v) \in HeadType
         /\ TrainedHead(f, m, v).recipe = recipe
         /\ TrainedHead(f, m, v).depth = depth[DomainOf[f]]
         /\ TrainedHead(f, m, v).data = data[f]
         /\ TrainedHead(f, m, v).enc = m.enc /\ TrainedHead(f, m, v).adp = m.adp[DomainOf[f]]
  BY BuildCacheAssumption DEF TypeOK, TrainedHead, HeadType

\* The version of an attempt is a positive number: 0 is no file.
LEMMA VersionPositive ==
  ASSUME Releases, NEW n \in Nat
  PROVE  Version(n) \in Nat /\ (n > 0 => Version(n) > 0)
<1>1. Len(releases) \in Nat /\ Attempts + 1 \in Nat
  BY BuildCacheAssumption DEF Releases
<1>2. Len(releases) * (Attempts + 1) \in Nat
  BY <1>1
<1> QED
  BY <1>2 DEF Version

----------------------------------------------------------------------------
\* Every step keeps the invariant

\* The invariant is kept by Reuse: the last release stands, and the run ends.
LEMMA ReuseKeeps == ASSUME IInv, Reuse PROVE IInv'
<1> USE DEF Reuse, source, cache, published, run, Finish
<1>1. TypeOK'
  BY BuildCacheAssumption, NoModelTyped DEF IInv, TypeOK
<1>2. Releases'
  BY DEF IInv, Releases
<1>3. RecordsSound'
  BY DEF IInv, RecordsSound
<1>4. HeadsVerified'
  BY DEF IInv, HeadsVerified
<1>5. RunState'
  BY DEF IInv, RunState, Steps, Building, Storing
<1>6. ReusedSound'
  BY DEF IInv, ReusedSound
<1>7. ModelSound'
  BY DEF IInv, ModelSound, Building, Storing, Steps
<1>8. StoringSound'
  BY DEF IInv, StoringSound, Storing
<1>9. SettledSound'
  BY DEF IInv, SettledSound, Reusable, Intact, Matches, SharedState
<1> QED
  BY <1>1, <1>2, <1>3, <1>4, <1>5, <1>6, <1>7, <1>8, <1>9 DEF IInv

\* The invariant is kept by LoadDatasets: a reused function whose data changed
\* is trained after all.
LEMMA LoadDatasetsKeeps == ASSUME IInv, LoadDatasets PROVE IInv'
<1> USE DEF LoadDatasets, source, cache, published, run
<1>1. TypeOK'
  BY DEF IInv, TypeOK
<1>2. Releases'
  BY DEF IInv, Releases
<1>3. RecordsSound'
  BY DEF IInv, RecordsSound
<1>4. HeadsVerified'
  BY DEF IInv, HeadsVerified
<1>5. RunState'
  BY DEF IInv, RunState, Steps, Building, Storing
<1>6. ReusedSound'
  BY DEF IInv, ReusedSound, Reads, Matches, SharedState, Intact, Storing
<1>7. ModelSound'
  BY DEF IInv, ModelSound, Building, Storing, Steps
<1>8. StoringSound'
  BY DEF IInv, StoringSound, Storing
<1>9. SettledSound'
  BY DEF IInv, SettledSound, Reusable, Intact, Matches, SharedState
<1> QED
  BY <1>1, <1>2, <1>3, <1>4, <1>5, <1>6, <1>7, <1>8, <1>9 DEF IInv

\* The invariant is kept by Restore: the shared files and the heads of the
\* reused functions are read back.
LEMMA RestoreKeeps == ASSUME IInv, Restore PROVE IInv'
<1> USE DEF Restore, source, cache, published, run
<1>1. TypeOK'
  <2>1. \A f \in reused : f \in Functions /\ records[f].head \in HeadType
    BY Typing DEF IInv, TypeOK, ReusedSound, Reads, RecordType
  <2>2. model' \in ModelOf(reused)
    BY <2>1 DEF IInv, TypeOK, ModelOf
  <2>3. attempt' \in 0..Attempts
    BY BuildCacheAssumption DEF IInv, TypeOK, RunState, NextAttempt
  <2> QED
    BY <2>2, <2>3 DEF IInv, TypeOK, Used
<1>2. Releases'
  BY DEF IInv, Releases
<1>3. RecordsSound'
  BY DEF IInv, RecordsSound
<1>4. HeadsVerified'
  BY DEF IInv, HeadsVerified
<1>5. RunState'
  BY DEF IInv, TypeOK, RunState, Steps, Building, NextAttempt
<1>6. ReusedSound'
  BY DEF IInv, ReusedSound, Reads, Matches, SharedState, Intact, Storing
<1>7. ModelSound'
  <2>1. reused \subseteq bundle /\ bundle \ todo' = reused /\ step' \in {"heads", "export"}
    BY DEF IInv, TypeOK
  <2>2. ASSUME NEW f \in reused
        PROVE  /\ model'.heads[f] = records[f].head
               /\ DomainOf[f] \in restored' /\ f \in Functions
               /\ model'.adp[DomainOf[f]] = adpFile[DomainOf[f]]
               /\ records[f] \in RecordType /\ Reads(f)
               /\ records[f].data = data[f] /\ records[f].head.passed
               /\ records[f].shared = <<records[f].head.enc, records[f].head.adp>>
               /\ records[f].head.recipe = records[f].recipe
               /\ records[f].head.depth = records[f].depth
               /\ records[f].head.data = records[f].data
    BY <2>2, Typing DEF IInv, TypeOK, ReusedSound, RecordsSound, Used, Reads
  <2>3. /\ model'.enc = encFile /\ DOMAIN model'.heads = reused /\ encFile = index.enc
        /\ recipe' = recipe /\ depth' = depth /\ data' = data
        /\ index' = index /\ adpFile' = adpFile /\ restored' = Used(reused)
    BY DEF IInv, ReusedSound
  <2>4. ASSUME NEW f \in reused
        PROVE  /\ index.adp[DomainOf[f]] # 0 /\ adpFile[DomainOf[f]] = index.adp[DomainOf[f]]
               /\ records[f].shared = <<index.enc, index.adp[DomainOf[f]]>>
    <3>1. Intact /\ Matches(f) /\ records[f].shared \in Nat \X Nat
      BY <2>2 DEF IInv, ReusedSound, Storing, Reads, RecordType
    <3>2. index.adp[DomainOf[f]] # 0
      BY BuildCacheAssumption, <3>1 DEF Matches, SharedState
    <3> QED
      BY <2>2, <3>1, <3>2, Typing DEF Matches, SharedState, Intact, IInv
  <2>5. ASSUME NEW f \in reused PROVE Current(f)'
    <3>1. /\ records[f].head.enc = index.enc
          /\ records[f].head.adp = index.adp[DomainOf[f]]
      BY <2>2, <2>4
    <3> HIDE DEF Restore
    <3> QED
      BY <2>2, <2>3, <2>4, <3>1 DEF Current, Reads
  <2>6. ASSUME NEW d \in restored'
        PROVE  index'.adp[d] # 0 /\ model'.adp[d] = index'.adp[d] /\ adpFile'[d] = index'.adp[d]
    <3>1. PICK f \in reused : d = DomainOf[f]
      BY <2>3 DEF Used
    <3> HIDE DEF Restore
    <3> QED
      BY <2>2, <2>3, <2>4, <3>1
  <2> QED
    BY <2>1, <2>2, <2>3, <2>5, <2>6 DEF ModelSound, Building, Storing, Used
<1>8. StoringSound'
  BY DEF IInv, StoringSound, Storing
<1>9. SettledSound'
  BY DEF IInv, SettledSound, Reusable, Intact, Matches, SharedState
<1> QED
  BY <1>1, <1>2, <1>3, <1>4, <1>5, <1>6, <1>7, <1>8, <1>9 DEF IInv

\* The invariant is kept by TrainJointly: everything is trained anew.
LEMMA TrainJointlyKeeps == ASSUME IInv, TrainJointly PROVE IInv'
<1> USE DEF TrainJointly, source, cache, published, run
<1>1. TypeOK'
  <2>1. attempt' \in 1..Attempts /\ Version(attempt') \in Nat
    BY BuildCacheAssumption, VersionPositive DEF IInv, TypeOK, RunState, NextAttempt
  <2> DEFINE v == Version(attempt')
             a == [d \in Domains |-> IF d \in Used(bundle) THEN v ELSE 0]
             m == [enc |-> v, heads |-> <<>>, adp |-> a]
             h == [f \in bundle |-> TrainedHead(f, m, v)]
  <2>2. model' = [enc |-> v, adp |-> a, heads |-> h]
    BY DEF TrainJointly
  <2>3. a \in [Domains -> Nat] /\ m.enc \in Nat /\ m.adp \in [Domains -> Nat]
    BY <2>1
  <2>4. h \in [bundle -> HeadType]
    BY <2>1, <2>3, HeadTyped, Typing DEF IInv
  <2>5. model' \in ModelOf(bundle)
    <3> HIDE DEF a, h, TrainJointly
    <3> QED
      BY <2>1, <2>2, <2>3, <2>4 DEF ModelOf
  <2>6. reused' = {} /\ restored' = {} /\ todo' = {} /\ UNCHANGED <<source, cache, published>>
        /\ UNCHANGED <<cached, full>>
    BY DEF TrainJointly
  <2> HIDE DEF TrainJointly, v, a, m, h
  <2> QED
    BY <2>1, <2>5, <2>6 DEF IInv, TypeOK
<1>2. Releases'
  BY DEF IInv, Releases
<1>3. RecordsSound'
  BY DEF IInv, RecordsSound
<1>4. HeadsVerified'
  BY DEF IInv, HeadsVerified
<1>5. RunState'
  BY DEF IInv, TypeOK, RunState, Steps, Building, NextAttempt
<1>6. ReusedSound'
  BY DEF IInv, ReusedSound
<1>7. ModelSound'
  <2> DEFINE v == Version(attempt')
             a == [d \in Domains |-> IF d \in Used(bundle) THEN v ELSE 0]
             m == [enc |-> v, heads |-> <<>>, adp |-> a]
             h == [f \in bundle |-> TrainedHead(f, m, v)]
  <2>1. v \in Nat /\ v > 0
    <3>1. attempt' \in Nat /\ attempt' > 0
      BY DEF IInv, TypeOK, NextAttempt
    <3> QED
      BY <3>1, VersionPositive DEF IInv
  <2>2. /\ model' = [enc |-> v, adp |-> a, heads |-> h] /\ reused' = {} /\ restored' = {}
        /\ step' = "verify" /\ todo' = {} /\ bundle' = bundle
        /\ recipe' = recipe /\ depth' = depth /\ data' = data
    BY DEF TrainJointly
  <2>3. m.enc = v /\ m.adp = a /\ a \in [Domains -> Nat]
    BY <2>1
  <2>4. ASSUME NEW f \in bundle
        PROVE  /\ h[f].recipe = recipe /\ h[f].depth = depth[DomainOf[f]]
               /\ h[f].data = data[f] /\ h[f].enc = v /\ h[f].adp = v
               /\ a[DomainOf[f]] = v
    <3>1. h[f] = TrainedHead(f, m, v) /\ f \in Functions /\ DomainOf[f] \in Domains
      BY Typing DEF IInv
    <3>2. a[DomainOf[f]] = v
      BY <3>1 DEF Used
    <3> HIDE DEF h, m, a, v
    <3> QED
      BY <2>1, <2>3, <3>1, <3>2, HeadTyped DEF IInv
  <2>5. DOMAIN h = bundle
    OBVIOUS
  <2> HIDE DEF TrainJointly, v, a, m, h
  <2>6. ASSUME NEW f \in bundle PROVE Current(f)'
    BY <2>1, <2>2, <2>4 DEF Current
  <2> QED
    BY <2>2, <2>5, <2>6 DEF ModelSound, Used
<1>8. StoringSound'
  BY DEF IInv, StoringSound, Storing
<1>9. SettledSound'
  BY DEF IInv, SettledSound, Reusable, Intact, Matches, SharedState
<1> QED
  BY <1>1, <1>2, <1>3, <1>4, <1>5, <1>6, <1>7, <1>8, <1>9 DEF IInv

\* What training one head adds to the model, and what it leaves alone.
LEMMA AddHeadModel ==
  ASSUME IInv, AddHead
  PROVE  LET f == First(todo)
             h == model'.heads
         IN  /\ f \in todo /\ f \in bundle /\ DomainOf[f] \in Domains
             /\ model' \in ModelOf(DOMAIN model.heads \cup {f})
             /\ model'.enc = model.enc
             /\ model'.adp = [model.adp EXCEPT ![DomainOf[f]] =
                                IF @ = 0 THEN Version(attempt) ELSE @]
             /\ \A g \in DOMAIN model.heads : g # f => h[g] = model.heads[g]
             /\ h[f].recipe = recipe /\ h[f].depth = depth[DomainOf[f]] /\ h[f].data = data[f]
             /\ h[f].enc = model.enc /\ h[f].adp = model'.adp[DomainOf[f]]
<1> USE DEF AddHead
<1> DEFINE f == First(todo)
           v == Version(attempt)
           m == [model EXCEPT !.adp[DomainOf[f]] = IF @ = 0 THEN v ELSE @]
           h == [g \in DOMAIN model.heads \cup {f} |->
                   IF g = f THEN TrainedHead(f, m, v) ELSE model.heads[g]]
<1>1. f \in bundle /\ f \in Functions /\ DomainOf[f] \in Domains /\ v \in Nat
  BY FirstIsMember, Typing, VersionPositive DEF IInv, TypeOK, RunState
<1>2. /\ model.enc \in Nat /\ model.adp \in [Domains -> Nat]
      /\ model.heads \in [DOMAIN model.heads -> HeadType] /\ DOMAIN model.heads \subseteq bundle
      /\ model = [enc |-> model.enc, adp |-> model.adp, heads |-> model.heads]
  BY Typing, ModelFields DEF IInv
<1>3. m = [enc |-> model.enc, heads |-> model.heads,
           adp |-> [model.adp EXCEPT ![DomainOf[f]] = IF @ = 0 THEN v ELSE @]]
  BY <1>2
<1>4. m.enc \in Nat /\ m.adp \in [Domains -> Nat]
  BY <1>1, <1>2, <1>3
<1>5. h \in [DOMAIN model.heads \cup {f} -> HeadType]
  <2>1. TrainedHead(f, m, v) \in HeadType
    BY <1>1, <1>4, HeadTyped DEF IInv
  <2> HIDE DEF f, m, v
  <2> QED
    BY <1>2, <2>1
<1>6. model' = [enc |-> model.enc, adp |-> m.adp, heads |-> h]
  <2>1. model' = [m EXCEPT !.heads = h]
    BY <1>3 DEF AddHead
  <2> HIDE DEF f, v, h, m, AddHead
  <2> QED
    BY <1>3, <2>1
<1>7. h[f] = TrainedHead(f, m, v) /\ \A g \in DOMAIN model.heads : g # f => h[g] = model.heads[g]
  OBVIOUS
<1>8. /\ h[f].recipe = recipe /\ h[f].depth = depth[DomainOf[f]] /\ h[f].data = data[f]
      /\ h[f].enc = model.enc /\ h[f].adp = m.adp[DomainOf[f]]
  <2>1. m.enc = model.enc
    BY <1>3
  <2> HIDE DEF f, v, m, h, AddHead
  <2> QED
    BY <1>1, <1>4, <1>7, <2>1, HeadTyped DEF IInv
<1>9. model' \in ModelOf(DOMAIN model.heads \cup {f})
  <2> HIDE DEF f, v, h, m, AddHead
  <2> QED
    BY <1>2, <1>4, <1>5, <1>6 DEF ModelOf
<1>10. f \in todo /\ m.adp = [model.adp EXCEPT ![DomainOf[f]] = IF @ = 0 THEN v ELSE @]
  BY <1>3, FirstIsMember DEF IInv, RunState
<1>11. model'.enc = model.enc /\ model'.adp = m.adp /\ model'.heads = h
  <2> HIDE DEF f, v, m, h, AddHead
  <2> QED
    BY <1>6
<1> HIDE DEF AddHead, f, v, m, h
<1> QED
  BY <1>1, <1>7, <1>8, <1>9, <1>10, <1>11 DEF f, v

\* The invariant is kept by AddHead: one head is trained over the shared state
\* that was restored.
LEMMA AddHeadKeeps == ASSUME IInv, AddHead PROVE IInv'
<1> USE DEF AddHead, source, cache, published, run
<1>1. TypeOK'
  <2> DEFINE f == First(todo)
  <2>1. f \in bundle /\ model' \in ModelOf(DOMAIN model.heads \cup {f})
    BY AddHeadModel
  <2>2. DOMAIN model.heads \subseteq bundle
    BY Typing DEF IInv
  <2>3. /\ todo' \subseteq todo
        /\ UNCHANGED <<source, cache, published, cached, full, reused, attempt, restored>>
    OBVIOUS
  <2> HIDE DEF AddHead, f
  <2> QED
    BY <2>1, <2>2, <2>3 DEF IInv, TypeOK, Used
<1>2. Releases'
  BY DEF IInv, Releases
<1>3. RecordsSound'
  BY DEF IInv, RecordsSound
<1>4. HeadsVerified'
  BY DEF IInv, HeadsVerified
<1>5. RunState'
  BY DEF IInv, RunState, Steps, Building
<1>6. ReusedSound'
  BY DEF IInv, ReusedSound, Reads, Matches, SharedState, Intact, Storing
<1>7. ModelSound'
  <2> DEFINE f == First(todo)
  <2>1. /\ f \in todo /\ f \in bundle /\ f \notin reused /\ DOMAIN model.heads = bundle \ todo
        /\ DomainOf[f] \in Domains /\ Version(attempt) \in Nat /\ Version(attempt) # 0
    BY AddHeadModel, VersionPositive DEF IInv, RunState, TypeOK, ModelSound, Building
  <2>2. /\ DOMAIN model'.heads = bundle \ todo' /\ bundle \ todo' = (bundle \ todo) \cup {f}
        /\ UNCHANGED <<recipe, depth, data, bundle, index, adpFile, reused, restored>>
    BY <2>1, AddHeadModel, ModelFields
  <2>3. model.adp \in [Domains -> Nat]
    BY Typing, ModelFields DEF IInv
  <2>4. \A d \in Domains : model.adp[d] # 0 => model'.adp[d] = model.adp[d]
    BY <2>3, AddHeadModel
  <2>5. model'.adp[DomainOf[f]] # 0
    BY <2>1, <2>3, AddHeadModel
  <2>6. ASSUME NEW g \in bundle \ todo' PROVE Current(g)'
    <3>1. CASE g = f
      <4> HIDE DEF AddHead
      <4> QED
        BY <3>1, <2>2, <2>5, AddHeadModel DEF Current
    <3>2. CASE g # f
      <4>1. g \in bundle \ todo /\ Current(g) /\ model'.heads[g] = model.heads[g]
            /\ DomainOf[g] \in Domains
        BY <3>2, <2>1, <2>2, AddHeadModel, Typing DEF IInv, ModelSound, Building
      <4> HIDE DEF AddHead
      <4> QED
        BY <4>1, <2>2, <2>4, AddHeadModel DEF Current
    <3> QED
      BY <3>1, <3>2
  <2>7. \A g \in reused : model'.heads[g].passed
    <3>1. \A g \in reused : g \in bundle \ todo /\ g # f /\ model.heads[g].passed
      BY <2>1 DEF IInv, RunState, TypeOK, ModelSound, Building
    <3> QED
      BY <3>1, <2>1, AddHeadModel
  <2>8. step' \in {"heads", "verify"} /\ model'.enc = model.enc
    BY AddHeadModel
  <2>9. \A d \in restored : d \in Domains /\ model.adp[d] # 0 /\ model.adp[d] = index.adp[d]
    BY Typing DEF IInv, ModelSound, Building, TypeOK, Used
  <2> HIDE DEF AddHead, f
  <2> QED
    BY <2>2, <2>4, <2>6, <2>7, <2>8, <2>9 DEF IInv, ModelSound, Building, AddHead, Used
<1>8. StoringSound'
  BY DEF IInv, StoringSound, Storing
<1>9. SettledSound'
  BY DEF IInv, SettledSound, Reusable, Intact, Matches, SharedState
<1> QED
  BY <1>1, <1>2, <1>3, <1>4, <1>5, <1>6, <1>7, <1>8, <1>9 DEF IInv

\* Verification changes which heads have passed and nothing else of the model.
LEMMA VerifiedModel ==
  ASSUME IInv, NEW set \in SUBSET bundle
  PROVE  LET h == Verified(set).heads
         IN  /\ Verified(set) \in ModelOf(DOMAIN model.heads)
             /\ Verified(set).enc = model.enc /\ Verified(set).adp = model.adp
             /\ DOMAIN h = DOMAIN model.heads
             /\ \A f \in DOMAIN model.heads :
                  /\ h[f].recipe = model.heads[f].recipe /\ h[f].depth = model.heads[f].depth
                  /\ h[f].data = model.heads[f].data /\ h[f].enc = model.heads[f].enc
                  /\ h[f].adp = model.heads[f].adp
                  /\ f \in set \/ model.heads[f].passed => h[f].passed
<1> DEFINE h == [f \in DOMAIN model.heads |->
                   IF f \in set THEN [model.heads[f] EXCEPT !.passed = TRUE] ELSE model.heads[f]]
<1>1. /\ model.enc \in Nat /\ model.adp \in [Domains -> Nat]
      /\ model.heads \in [DOMAIN model.heads -> HeadType]
      /\ model = [enc |-> model.enc, adp |-> model.adp, heads |-> model.heads]
  BY Typing, ModelFields DEF IInv
<1>2. ASSUME NEW f \in DOMAIN model.heads
      PROVE  /\ h[f] \in HeadType
             /\ h[f].recipe = model.heads[f].recipe /\ h[f].depth = model.heads[f].depth
             /\ h[f].data = model.heads[f].data /\ h[f].enc = model.heads[f].enc
             /\ h[f].adp = model.heads[f].adp
             /\ f \in set \/ model.heads[f].passed => h[f].passed
  <2>1. model.heads[f] \in HeadType
    BY <1>1
  <2> QED
    BY <2>1 DEF HeadType
<1>3. h \in [DOMAIN model.heads -> HeadType]
  BY <1>2
<1>4. Verified(set) = [model EXCEPT !.heads = h]
  BY DEF Verified
<1> HIDE DEF h
<1>5. Verified(set) = [enc |-> model.enc, adp |-> model.adp, heads |-> h]
  BY <1>1, <1>4
<1>6. /\ Verified(set).enc = model.enc /\ Verified(set).adp = model.adp
      /\ Verified(set).heads = h /\ DOMAIN h = DOMAIN model.heads
  BY <1>3, <1>5
<1>7. Verified(set) \in ModelOf(DOMAIN model.heads)
  BY <1>1, <1>3, <1>5 DEF ModelOf
<1> QED
  BY <1>2, <1>6, <1>7

\* The invariant is kept by Passes: every head that was trained is verified.
LEMMA PassesKeeps == ASSUME IInv, Passes PROVE IInv'
<1> USE DEF Passes, source, cache, published, run
<1>1. TypeOK'
  <2>1. model' \in ModelOf(DOMAIN model.heads) /\ DOMAIN model.heads \subseteq bundle
    BY VerifiedModel, Typing DEF IInv, TypeOK, Trained
  <2> QED
    BY <2>1 DEF IInv, TypeOK, Used
<1>2. Releases'
  BY DEF IInv, Releases
<1>3. RecordsSound'
  BY DEF IInv, RecordsSound
<1>4. HeadsVerified'
  BY DEF IInv, HeadsVerified
<1>5. RunState'
  BY DEF IInv, RunState, Steps, Building
<1>6. ReusedSound'
  BY DEF IInv, ReusedSound, Reads, Matches, SharedState, Intact, Storing
<1>7. ModelSound'
  <2>1. /\ Trained \subseteq bundle /\ DOMAIN model.heads = bundle /\ todo = {}
        /\ \A f \in bundle : Current(f) /\ (f \in reused => model.heads[f].passed)
    BY DEF IInv, RunState, ModelSound, Building, Trained
  <2>2. /\ model'.enc = model.enc /\ model'.adp = model.adp /\ DOMAIN model'.heads = bundle
        /\ \A f \in bundle :
             /\ model'.heads[f].recipe = model.heads[f].recipe
             /\ model'.heads[f].depth = model.heads[f].depth
             /\ model'.heads[f].data = model.heads[f].data
             /\ model'.heads[f].enc = model.heads[f].enc
             /\ model'.heads[f].adp = model.heads[f].adp
             /\ model'.heads[f].passed
    <3>1. model' = Verified(Trained) /\ Trained \in SUBSET bundle
      BY <2>1
    <3>2. \A f \in bundle : f \in Trained \/ model.heads[f].passed
      BY <2>1 DEF Trained
    <3> HIDE DEF Passes
    <3> QED
      BY <2>1, <3>1, <3>2, VerifiedModel
  <2>3. ASSUME NEW f \in bundle PROVE Current(f)'
    <3>1. UNCHANGED <<recipe, depth, data>>
      OBVIOUS
    <3> HIDE DEF Passes
    <3> QED
      BY <2>1, <2>2, <3>1 DEF Current
  <2>4. step' = "export" /\ todo' = todo /\ UNCHANGED <<bundle, index, adpFile, reused, restored>>
    OBVIOUS
  <2>5. /\ restored = Used(reused) /\ (reused # {} => model.enc = index.enc) /\ reused \subseteq bundle
        /\ \A d \in restored : /\ index.adp[d] # 0 /\ model.adp[d] = index.adp[d]
                               /\ adpFile[d] = index.adp[d]
    BY DEF IInv, ModelSound, Building, TypeOK
  <2> HIDE DEF Passes
  <2> QED
    BY <2>1, <2>2, <2>3, <2>4, <2>5 DEF ModelSound, Used
<1>8. StoringSound'
  BY DEF IInv, StoringSound, Storing
<1>9. SettledSound'
  BY DEF IInv, SettledSound, Reusable, Intact, Matches, SharedState
<1> QED
  BY <1>1, <1>2, <1>3, <1>4, <1>5, <1>6, <1>7, <1>8, <1>9 DEF IInv

\* The invariant is kept by FailsNarrowly: every failed gate was narrow, and
\* the next attempt starts over.
LEMMA FailsNarrowlyKeeps == ASSUME IInv, FailsNarrowly PROVE IInv'
<1> USE DEF FailsNarrowly, source, cache, published, run
<1>1. TypeOK'
  BY DEF IInv, TypeOK
<1>2. Releases'
  BY DEF IInv, Releases
<1>3. RecordsSound'
  BY DEF IInv, RecordsSound
<1>4. HeadsVerified'
  BY DEF IInv, HeadsVerified
<1>5. RunState'
  BY DEF IInv, RunState, Steps, Building
<1>6. ReusedSound'
  BY DEF IInv, ReusedSound, Reads, Matches, SharedState, Intact, Storing
<1>7. ModelSound'
  BY DEF IInv, ModelSound, Building, Storing, Steps
<1>8. StoringSound'
  BY DEF IInv, StoringSound, Storing
<1>9. SettledSound'
  BY DEF IInv, SettledSound, Reusable, Intact, Matches, SharedState
<1> QED
  BY <1>1, <1>2, <1>3, <1>4, <1>5, <1>6, <1>7, <1>8, <1>9 DEF IInv

\* The invariant is kept by Fails: a gate failed by far or the seeds are used
\* up, and the run ends.
LEMMA FailsKeeps == ASSUME IInv, Fails PROVE IInv'
<1> USE DEF Fails, source, cache, published, run, Finish
<1>1. TypeOK'
  BY BuildCacheAssumption, NoModelTyped DEF IInv, TypeOK
<1>2. Releases'
  BY DEF IInv, Releases
<1>3. RecordsSound'
  BY DEF IInv, RecordsSound
<1>4. HeadsVerified'
  BY DEF IInv, HeadsVerified
<1>5. RunState'
  BY DEF IInv, RunState, Steps, Building, Storing
<1>6. ReusedSound'
  BY DEF IInv, ReusedSound
<1>7. ModelSound'
  BY DEF IInv, ModelSound, Building, Storing, Steps
<1>8. StoringSound'
  BY DEF IInv, StoringSound, Storing
<1>9. SettledSound'
  BY DEF IInv, SettledSound, Reusable, Intact, Matches, SharedState
<1> QED
  BY <1>1, <1>2, <1>3, <1>4, <1>5, <1>6, <1>7, <1>8, <1>9 DEF IInv

\* The invariant is kept by Export: the release is written.
LEMMA ExportKeeps == ASSUME IInv, Export PROVE IInv'
<1> USE DEF Export, source, cache, published, run, Finish
<1>1. TypeOK'
  <2>1. /\ DOMAIN model.heads = bundle /\ model \in ModelOf(bundle) /\ bundle \in Bundles
        /\ bundle' = bundle
    BY Typing DEF IInv, TypeOK, RunState, ModelSound, Building
  <2>2. /\ DOMAIN releases = 1..Len(releases) /\ Len(releases) \in Nat
        /\ DOMAIN releases' = 1..(Len(releases) + 1)
        /\ \A r \in DOMAIN releases' :
             releases'[r] = IF r \in DOMAIN releases THEN releases[r] ELSE model
    BY DEF IInv, Releases
  <2>3. /\ \A r \in DOMAIN releases' : \E set \in Bundles : releases'[r] \in ModelOf(set)
        /\ DOMAIN releases \subseteq DOMAIN releases' /\ pointer' \in DOMAIN releases'
    BY <2>1, <2>2 DEF IInv, TypeOK
  <2>4. \E set \in SUBSET bundle' : model' \in ModelOf(set)
    BY <2>1, NoModelTyped
  <2>5. /\ cached' \in BOOLEAN /\ full' \in BOOLEAN /\ reused' \subseteq bundle'
        /\ todo' \subseteq bundle' /\ attempt' \in 0..Attempts /\ restored' \subseteq Used(bundle')
    BY BuildCacheAssumption DEF IInv, TypeOK, Used
  <2>6. UNCHANGED <<source, cache>>
    OBVIOUS
  <2> HIDE DEF Export
  <2> QED
    BY <2>3, <2>4, <2>5, <2>6 DEF IInv, TypeOK
<1>2. Releases'
  <2>1. releases \in Seq(ModelType) /\ model \in ModelType
    BY Typing DEF IInv, Releases, ModelType
  <2> QED
    BY <2>1 DEF Releases
<1>3. RecordsSound'
  BY DEF IInv, RecordsSound
<1>4. HeadsVerified'
  <2>1. /\ DOMAIN releases = 1..Len(releases) /\ Len(releases) \in Nat
        /\ DOMAIN releases' = 1..(Len(releases) + 1)
        /\ \A r \in DOMAIN releases' :
             releases'[r] = IF r \in DOMAIN releases THEN releases[r] ELSE model
    BY DEF IInv, Releases
  <2>2. \A f \in DOMAIN model.heads : model.heads[f].passed
    BY DEF IInv, RunState, ModelSound, Building
  <2> HIDE DEF Export
  <2> QED
    BY <2>1, <2>2 DEF IInv, HeadsVerified
<1>5. RunState'
  BY DEF IInv, RunState, Steps, Building, Storing
<1>6. ReusedSound'
  BY DEF IInv, ReusedSound, Reads, Matches, SharedState, Intact, Storing
<1>7. ModelSound'
  BY DEF IInv, ModelSound, Current, Building, Storing, Steps
<1>8. StoringSound'
  <2>1. CASE ~cached
    BY <2>1 DEF StoringSound, Storing
  <2>2. CASE cached
    <3>1. /\ releases' # <<>> /\ settled' = None /\ step' \in {"drop", "adapters"}
      BY <2>2 DEF IInv, Releases
    <3>2. restored = Used(reused)
      BY DEF IInv, ModelSound, Building
    <3>3. reused = {} => restored = {}
      BY <3>2 DEF Used
    <3>4. /\ step' = "drop" => reused' = {} /\ pending' = {d \in Domains : model'.adp[d] # 0}
      BY <2>2, <3>3
    <3>5. step' = "adapters" =>
            /\ reused' # {} /\ pending' = {d \in Domains : model'.adp[d] # 0} \ restored'
      BY <2>2
    <3>6. step' = "adapters" => AdaptersWritten(pending)'
      BY <2>2 DEF AdaptersWritten, IInv, ReusedSound, Intact, Storing
    <3> HIDE DEF Export
    <3> QED
      BY <3>1, <3>4, <3>5, <3>6 DEF StoringSound, AdaptersWritten
  <2> QED
    BY <2>1, <2>2 DEF IInv, TypeOK
<1>9. SettledSound'
  BY DEF IInv, SettledSound, Reusable, Intact, Matches, SharedState
<1> QED
  BY <1>1, <1>2, <1>3, <1>4, <1>5, <1>6, <1>7, <1>8, <1>9 DEF IInv

\* A store starts from a model none of whose functions was reused.
LEMMA DropState ==
  ASSUME IInv, step \in {"drop", "encoder"}
  PROVE  /\ reused = {} /\ restored = {} /\ todo = {}
         /\ pending = {d \in Domains : model.adp[d] # 0}
  BY DEF IInv, StoringSound, Storing, ModelSound, Used, RunState

\* The invariant is kept by DropPrevious: a joint training drops the records
\* and adapters of the cache.
LEMMA DropPreviousKeeps == ASSUME IInv, DropPrevious PROVE IInv'
<1> USE DEF DropPrevious, source, cache, published, run, Disturb
<1>1. TypeOK'
  <2>1. records' \in [Functions -> RecordType \cup {None}] /\ adpFile' \in [Domains -> Nat]
    <3>1. records \in [Functions -> RecordType \cup {None}] /\ adpFile \in [Domains -> Nat]
      BY DEF IInv, TypeOK
    <3> QED
      BY <3>1 DEF NoFiles
  <2>2. /\ UNCHANGED <<source, index, encFile, published, run>>
    OBVIOUS
  <2> HIDE DEF DropPrevious
  <2> QED
    BY <2>1, <2>2 DEF IInv, TypeOK, Used
<1>2. Releases'
  BY DEF IInv, Releases
<1>3. RecordsSound'
  BY DEF IInv, RecordsSound
<1>4. HeadsVerified'
  BY DEF IInv, HeadsVerified
<1>5. RunState'
  BY DEF IInv, RunState, Steps, Building, Storing
<1>6. ReusedSound'
  BY DropState DEF ReusedSound
<1>7. ModelSound'
  <2>1. /\ restored' = {} /\ reused' = {} /\ Used(reused') = {} /\ step \in Storing
        /\ step \notin {"heads", "verify"}
        /\ UNCHANGED <<bundle, recipe, depth, data, index, model, todo>>
    BY DropState DEF Used, Storing
  <2> HIDE DEF DropPrevious
  <2> QED
    BY <2>1 DEF IInv, ModelSound, Current, Building, Used
<1>8. StoringSound'
  BY DEF IInv, StoringSound, Storing
<1>9. SettledSound'
  BY DEF IInv, SettledSound, StoringSound, Storing
<1> QED
  BY <1>1, <1>2, <1>3, <1>4, <1>5, <1>6, <1>7, <1>8, <1>9 DEF IInv

\* The invariant is kept by StoreEncoder.
LEMMA StoreEncoderKeeps == ASSUME IInv, StoreEncoder PROVE IInv'
<1> USE DEF StoreEncoder, source, cache, published, run
<1>1. TypeOK'
  <2>1. encFile' \in Nat
    BY Typing, ModelFields DEF IInv
  <2> QED
    BY <2>1 DEF IInv, TypeOK, Used
<1>2. Releases'
  BY DEF IInv, Releases
<1>3. RecordsSound'
  BY DEF IInv, RecordsSound
<1>4. HeadsVerified'
  BY DEF IInv, HeadsVerified
<1>5. RunState'
  BY DEF IInv, RunState, Steps, Building, Storing
<1>6. ReusedSound'
  BY DropState DEF ReusedSound
<1>7. ModelSound'
  BY DEF IInv, ModelSound, Current, Storing
<1>8. StoringSound'
  <2>1. /\ releases # <<>> /\ settled = None /\ encFile' = model.enc
        /\ step' = "adapters" /\ pending = {d \in Domains : model.adp[d] # 0}
        /\ reused = {} /\ restored = {}
        /\ UNCHANGED <<releases, settled, model, adpFile, index, pending, reused, restored>>
    BY DropState DEF IInv, StoringSound, Storing
  <2>2. AdaptersWritten(pending)'
    BY <2>1 DEF AdaptersWritten
  <2> HIDE DEF StoreEncoder
  <2> QED
    BY <2>1, <2>2 DEF StoringSound, AdaptersWritten
<1>9. SettledSound'
  BY DEF IInv, SettledSound, StoringSound, Storing
<1> QED
  BY <1>1, <1>2, <1>3, <1>4, <1>5, <1>6, <1>7, <1>8, <1>9 DEF IInv

\* The invariant is kept by StoreAdapter.
LEMMA StoreAdapterKeeps == ASSUME IInv, StoreAdapter PROVE IInv'
<1> USE DEF StoreAdapter, source, cache, published, run
<1>1. TypeOK'
  <2>1. First(pending) \in Domains /\ model.adp \in [Domains -> Nat]
    BY FirstIsMember, Typing, ModelFields DEF IInv, StoringSound, Storing
  <2>2. adpFile' \in [Domains -> Nat]
    BY <2>1 DEF IInv, TypeOK
  <2>3. UNCHANGED <<source, index, encFile, records, published, cached, full, reused, todo,
                    attempt, model, restored>>
    OBVIOUS
  <2> HIDE DEF StoreAdapter
  <2> QED
    BY <2>2, <2>3 DEF IInv, TypeOK, Used
<1>2. Releases'
  BY DEF IInv, Releases
<1>3. RecordsSound'
  BY DEF IInv, RecordsSound
<1>4. HeadsVerified'
  BY DEF IInv, HeadsVerified
<1>5. RunState'
  BY DEF IInv, RunState
<1>6. ReusedSound'
  BY DEF IInv, ReusedSound, Reads, Matches, SharedState, Intact, Storing
<1>7. ModelSound'
  BY DEF IInv, ModelSound, Current
<1>8. StoringSound'
  <2> DEFINE d == First(pending)
  <2>1. /\ d \in pending /\ d \in Domains /\ model.adp[d] # 0 /\ d \notin restored
        /\ pending \subseteq {e \in Domains : model.adp[e] # 0} \ restored
        /\ AdaptersWritten(pending) /\ releases # <<>> /\ settled = None
        /\ (reused = {} => encFile = model.enc) /\ adpFile \in [Domains -> Nat]
    BY FirstIsMember DEF IInv, StoringSound, Storing, TypeOK
  <2>2. /\ adpFile' = [adpFile EXCEPT ![d] = model.adp[d]] /\ pending' = pending \ {d}
        /\ step' = "adapters"
        /\ UNCHANGED <<releases, settled, model, index, encFile, reused, restored>>
    OBVIOUS
  <2> HIDE DEF StoreAdapter, d
  <2>3. AdaptersWritten(pending)'
    BY <2>1, <2>2 DEF AdaptersWritten
  <2> QED
    BY <2>1, <2>2, <2>3 DEF StoringSound, AdaptersWritten
<1>9. SettledSound'
  BY DEF IInv, SettledSound, StoringSound, Storing
<1> QED
  BY <1>1, <1>2, <1>3, <1>4, <1>5, <1>6, <1>7, <1>8, <1>9 DEF IInv

\* The invariant is kept by AdaptersStored: no adapter is left to write.
LEMMA AdaptersStoredKeeps == ASSUME IInv, AdaptersStored PROVE IInv'
<1> USE DEF AdaptersStored, source, cache, published, run
<1>1. TypeOK'
  BY DEF IInv, TypeOK
<1>2. Releases'
  BY DEF IInv, Releases
<1>3. RecordsSound'
  BY DEF IInv, RecordsSound
<1>4. HeadsVerified'
  BY DEF IInv, HeadsVerified
<1>5. RunState'
  BY DEF IInv, RunState, Steps, Building, Storing
<1>6. ReusedSound'
  BY DEF IInv, ReusedSound, Reads, Matches, SharedState, Intact, Storing
<1>7. ModelSound'
  BY DEF IInv, ModelSound, Current, Storing
<1>8. StoringSound'
  BY DEF IInv, StoringSound, AdaptersWritten, Trained, Record, StoredShared, Storing
<1>9. SettledSound'
  BY DEF IInv, SettledSound, Reusable, Intact, Matches, SharedState
<1> QED
  BY <1>1, <1>2, <1>3, <1>4, <1>5, <1>6, <1>7, <1>8, <1>9 DEF IInv

\* The invariant is kept by ClearFunction: the old record of a function goes
\* before the new one is written.
LEMMA ClearFunctionKeeps == ASSUME IInv, ClearFunction PROVE IInv'
<1> USE DEF ClearFunction, source, cache, published, run
<1>1. TypeOK'
  BY DEF IInv, TypeOK
<1>2. Releases'
  BY DEF IInv, Releases
<1>3. RecordsSound'
  BY DEF IInv, RecordsSound
<1>4. HeadsVerified'
  BY DEF IInv, HeadsVerified
<1>5. RunState'
  BY DEF IInv, RunState
<1>6. ReusedSound'
  <2>1. First(pending) \in Trained
    BY FirstIsMember DEF IInv, StoringSound, Storing
  <2>2. \A f \in reused : f \in Functions /\ f # First(pending) /\ records'[f] = records[f]
    BY <2>1, Typing DEF IInv, TypeOK, Trained
  <2>3. /\ step = "functions" /\ step' = "functions"
        /\ UNCHANGED <<source, index, encFile, adpFile, reused>>
    OBVIOUS
  <2> HIDE DEF ClearFunction
  <2> QED
    BY <2>2, <2>3 DEF IInv, ReusedSound, Reads, Matches, SharedState, Storing
<1>7. ModelSound'
  BY DEF IInv, ModelSound, Current
<1>8. StoringSound'
  <2>1. /\ First(pending) \in pending /\ AdaptersWritten({}) /\ pending \subseteq Trained
        /\ \A f \in Trained \ pending : records[f] = Record(f)
        /\ releases # <<>> /\ settled = None /\ (reused = {} => encFile = model.enc)
    BY FirstIsMember DEF IInv, StoringSound, Storing
  <2>2. /\ step' = "functions" /\ Trained' = Trained
        /\ UNCHANGED <<releases, settled, model, index, encFile, adpFile, reused, restored, pending>>
    BY DEF Trained
  <2>3. ASSUME NEW f \in (Trained \ pending)' PROVE (records[f] = Record(f))'
    <3>1. f \in Trained \ pending /\ f \in Functions /\ f # First(pending)
      BY <2>1, Typing DEF IInv, Trained
    <3> QED
      BY <2>1, <3>1 DEF Record, StoredShared, IInv, TypeOK
  <2>4. AdaptersWritten({})'
    BY <2>1, <2>2 DEF AdaptersWritten
  <2> HIDE DEF ClearFunction
  <2> QED
    BY <2>1, <2>2, <2>3, <2>4 DEF StoringSound, AdaptersWritten
<1>9. SettledSound'
  BY DEF IInv, SettledSound, StoringSound, Storing
<1> QED
  BY <1>1, <1>2, <1>3, <1>4, <1>5, <1>6, <1>7, <1>8, <1>9 DEF IInv

\* What the store writes for a trained function, once the adapters are stored.
LEMMA SharedOfTrained ==
  ASSUME IInv, step = "functions", NEW f \in Trained
  PROVE  /\ f \in Functions /\ f \in bundle /\ DomainOf[f] \in Domains
         /\ StoredShared(DomainOf[f]) = <<model.enc, model.adp[DomainOf[f]]>>
         /\ Current(f) /\ model.heads[f].passed /\ model.heads[f] \in HeadType
         /\ model.enc \in Nat /\ model.adp[DomainOf[f]] \in Nat
<1>1. /\ f \in Functions /\ f \in bundle /\ DomainOf[f] \in Domains
  BY Typing DEF IInv, Trained
<1>2. /\ todo = {} /\ DOMAIN model.heads = bundle /\ Current(f) /\ model.heads[f].passed
      /\ (reused # {} => model.enc = index.enc) /\ restored = Used(reused)
      /\ \A d \in restored : model.adp[d] = index.adp[d]
  BY <1>1 DEF IInv, RunState, ModelSound, Storing
<1>3. model.heads[f] \in HeadType /\ model.enc \in Nat /\ model.adp[DomainOf[f]] \in Nat
  BY <1>1, <1>2, Typing, ModelFields DEF IInv
<1>4. StoredShared(DomainOf[f]) = <<model.enc, model.adp[DomainOf[f]]>>
  BY <1>2 DEF StoredShared
<1> QED
  BY <1>1, <1>2, <1>3, <1>4

\* The record written for a trained function is a record.
LEMMA RecordTyped ==
  ASSUME IInv, step = "functions", NEW f \in Trained
  PROVE  Record(f) \in RecordType
<1>1. /\ recipe \in Recipes /\ depth \in [Domains -> Depths] /\ data \in [Functions -> Nat]
  BY DEF IInv, TypeOK
<1> QED
  BY <1>1, SharedOfTrained DEF Record, RecordType

\* The record that is written describes its head, its settings and its data.
LEMMA StoredRecord ==
  ASSUME IInv, StoreFunction
  PROVE  LET r == Record(First(pending)) IN
         /\ r \in RecordType /\ r.shared = <<r.head.enc, r.head.adp>> /\ r.head.passed
         /\ r.head.recipe = r.recipe /\ r.head.depth = r.depth /\ r.head.data = r.data
<1> DEFINE f == First(pending)
<1>1. f \in Trained /\ step = "functions"
  BY FirstIsMember DEF IInv, StoringSound, Storing, StoreFunction
<1> HIDE DEF f
<1>3. /\ Record(f).recipe = recipe /\ Record(f).depth = depth[DomainOf[f]]
      /\ Record(f).data = data[f] /\ Record(f).head = model.heads[f]
      /\ Record(f).shared = <<model.enc, model.adp[DomainOf[f]]>>
  BY <1>1, SharedOfTrained DEF Record
<1>4. Record(f) \in RecordType
  BY <1>1, RecordTyped
<1> QED
  BY <1>1, <1>3, <1>4, SharedOfTrained DEF Current, f

\* The invariant is kept by StoreFunction: a record is written.
LEMMA StoreFunctionKeeps == ASSUME IInv, StoreFunction PROVE IInv'
<1> USE DEF StoreFunction, source, cache, published, run
<1>1. TypeOK'
  <2>1. Record(First(pending)) \in RecordType
    BY StoredRecord
  <2>2. records' \in [Functions -> RecordType \cup {None}]
    BY <2>1 DEF IInv, TypeOK
  <2>3. UNCHANGED <<source, index, encFile, adpFile, published, cached, full, reused, todo,
                    attempt, model, restored>>
    OBVIOUS
  <2> HIDE DEF StoreFunction
  <2> QED
    BY <2>2, <2>3 DEF IInv, TypeOK, Used
<1>2. Releases'
  BY DEF IInv, Releases
<1>3. RecordsSound'
  <2>1. \A f \in Functions :
          records'[f] = IF f = First(pending) THEN Record(f) ELSE records[f]
    BY DEF IInv, TypeOK
  <2> HIDE DEF StoreFunction
  <2> QED
    BY <2>1, StoredRecord DEF IInv, RecordsSound
<1>4. HeadsVerified'
  BY DEF IInv, HeadsVerified
<1>5. RunState'
  BY DEF IInv, RunState
<1>6. ReusedSound'
  <2>1. First(pending) \in Trained
    BY FirstIsMember DEF IInv, StoringSound, Storing
  <2>2. \A f \in reused : f \in Functions /\ f # First(pending) /\ records'[f] = records[f]
    BY <2>1, Typing DEF IInv, TypeOK, Trained
  <2>3. /\ step = "functions" /\ step' = "functions"
        /\ UNCHANGED <<source, index, encFile, adpFile, reused>>
    OBVIOUS
  <2> HIDE DEF StoreFunction
  <2> QED
    BY <2>2, <2>3 DEF IInv, ReusedSound, Reads, Matches, SharedState, Storing
<1>7. ModelSound'
  BY DEF IInv, ModelSound, Current
<1>8. StoringSound'
  <2>1. /\ First(pending) \in pending /\ AdaptersWritten({}) /\ pending \subseteq Trained
        /\ \A f \in Trained \ pending : records[f] = Record(f)
        /\ releases # <<>> /\ settled = None /\ (reused = {} => encFile = model.enc)
    BY FirstIsMember DEF IInv, StoringSound, Storing
  <2>2. /\ step' = "functions" /\ Trained' = Trained /\ pending' \subseteq Trained'
        /\ UNCHANGED <<releases, settled, model, index, encFile, adpFile, reused, restored>>
    BY <2>1 DEF Trained
  <2>3. ASSUME NEW f \in (Trained \ pending)' PROVE (records[f] = Record(f))'
    <3>1. f \in Trained /\ f \in Functions /\ (f = First(pending) \/ f \in Trained \ pending)
      BY <2>1, Typing DEF IInv, Trained
    <3>2. records'[f] = Record(f)
      BY <2>1, <3>1 DEF IInv, TypeOK
    <3> QED
      BY <3>2 DEF Record, StoredShared
  <2>4. AdaptersWritten({})'
    BY <2>1, <2>2 DEF AdaptersWritten
  <2> HIDE DEF StoreFunction
  <2> QED
    BY <2>1, <2>2, <2>3, <2>4 DEF StoringSound, AdaptersWritten
<1>9. SettledSound'
  BY DEF IInv, SettledSound, Reusable, Intact, Matches, SharedState
<1> QED
  BY <1>1, <1>2, <1>3, <1>4, <1>5, <1>6, <1>7, <1>8, <1>9 DEF IInv

\* The index that closes a store names the files on disk and the settings of
\* the bundle, and every function of the bundle reads as unchanged under it.
LEMMA NewIndexSound ==
  ASSUME IInv, step = "functions", pending = {}
  PROVE  /\ NewIndex \in IndexType /\ NewIndex # None /\ NewIndex.enc = encFile
         /\ NewIndex.release \in DOMAIN releases
         /\ \A d \in Domains : NewIndex.adp[d] # 0 => adpFile[d] = NewIndex.adp[d]
         /\ \A f \in bundle :
              /\ f \in Functions /\ NewIndex.adp[DomainOf[f]] # 0 /\ records[f] # None
              /\ records[f].shared = <<NewIndex.enc, NewIndex.adp[DomainOf[f]]>>
              /\ records[f].recipe = recipe /\ records[f].depth = depth[DomainOf[f]]
              /\ records[f].data = data[f]
<1> DEFINE a == [d \in Domains |->
                  IF reused # {} /\ (d \in restored \/ model.adp[d] = 0) THEN index.adp[d]
                  ELSE model.adp[d]]
           e == IF reused = {} THEN model.enc ELSE index.enc
<1>1. NewIndex = [enc |-> e, adp |-> a, release |-> Len(releases)]
  BY DEF NewIndex
<1>2. /\ model.enc \in Nat /\ model.adp \in [Domains -> Nat]
      /\ (index # None => index.enc \in Nat /\ index.adp \in [Domains -> Nat])
  BY Typing, ModelFields DEF IInv, TypeOK, IndexType
<1>3. Len(releases) \in DOMAIN releases /\ Len(releases) \in Nat
  BY DEF IInv, Releases, StoringSound, Storing
<1>4. e = encFile /\ (reused # {} => index # None) /\ e \in Nat
  BY <1>2 DEF IInv, StoringSound, Storing, ReusedSound
<1>5. a \in [Domains -> Nat]
  BY <1>2, <1>4
<1>6. restored = Used(reused) /\ AdaptersWritten({}) /\ \A d \in restored :
        index.adp[d] # 0 /\ model.adp[d] = index.adp[d] /\ adpFile[d] = index.adp[d]
  BY DEF IInv, StoringSound, Storing, ModelSound
<1>7. ASSUME NEW d \in Domains, a[d] # 0 PROVE adpFile[d] = a[d]
  <2>1. CASE reused # {} /\ d \in restored
    BY <2>1, <1>6
  <2>2. CASE reused # {} /\ d \notin restored /\ model.adp[d] = 0
    BY <2>2, <1>6, <1>7 DEF AdaptersWritten
  <2>3. CASE d \notin restored /\ model.adp[d] # 0
    BY <2>3, <1>6, <1>7 DEF AdaptersWritten
  <2>4. CASE reused = {} /\ model.adp[d] = 0
    BY <2>4, <1>7
  <2>5. reused = {} => restored = {}
    BY <1>6 DEF Used
  <2> QED
    BY <2>1, <2>2, <2>3, <2>4, <2>5
<1>8. ASSUME NEW f \in bundle
      PROVE  /\ f \in Functions /\ a[DomainOf[f]] # 0 /\ records[f] # None
             /\ records[f].shared = <<e, a[DomainOf[f]]>>
             /\ records[f].recipe = recipe /\ records[f].depth = depth[DomainOf[f]]
             /\ records[f].data = data[f]
  <2>0. f \in Functions /\ DomainOf[f] \in Domains
    BY Typing DEF IInv
  <2>1. CASE f \in reused
    <3>1. /\ DomainOf[f] \in restored /\ reused # {} /\ e = index.enc
      BY <2>1, <1>6 DEF Used
    <3>2. a[DomainOf[f]] = index.adp[DomainOf[f]] /\ index.adp[DomainOf[f]] # 0
      BY <2>0, <3>1, <1>6
    <3>3. Reads(f) /\ records[f].data = data[f]
      BY <2>1 DEF IInv, ReusedSound
    <3> HIDE DEF a, e
    <3> QED
      BY <2>0, <3>1, <3>2, <3>3 DEF Reads, Matches, SharedState
  <2>2. CASE f \notin reused
    <3>1. f \in Trained /\ records[f] = Record(f) /\ Current(f)
      BY <2>2, SharedOfTrained DEF IInv, StoringSound, Storing, Trained
    <3>2. model.adp[DomainOf[f]] # 0 /\ e = model.enc
      BY <3>1 DEF Current, IInv, ModelSound, Storing
    <3>3. a[DomainOf[f]] = model.adp[DomainOf[f]]
      BY <2>0, <3>2, <1>6
    <3>4. /\ records[f].shared = <<model.enc, model.adp[DomainOf[f]]>>
          /\ records[f].recipe = recipe /\ records[f].depth = depth[DomainOf[f]]
          /\ records[f].data = data[f]
      BY <3>1, SharedOfTrained DEF Record
    <3>5. records[f] # None
      BY BuildCacheAssumption, <3>1, RecordTyped
    <3> HIDE DEF a, e
    <3> QED
      BY <2>0, <3>2, <3>3, <3>4, <3>5
  <2> QED
    BY <2>1, <2>2
<1> HIDE DEF a, e
<1>9. NewIndex.enc = e /\ NewIndex.adp = a /\ NewIndex.release = Len(releases)
  BY <1>1
<1>10. NewIndex \in IndexType
  BY <1>1, <1>3, <1>4, <1>5 DEF IndexType
<1> QED
  BY BuildCacheAssumption, <1>3, <1>4, <1>7, <1>8, <1>9, <1>10

\* The invariant is kept by StoreIndex: the index closes the store, and the
\* run.
LEMMA StoreIndexKeeps == ASSUME IInv, StoreIndex PROVE IInv'
<1> USE DEF StoreIndex, source, cache, published, run, Finish
<1>1. TypeOK'
  <2>1. /\ index' \in IndexType /\ index'.release \in DOMAIN releases
    BY NewIndexSound
  <2> QED
    BY BuildCacheAssumption, <2>1, NoModelTyped DEF IInv, TypeOK, Used
<1>2. Releases'
  BY DEF IInv, Releases
<1>3. RecordsSound'
  BY DEF IInv, RecordsSound
<1>4. HeadsVerified'
  BY DEF IInv, HeadsVerified
<1>5. RunState'
  BY DEF IInv, RunState, Steps, Building, Storing
<1>6. ReusedSound'
  BY DEF IInv, ReusedSound
<1>7. ModelSound'
  BY DEF IInv, ModelSound, Building, Storing, Steps
<1>8. StoringSound'
  BY DEF IInv, StoringSound, Storing
<1>9. SettledSound'
  <2>1. /\ step = "functions" /\ pending = {}
        /\ index' = NewIndex /\ settled' = bundle /\ step' = "idle"
        /\ UNCHANGED <<encFile, adpFile, records, recipe, depth, data>>
    OBVIOUS
  <2>2. Intact'
    BY <2>1, NewIndexSound DEF Intact
  <2>3. ASSUME NEW f \in bundle
        PROVE  f \in Functions /\ Reusable(f)' /\ records'[f].data = data'[f]
    <3>1. Matches(f)'
      BY <2>1, NewIndexSound DEF Matches, SharedState
    <3> HIDE DEF StoreIndex
    <3> QED
      BY <2>1, <2>2, <3>1, NewIndexSound DEF Reusable
  <2> HIDE DEF StoreIndex
  <2> QED
    BY <2>1, <2>3 DEF SettledSound
<1> QED
  BY <1>1, <1>2, <1>3, <1>4, <1>5, <1>6, <1>7, <1>8, <1>9 DEF IInv

\* The invariant is kept by Damage: a file of the cache is no longer the one
\* recorded.
LEMMA DamageKeeps == ASSUME IInv, Damage PROVE IInv'
<1> USE DEF Damage, source, cache, published, run, Disturb
<1>1. TypeOK'
  BY DEF IInv, TypeOK
<1>2. Releases'
  BY DEF IInv, Releases
<1>3. RecordsSound'
  <2>1. \A f \in Functions : records'[f] = records[f] \/ records'[f] = None
    BY DEF IInv, TypeOK
  <2> HIDE DEF Damage
  <2> QED
    BY <2>1 DEF IInv, RecordsSound
<1>4. HeadsVerified'
  BY DEF IInv, HeadsVerified
<1>5. RunState'
  BY DEF IInv, RunState
<1>6. ReusedSound'
  BY DEF IInv, ReusedSound, RunState
<1>7. ModelSound'
  BY DEF IInv, ModelSound, RunState, Current
<1>8. StoringSound'
  BY DEF IInv, StoringSound
<1>9. SettledSound'
  BY DEF IInv, SettledSound
<1> QED
  BY <1>1, <1>2, <1>3, <1>4, <1>5, <1>6, <1>7, <1>8, <1>9 DEF IInv

\* The invariant is kept by Crash: the run dies and leaves the files it has
\* written.
LEMMA CrashKeeps == ASSUME IInv, Crash PROVE IInv'
<1> USE DEF Crash, source, cache, published, run, Finish, Disturb
<1>1. TypeOK'
  BY BuildCacheAssumption, NoModelTyped DEF IInv, TypeOK
<1>2. Releases'
  BY DEF IInv, Releases
<1>3. RecordsSound'
  BY DEF IInv, RecordsSound
<1>4. HeadsVerified'
  BY DEF IInv, HeadsVerified
<1>5. RunState'
  BY DEF IInv, RunState, Steps, Building, Storing
<1>6. ReusedSound'
  BY DEF IInv, ReusedSound
<1>7. ModelSound'
  BY DEF IInv, ModelSound, Building, Storing, Steps
<1>8. StoringSound'
  BY DEF IInv, StoringSound, Storing
<1>9. SettledSound'
  BY DEF IInv, SettledSound, StoringSound, Storing, Reusable, Intact, Matches, SharedState
<1> QED
  BY <1>1, <1>2, <1>3, <1>4, <1>5, <1>6, <1>7, <1>8, <1>9 DEF IInv

\* The invariant is kept by StartRun: a run starts over from the files.
LEMMA StartRunKeeps ==
  ASSUME IInv, NEW on \in BOOLEAN, NEW all \in BOOLEAN, StartRun(on, all)
  PROVE  IInv'
<1> USE DEF StartRun, source, cache, published, run, Disturb
<1>1. TypeOK'
  <2>1. /\ reused' \subseteq bundle /\ todo' \subseteq bundle /\ model' \in ModelOf({})
        /\ cached' \in BOOLEAN /\ full' \in BOOLEAN /\ attempt' = 0 /\ restored' = {}
        /\ UNCHANGED <<source, cache, published>>
    BY NoModelTyped
  <2> HIDE DEF StartRun
  <2> QED
    BY BuildCacheAssumption, <2>1 DEF IInv, TypeOK
<1>2. Releases'
  BY DEF IInv, Releases
<1>3. RecordsSound'
  BY DEF IInv, RecordsSound
<1>4. HeadsVerified'
  BY DEF IInv, HeadsVerified
<1>5. RunState'
  BY BuildCacheAssumption DEF IInv, RunState, Steps, Building, Storing
<1>6. ReusedSound'
  <2>1. /\ \A f \in reused' : Reusable(f) /\ step' \in {"stands", "datasets"}
        /\ UNCHANGED <<source, cache>>
    OBVIOUS
  <2> HIDE DEF StartRun
  <2> QED
    BY <2>1 DEF ReusedSound, Reads, Reusable, Intact, Matches, SharedState
<1>7. ModelSound'
  BY DEF IInv, ModelSound, Building, Storing, Steps
<1>8. StoringSound'
  BY DEF IInv, StoringSound, Storing
<1>9. SettledSound'
  BY DEF IInv, SettledSound, Reusable, Intact, Matches, SharedState
<1> QED
  BY <1>1, <1>2, <1>3, <1>4, <1>5, <1>6, <1>7, <1>8, <1>9 DEF IInv

\* The invariant is kept by EditBundle: functions come and go between runs.
LEMMA EditBundleKeeps ==
  ASSUME IInv, NEW functions \in Bundles, EditBundle(functions)
  PROVE  IInv'
<1> USE DEF EditBundle, source, cache, published, run, Disturb
<1>1. TypeOK'
  <2>1. /\ reused = {} /\ todo = {} /\ restored = {} /\ model \in ModelOf({})
    BY NoModelTyped DEF IInv, RunState
  <2> QED
    BY <2>1 DEF IInv, TypeOK
<1>2. Releases'
  BY DEF IInv, Releases
<1>3. RecordsSound'
  BY DEF IInv, RecordsSound
<1>4. HeadsVerified'
  BY DEF IInv, HeadsVerified
<1>5. RunState'
  BY DEF IInv, RunState
<1>6. ReusedSound'
  BY DEF IInv, ReusedSound, Reads, Matches, SharedState, Intact
<1>7. ModelSound'
  BY DEF IInv, ModelSound, Building, Storing, Steps
<1>8. StoringSound'
  BY DEF IInv, StoringSound
<1>9. SettledSound'
  BY DEF IInv, SettledSound, Reusable, Intact, Matches, SharedState
<1> QED
  BY <1>1, <1>2, <1>3, <1>4, <1>5, <1>6, <1>7, <1>8, <1>9 DEF IInv

\* The invariant is kept by EditSettings: the recipe or a depth changes between
\* runs.
LEMMA EditSettingsKeeps ==
  ASSUME IInv, NEW r \in Recipes, NEW ds \in [Domains -> Depths], EditSettings(r, ds)
  PROVE  IInv'
<1> USE DEF EditSettings, source, cache, published, run, Disturb
<1>1. TypeOK'
  BY DEF IInv, TypeOK
<1>2. Releases'
  BY DEF IInv, Releases
<1>3. RecordsSound'
  BY DEF IInv, RecordsSound
<1>4. HeadsVerified'
  BY DEF IInv, HeadsVerified
<1>5. RunState'
  BY DEF IInv, RunState
<1>6. ReusedSound'
  BY DEF IInv, ReusedSound, RunState
<1>7. ModelSound'
  BY DEF IInv, ModelSound, Building, Storing, Steps
<1>8. StoringSound'
  BY DEF IInv, StoringSound
<1>9. SettledSound'
  BY DEF IInv, SettledSound
<1> QED
  BY <1>1, <1>2, <1>3, <1>4, <1>5, <1>6, <1>7, <1>8, <1>9 DEF IInv

\* The invariant is kept by LoseDataset: a dataset is generated anew between
\* runs.
LEMMA LoseDatasetKeeps ==
  ASSUME IInv, NEW f \in Functions, LoseDataset(f)
  PROVE  IInv'
<1> USE DEF LoseDataset, source, cache, published, run, Disturb
<1>1. TypeOK'
  BY DEF IInv, TypeOK
<1>2. Releases'
  BY DEF IInv, Releases
<1>3. RecordsSound'
  BY DEF IInv, RecordsSound
<1>4. HeadsVerified'
  BY DEF IInv, HeadsVerified
<1>5. RunState'
  BY DEF IInv, RunState
<1>6. ReusedSound'
  BY DEF IInv, ReusedSound, RunState
<1>7. ModelSound'
  BY DEF IInv, ModelSound, Building, Storing, Steps
<1>8. StoringSound'
  BY DEF IInv, StoringSound
<1>9. SettledSound'
  BY DEF IInv, SettledSound
<1> QED
  BY <1>1, <1>2, <1>3, <1>4, <1>5, <1>6, <1>7, <1>8, <1>9 DEF IInv

\* The invariant is kept by PointAt: the operator makes another release
\* current.
LEMMA PointAtKeeps ==
  ASSUME IInv, NEW r \in DOMAIN releases, PointAt(r)
  PROVE  IInv'
<1> USE DEF PointAt, source, cache, published, run, Disturb
<1>1. TypeOK'
  BY DEF IInv, TypeOK
<1>2. Releases'
  BY DEF IInv, Releases
<1>3. RecordsSound'
  BY DEF IInv, RecordsSound
<1>4. HeadsVerified'
  BY DEF IInv, HeadsVerified
<1>5. RunState'
  BY DEF IInv, RunState
<1>6. ReusedSound'
  BY DEF IInv, ReusedSound, Reads, Matches, SharedState, Intact
<1>7. ModelSound'
  BY DEF IInv, ModelSound, Current
<1>8. StoringSound'
  BY DEF IInv, StoringSound
<1>9. SettledSound'
  BY DEF IInv, SettledSound, Reusable, Intact, Matches, SharedState
<1> QED
  BY <1>1, <1>2, <1>3, <1>4, <1>5, <1>6, <1>7, <1>8, <1>9 DEF IInv

\* The invariant holds of an empty cache.
LEMMA InitSound == ASSUME Init PROVE IInv
<1> USE DEF Init, NoFiles
<1>1. TypeOK
  <2>1. /\ recipe \in Recipes /\ depth \in [Domains -> Depths] /\ data \in [Functions -> Nat]
        /\ encFile \in Nat /\ adpFile \in [Domains -> Nat] /\ attempt \in 0..Attempts
        /\ records \in [Functions -> RecordType \cup {None}]
    BY BuildCacheAssumption
  <2>2. \E set \in SUBSET bundle : model \in ModelOf(set)
    BY NoModelTyped
  <2>3. DOMAIN releases = {}
    OBVIOUS
  <2> QED
    BY <2>1, <2>2, <2>3 DEF TypeOK
<1>2. Releases /\ HeadsVerified
  BY DEF Releases, HeadsVerified
<1>3. RecordsSound
  BY DEF RecordsSound
<1>4. RunState
  BY DEF RunState, Steps, Building, Storing
<1>5. ReusedSound /\ ModelSound /\ StoringSound /\ SettledSound
  BY DEF ReusedSound, ModelSound, StoringSound, SettledSound, Building, Storing
<1> QED
  BY <1>1, <1>2, <1>3, <1>4, <1>5 DEF IInv

\* The invariant is about the variables of the specification only.
LEMMA StutterSound == ASSUME IInv, UNCHANGED vars PROVE IInv'
<1> USE DEF vars, source, cache, published, run
<1>1. TypeOK'
  BY DEF IInv, TypeOK
<1>2. Releases' /\ HeadsVerified' /\ RecordsSound'
  BY DEF IInv, Releases, HeadsVerified, RecordsSound
<1>3. RunState'
  BY DEF IInv, RunState
<1>4. ReusedSound'
  BY DEF IInv, ReusedSound, Reads, Matches, SharedState, Intact
<1>5. ModelSound'
  BY DEF IInv, ModelSound, Current
<1>6. StoringSound'
  BY DEF IInv, StoringSound, AdaptersWritten, Trained, Record, StoredShared
<1>7. SettledSound'
  BY DEF IInv, SettledSound, Reusable, Intact, Matches, SharedState
<1> QED
  BY <1>1, <1>2, <1>3, <1>4, <1>5, <1>6, <1>7 DEF IInv

\* Every step of the specification keeps the invariant.
LEMMA StepSound == ASSUME IInv, [Next]_vars PROVE IInv'
<1>1. CASE TrainStep
  BY <1>1, ReuseKeeps, LoadDatasetsKeeps, RestoreKeeps, TrainJointlyKeeps, AddHeadKeeps,
     PassesKeeps, FailsNarrowlyKeeps, FailsKeeps, ExportKeeps, DropPreviousKeeps,
     StoreEncoderKeeps, StoreAdapterKeeps, AdaptersStoredKeeps, ClearFunctionKeeps,
     StoreFunctionKeeps, StoreIndexKeeps DEF TrainStep
<1>2. CASE User
  BY <1>2, StartRunKeeps, EditBundleKeeps, EditSettingsKeeps, LoseDatasetKeeps, DamageKeeps,
     CrashKeeps, PointAtKeeps DEF User
<1>3. CASE UNCHANGED vars
  BY <1>3, StutterSound
<1> QED
  BY <1>1, <1>2, <1>3 DEF Next

\* The invariant holds in every state of every behavior.
LEMMA InvariantHolds == Spec => []IInv
  BY InitSound, StepSound, PTL DEF Spec

----------------------------------------------------------------------------
\* What the invariant says of the runs

\* Nothing the run means to reuse is refused when it is restored.
LEMMA RestoreFollows == ASSUME IInv PROVE RestoreNeverRefused
<1> SUFFICES ASSUME step \in {"stands", "attempt"}, NEW f \in reused
             PROVE  /\ records[f].head.enc = encFile
                    /\ records[f].head.adp = adpFile[DomainOf[f]]
  BY DEF RestoreNeverRefused
<1>1. /\ f \in Functions /\ DomainOf[f] \in Domains /\ Intact /\ Matches(f) /\ records[f] # None
  BY Typing DEF IInv, ReusedSound, TypeOK, Storing, Reads
<1>2. /\ records[f].shared = <<records[f].head.enc, records[f].head.adp>>
      /\ records[f].shared \in Nat \X Nat
  BY <1>1 DEF IInv, RecordsSound, TypeOK, RecordType
<1>3. index.adp[DomainOf[f]] # 0
  BY BuildCacheAssumption, <1>1, <1>2 DEF Matches, SharedState
<1> QED
  BY <1>1, <1>2, <1>3 DEF Matches, SharedState, Intact

\* Every head a run exports belongs to its settings, its data and its encoder.
LEMMA CurrentFollows == ASSUME IInv PROVE HeadsCurrent
<1>1. step = "export" => DOMAIN model.heads = bundle /\ \A f \in bundle : Current(f)
  BY DEF IInv, ModelSound, RunState, Building
<1>2. ASSUME step = "export", NEW f \in bundle, NEW h, h = model.heads[f]
      PROVE  h = [TrainedHead(f, model, h.version) EXCEPT !.passed = h.passed]
  <2>1. h \in HeadType
    BY <1>1, <1>2, Typing, ModelFields DEF IInv
  <2>2. /\ h.recipe = recipe /\ h.depth = depth[DomainOf[f]] /\ h.data = data[f]
        /\ h.enc = model.enc /\ h.adp = model.adp[DomainOf[f]]
    BY <1>1, <1>2 DEF Current
  <2>3. h = [recipe |-> h.recipe, depth |-> h.depth, data |-> h.data, enc |-> h.enc,
             adp |-> h.adp, version |-> h.version, passed |-> h.passed]
    BY <2>1 DEF HeadType
  <2> QED
    BY <2>2, <2>3 DEF TrainedHead
<1> QED
  BY <1>1, <1>2 DEF HeadsCurrent

\* A run after a settled one trains nothing the settled run holds.
LEMMA OnlyChangedFollows == ASSUME IInv PROVE OnlyChangedTrain
  BY DEF IInv, SettledSound, OnlyChangedTrain

\* Every state of the build cache has its type: the files, records and index on
\* disk, the releases exported, and the model of the run at hand.
THEOREM TypeCorrect == Spec => []TypeOK
<1>1. IInv => TypeOK
  BY DEF IInv
<1> QED
  BY <1>1, InvariantHolds, PTL

\* RestoreNeverRefused: when a run restores what it read as unchanged, no head is
\* refused for belonging to another encoder or adapter (_rehydrate_application).
THEOREM RestoreAccepted == Spec => []RestoreNeverRefused
  BY RestoreFollows, InvariantHolds, PTL

\* HeadsCurrent: what a run exports was trained from the sources and settings it
\* was started with, whether its heads were trained now or restored.
THEOREM ExportsCurrentHeads == Spec => []HeadsCurrent
  BY CurrentFollows, InvariantHolds, PTL

\* HeadsVerified: no release holds a head that has not passed verification.
THEOREM PublishesVerifiedHeads == Spec => []HeadsVerified
<1>1. IInv => HeadsVerified
  BY DEF IInv
<1> QED
  BY <1>1, InvariantHolds, PTL

\* OnlyChangedTrain: after a run that finished, and until settings, data or the
\* cache change, a run of any other bundle trains no function the finished one holds.
THEOREM TrainsOnlyWhatChanged == Spec => []OnlyChangedTrain
  BY OnlyChangedFollows, InvariantHolds, PTL

=============================================================================
