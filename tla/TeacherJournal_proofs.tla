----------------------- MODULE TeacherJournal_proofs -----------------------
(***************************************************************************)
(* Proofs about the teacher's journal and spend, for every number of       *)
(* cases, rounds, constraints and anchors, every price and every cap.  The *)
(* invariant ties three things that different parts of the code keep: the  *)
(* occurrence numbers a run gives its requests (they stay within the       *)
(* attempts and rounds of the configuration, so that a key names one       *)
(* request of one round), the answers and handles on disk (what is paid    *)
(* for is recorded, in flight or excused), and the meter (what is sent is  *)
(* charged, or owed by the batch at hand).                                 *)
(***************************************************************************)
EXTENDS TeacherJournal, FiniteSetTheorems, TLAPS

\* The steps of a direct request, and those of a batch.
Asking == {"ask", "send", "store", "decode"}
Batching == {"open", "submit", "record", "collect", "settle", "count"}

\* A batch of n cases, as the provider keeps it.
BatchOf(n) == [result : [1..n -> Outcome], out : Outs, gone : BOOLEAN]

\* The provider's batches; TLC cannot enumerate the union.
BatchesSequence == batches \in Seq(UNION {BatchOf(n) : n \in 1..Cases})

\* A recorded handle, and the one at hand, name a batch of as many cases as the
\* round asks for.
BatchesSound ==
  /\ \A b \in BatchKey : handles[b].id # 0 => batches[handles[b].id] \in BatchOf(b[1][2])
  /\ step \in Batching \ {"open", "count"} => bkey[1][2] = at.total
  /\ step \in {"record", "collect", "settle"} => handle # 0 /\ batches[handle] \in BatchOf(at.total)

\* Where the loops of the run are: a round asks for the cases it lacks, a proposal
\* is for a constraint or an anchor there is, pairs and skipped anchors are bounded.
StageSound ==
  /\ step = "idle" <=> stage \in {"off", "done"}
  /\ step \in Batching => stage = "base" /\ Journaled
  /\ step = "store" => Journaled
  /\ stage = "boundary" => step \in Asking
  /\ stage = "base" /\ step # "publish" => at.kept + at.total = Cases /\ at.total > 0
  /\ stage = "base" /\ step \in Asking => at.index \in 1..at.total /\ at.good < at.index
  /\ step = "count" => at.good <= at.total
  /\ stage = "boundary" => at.index \in 1..Constraints
  /\ stage = "twin" /\ step \in Asking => /\ at.index \in 1..Candidates
                                          /\ at.pairs < Wanted /\ at.skipped <= Wanted

\* How often the run has numbered a request: at most once a round for a case or a
\* batch, at most once an attempt for a proposal, never for one it has not come to.
AskedSound ==
  /\ seen \in [Request \cup BatchRequest -> Nat]
  /\ stage = "base" =>
       /\ \A r \in Request \cup BatchRequest :
            seen[r] <= IF r[1] \in {"case", "batch"} THEN at.round + 1 ELSE 0
       /\ step = "ask" => \A i \in at.index..at.total : seen[<<"case", i, at.total>>] <= at.round
       /\ step \in Asking => \A i \in (at.index + 1)..at.total :
                              seen[<<"case", i, at.total>>] <= at.round
       /\ step = "open" => seen[<<"batch", at.total, 0>>] <= at.round
  /\ stage = "boundary" =>
       /\ \A i \in 1..Candidates : seen[<<"twin", i, 0>>] = 0
       /\ \A i \in (at.index + 1)..Constraints : seen[<<"boundary", i, 0>>] = 0
       /\ seen[<<"boundary", at.index, 0>>] < at.attempt + (IF step = "ask" THEN 0 ELSE 1)
  /\ stage = "twin" /\ step \in Asking =>
       /\ \A i \in (at.index + 1)..Candidates : seen[<<"twin", i, 0>>] = 0
       /\ seen[<<"twin", at.index, 0>>] < at.attempt + (IF step = "ask" THEN 0 ELSE 1)

\* What the batch at hand will be charged.
Owed == Answered(batches[handle].result) * Price(batches[handle].out)

\* What was sent is on the meter, but for the batch at hand, and a batch that is
\* resumed or replayed was not sent by this run.
SpendSound ==
  /\ step \notin {"record", "collect", "idle"} => sent <= cost
  /\ step \in {"submit", "record"} => ~resumed /\ ~replay
  /\ step = "collect" => IF resumed THEN sent <= cost ELSE ~replay
  /\ step \in {"record", "collect"} /\ ~resumed => sent <= cost + Owed

\* The key was paid for and is about to be recorded.
InFlight(k) == (step = "store" /\ k = key) \/ (step = "record" /\ k = bkey)

\* A payment is recorded, in flight or excused, and only an unrecorded key is sent.
PaidSound ==
  /\ \A k \in Key : bills[k] <= excuse[k] + (IF Recorded(k) \/ InFlight(k) THEN 1 ELSE 0)
  /\ step = "send" /\ Journaled => journal[key] = None
  /\ step \in {"submit", "record"} => handles[bkey].id = 0

\* The inductive invariant.
IInv == /\ TypeOK /\ BatchesSequence /\ BatchesSound /\ StageSound /\ AskedSound /\ SpendSound
        /\ PaidSound /\ CapHolds

\* No adversarial request has been numbered from index i on.
AskedAdversarial(i, counts) ==
  /\ \A j \in i..Candidates : counts[<<"twin", j, 0>>] = 0
  /\ \A j \in i..Constraints : counts[<<"boundary", j, 0>>] = 0

----------------------------------------------------------------------------
\* Constants, loops, prices and keys

\* What the assumption says of each constant that is a number.
LEMMA Constants ==
  /\ Threshold \in Nat /\ Rounds \in Nat /\ Constraints \in Nat /\ Candidates \in Nat
  /\ Wanted \in Nat /\ Prompt \in Nat /\ Default \in Nat /\ Direct \in Nat /\ Cap \in Nat
  /\ MaxBad \in Nat /\ MaxFaults \in Nat /\ Cases \in Nat /\ Attempts \in Nat
  /\ Cases > 0 /\ Attempts > 0 /\ Wanted <= Candidates
  BY JournalAssumption

\* The loop variables a stage or a round starts with.
LEMMA LoopsStart ==
  ASSUME NEW k \in 0..Cases, NEW round \in 0..Rounds
  PROVE  /\ Loops(k, round) \in StageAtHand
         /\ Loops(k, round).round = round /\ Loops(k, round).kept = k
         /\ Loops(k, round).total = Cases - k /\ Loops(k, round).index = 1
         /\ Loops(k, round).good = 0 /\ Loops(k, round).attempt = 1
         /\ Loops(k, round).pairs = 0 /\ Loops(k, round).skipped = 0
  BY Constants DEF Loops, StageAtHand

\* The loop variables stay in their ranges.
LEMMA LoopsTyped ==
  ASSUME TypeOK
  PROVE  /\ at.round \in 0..Rounds /\ at.kept \in 0..Cases /\ at.total \in 0..Cases
         /\ at.good \in 0..Cases /\ at.attempt \in 1..Attempts /\ at.pairs \in 0..Wanted
         /\ at.skipped \in 0..(Wanted + 1)
         /\ at.index \in Nat /\ at.round \in Nat /\ at.kept \in Nat /\ at.total \in Nat
         /\ at.good \in Nat /\ at.attempt \in Nat /\ at.pairs \in Nat /\ at.skipped \in Nat
<1>1. /\ at.round \in 0..Rounds /\ at.kept \in 0..Cases /\ at.total \in 0..Cases
      /\ at.good \in 0..Cases /\ at.attempt \in 1..Attempts /\ at.pairs \in 0..Wanted
      /\ at.skipped \in 0..(Wanted + 1) /\ at.index \in Nat
  BY DEF TypeOK, StageAtHand
<1> QED
  BY <1>1, Constants

\* The larger of two numbers.
LEMMA MaxOfTwo ==
  ASSUME NEW m \in Nat, NEW n \in Nat
  PROVE  Max({m, n}) \in Nat /\ m <= Max({m, n}) /\ n <= Max({m, n})
<1>1. \E x \in {m, n} : \A y \in {m, n} : x >= y
  OBVIOUS
<1> QED
  BY <1>1 DEF Max

\* Every occurrence within the attempts or the rounds has a key.
LEMMA TimesCover ==
  ASSUME NEW n \in Nat, n > 0, n <= Attempts \/ n <= Rounds + 1
  PROVE  n \in Times
  BY MaxOfTwo, Constants DEF Times

\* A request and a batch never share a key.
LEMMA KeysApart == AnswerKey \cap BatchKey = {}
  BY DEF AnswerKey, BatchKey, Request, BatchRequest

\* No answer is longer than what is reserved before the first one, and Slack.
LEMMA SlackBounds ==
  /\ Slack \in Nat
  /\ \A out \in Outs : out \in Nat /\ out <= Slack + ((Default * 5 + 3) \div 4)
<1>1. PICK longest \in Outs : \A out \in Outs : out <= longest
  BY JournalAssumption
<1>2. Max(Outs) \in Outs /\ \A out \in Outs : out <= Max(Outs)
  BY <1>1 DEF Max
<1>3. (Default * 5 + 3) \div 4 \in Nat
  BY Constants
<1> DEFINE top == Max(Outs)
           low == (Default * 5 + 3) \div 4
<1>4. Slack = IF top > low THEN top - low ELSE 0
  BY DEF Slack
<1>5. top \in Nat /\ low \in Nat /\ \A out \in Outs : out \in Nat /\ out <= top
  BY <1>2, <1>3, JournalAssumption
<1> HIDE DEF top, low
<1>6. Slack \in Nat /\ \A out \in Outs : out \in Nat /\ out <= Slack + low
  BY <1>4, <1>5
<1> QED
  BY <1>6 DEF low

\* SpendMeter.reserve: an answer costs at most Slack more than its estimate.
LEMMA PriceBounds ==
  ASSUME largest \in Nat, NEW out \in Outs
  PROVE  /\ Price(out) \in Nat /\ Estimate \in Nat /\ Price(out) <= Estimate + Slack
<1>1. ExpectedOutput \in Nat /\ (Default * 5 + 3) \div 4 <= ExpectedOutput
  BY Constants DEF ExpectedOutput
<1>2. (Default * 5 + 3) \div 4 \in Nat
  BY Constants
<1> QED
  BY <1>1, <1>2, SlackBounds, Constants DEF Price, Estimate

\* A batch has at most as many answers, and rejections, as cases.
LEMMA CountBounds ==
  ASSUME NEW n \in Nat, NEW result \in [1..n -> Outcome]
  PROVE  /\ Answered(result) \in 0..n /\ NotOk(result) \in 0..n
<1>1. IsFiniteSet(1..n) /\ Cardinality(1..n) = n
  <2>1. 1 \in Int /\ n \in Int
    OBVIOUS
  <2>2. IsFiniteSet(1..n) /\ Cardinality(1..n) = IF 1 > n THEN 0 ELSE n - 1 + 1
    BY <2>1, FS_Interval, Zenon
  <2> QED
    BY <2>2
<1>2. ASSUME NEW set \in SUBSET (1..n) PROVE Cardinality(set) \in 0..n
  <2>1. IsFiniteSet(set) /\ Cardinality(set) <= Cardinality(1..n)
    BY <1>1, FS_Subset
  <2>2. Cardinality(set) \in Nat
    BY <2>1, FS_CardinalityType
  <2> QED
    BY <1>1, <2>1, <2>2
<1> QED
  BY <1>2 DEF Answered, NotOk

\* The batch at hand has the cases of the round, and a bounded price.
LEMMA CollectedBatch ==
  ASSUME IInv, step \in {"record", "collect", "settle"}
  PROVE  /\ batches[handle] \in BatchOf(at.total) /\ at.total \in 1..Cases /\ handle # 0
         /\ NotOk(batches[handle].result) \in 0..at.total
         /\ Owed \in Nat /\ batches[handle].out \in Nat
<1>1. stage = "base" /\ step # "publish" /\ handle # 0 /\ batches[handle] \in BatchOf(at.total)
  BY DEF IInv, StageSound, Batching, BatchesSound
<1>2. at.total \in 1..Cases /\ at.total \in Nat
  BY <1>1, LoopsTyped, Constants DEF IInv, StageSound
<1>3. batches[handle].result \in [1..at.total -> Outcome] /\ batches[handle].out \in Outs
  BY <1>1 DEF BatchOf
<1>4. /\ Answered(batches[handle].result) \in Nat
      /\ NotOk(batches[handle].result) \in 0..at.total
  <2>1. /\ Answered(batches[handle].result) \in 0..at.total
        /\ NotOk(batches[handle].result) \in 0..at.total
    BY <1>2, <1>3, CountBounds, Zenon
  <2> QED
    BY <1>2, <2>1
<1>5. Price(batches[handle].out) \in Nat /\ batches[handle].out \in Nat
  BY <1>3, PriceBounds, SlackBounds DEF IInv, TypeOK
<1>6. Owed \in Nat
  BY <1>4, <1>5 DEF Owed
<1> QED
  BY <1>1, <1>2, <1>4, <1>5, <1>6

\* A direct request belongs to a stage of the run.
LEMMA StageOfStep ==
  ASSUME IInv, step \in Asking
  PROVE  stage \in {"base", "boundary", "twin"}
  BY DEF IInv, TypeOK, StageSound, Asking

\* The request at hand is one of the function.
LEMMA RequestInRange ==
  ASSUME IInv, step \in Asking
  PROVE  RequestAtHand \in Request
<1>1. CASE stage = "base"
  <2>1. at.index \in 1..at.total /\ at.total \in 1..Cases
    BY <1>1, LoopsTyped, Constants DEF IInv, StageSound, Asking
  <2> QED
    BY <1>1, <2>1, Constants DEF RequestAtHand, Request
<1>2. CASE stage = "boundary"
  BY <1>2 DEF IInv, StageSound, RequestAtHand, Request
<1>3. CASE stage = "twin"
  BY <1>3 DEF IInv, StageSound, RequestAtHand, Request
<1> QED
  BY <1>1, <1>2, <1>3, StageOfStep

\* The key a request is given is a key: its occurrence is within the attempts or
\* the rounds.
LEMMA KeyInRange ==
  ASSUME IInv, step = "ask"
  PROVE  /\ seen[RequestAtHand] \in Nat
         /\ <<RequestAtHand, seen[RequestAtHand] + 1>> \in AnswerKey
<1>1. step \in Asking /\ RequestAtHand \in Request
  BY RequestInRange DEF Asking
<1>2. seen[RequestAtHand] \in Nat
  BY <1>1 DEF IInv, AskedSound
<1>3. at.round \in 0..Rounds /\ at.attempt \in 1..Attempts /\ at.index \in Nat /\ at.total \in Nat
  BY LoopsTyped DEF IInv
<1>4. seen[RequestAtHand] < Attempts \/ seen[RequestAtHand] <= Rounds
  <2>1. CASE stage = "base"
    <3>1. at.index \in at.index..at.total
      BY <1>1, <1>3, <2>1 DEF IInv, StageSound, Asking
    <3>2. seen[<<"case", at.index, at.total>>] <= at.round
      BY <2>1, <3>1 DEF IInv, AskedSound
    <3> QED
      BY <1>2, <1>3, <2>1, <3>2, Constants DEF RequestAtHand
  <2>2. CASE stage = "boundary"
    BY <1>2, <1>3, <2>2, Constants DEF IInv, AskedSound, RequestAtHand
  <2>3. CASE stage = "twin"
    BY <1>1, <1>2, <1>3, <2>3, Constants DEF IInv, AskedSound, RequestAtHand
  <2> QED
    BY <1>1, <2>1, <2>2, <2>3, StageOfStep
<1>5. seen[RequestAtHand] + 1 \in Times
  BY <1>2, <1>4, TimesCover, Constants
<1> QED
  BY <1>1, <1>2, <1>5 DEF AnswerKey

\* The requests of a round are requests of the function.
LEMMA CaseInRange ==
  ASSUME IInv, stage = "base", step # "publish"
  PROVE  /\ \A i \in 1..at.total : <<"case", i, at.total>> \in Request
         /\ \A i \in (at.index + 1)..at.total : <<"case", i, at.total>> \in Request
         /\ <<"batch", at.total, 0>> \in BatchRequest
<1>1. at.total \in 1..Cases /\ at.index \in Nat
  BY LoopsTyped, Constants DEF IInv, StageSound
<1> QED
  BY <1>1, Constants DEF Request, BatchRequest

----------------------------------------------------------------------------
\* Every step keeps the invariant

\* The invariant is kept when a run stops with nothing in flight: a refused
\* request, a failed one, a failed poll or publication.
LEMMA StopKeeps ==
  ASSUME IInv, step \notin {"store", "record"}, Stop
  PROVE  IInv'
<1> USE DEF disk, meter, batchAtHand, history, Stop, Leave
<1>1. TypeOK'
  BY DEF IInv, TypeOK
<1>2. BatchesSequence'
  BY Constants DEF IInv, BatchesSequence
<1>3. BatchesSound'
  BY DEF IInv, BatchesSound, Batching
<1>4. StageSound'
  BY DEF StageSound, Batching
<1>5. AskedSound'
  BY DEF IInv, AskedSound
<1>6. SpendSound'
  BY DEF SpendSound
<1>7. PaidSound'
  BY DEF IInv, PaidSound, InFlight, Recorded
<1>8. CapHolds'
  BY DEF IInv, CapHolds
<1> QED
  BY <1>1, <1>2, <1>3, <1>4, <1>5, <1>6, <1>7, <1>8 DEF IInv

\* The invariant is kept by Ask: a journaled answer is replayed, or a request is
\* to be sent.
LEMMA AskKeeps == ASSUME IInv, Ask PROVE IInv'
<1> USE DEF Ask, disk, meter, batchAtHand, history
<1>1. TypeOK'
  <2> DEFINE k == <<RequestAtHand, seen[RequestAtHand] + 1>>
  <2>1. k \in AnswerKey /\ k \in Key
    BY KeyInRange DEF Key
  <2>2. journal[k] # None => journal[k] \in Answer
    BY <2>1 DEF IInv, TypeOK
  <2>3. /\ key' = k /\ (touched' = touched \cup {k} \/ touched' = touched)
        /\ (got' = got \/ (journal[k] # None /\ got' = journal[k]))
        /\ step' \in {"decode", "send"}
        /\ UNCHANGED <<mode, disk, batches, stage, at, batchAtHand, meter, history>>
    OBVIOUS
  <2> HIDE DEF Ask, k
  <2> QED
    BY <2>1, <2>2, <2>3 DEF IInv, TypeOK
<1>2. BatchesSequence'
  BY DEF IInv, BatchesSequence
<1>3. BatchesSound'
  BY DEF IInv, BatchesSound, Batching
<1>4. StageSound'
  BY DEF IInv, StageSound, Asking, Batching
<1>5. AskedSound'
  <2> DEFINE r == RequestAtHand
  <2>1. /\ seen \in [Request \cup BatchRequest -> Nat] /\ r \in Request /\ step \in Asking
    BY RequestInRange DEF IInv, AskedSound, Asking
  <2>2. seen' \in [Request \cup BatchRequest -> Nat]
    BY <2>1
  <2>3. /\ at.index \in Nat /\ at.total \in Nat /\ at.round \in Nat /\ at.attempt \in Nat
    BY LoopsTyped DEF IInv
  <2>4. /\ seen' = [seen EXCEPT ![r] = seen[r] + 1] /\ step' \in {"decode", "send"}
        /\ step' \in Asking /\ UNCHANGED <<stage, at>>
    BY DEF Asking
  <2> HIDE DEF Ask
  <2>5. CASE stage = "base"
    <3>1. r = <<"case", at.index, at.total>> /\ at.index \in at.index..at.total
      BY <2>1, <2>3, <2>5 DEF RequestAtHand, IInv, StageSound
    <3>2. \A i \in (at.index + 1)..at.total : <<"case", i, at.total>> # r
      BY <2>3, <3>1
    <3>3. seen[r] <= at.round
      BY <2>5, <3>1 DEF IInv, AskedSound, Ask
    <3>4. \A q \in Request \cup BatchRequest :
            seen'[q] <= IF q[1] \in {"case", "batch"} THEN at.round + 1 ELSE 0
      <4>1. r[1] = "case"
        BY <3>1
      <4> HIDE DEF r
      <4> QED
        BY <2>1, <2>3, <2>4, <2>5, <3>3, <4>1 DEF IInv, AskedSound
    <3>5. \A i \in (at.index + 1)..at.total : seen'[<<"case", i, at.total>>] <= at.round
      <4>1. \A i \in (at.index + 1)..at.total : seen[<<"case", i, at.total>>] <= at.round
        BY <2>1, <2>5 DEF IInv, AskedSound
      <4> HIDE DEF r
      <4> QED
        BY <2>1, <2>4, <3>2, <4>1, CaseInRange
    <3> QED
      BY <2>2, <2>4, <2>5, <3>4, <3>5 DEF AskedSound
  <2>6. CASE stage = "boundary"
    <3>1. /\ r = <<"boundary", at.index, 0>>
          /\ \A i \in (at.index + 1)..Constraints : <<"boundary", i, 0>> # r
      BY <2>3, <2>6 DEF RequestAtHand
    <3>2. /\ seen[r] < at.attempt /\ \A i \in 1..Candidates : seen[<<"twin", i, 0>>] = 0
          /\ \A i \in (at.index + 1)..Constraints : seen[<<"boundary", i, 0>>] = 0
      BY <2>3, <2>6, <3>1 DEF IInv, AskedSound, Ask
    <3>3. \A i : <<"twin", i, 0>> # r
      BY <3>1
    <3>4. /\ \A i \in 1..Candidates : <<"twin", i, 0>> \in Request
          /\ \A i \in (at.index + 1)..Constraints : <<"boundary", i, 0>> \in Request
      BY <2>3, Constants DEF Request
    <3>5. seen'[r] = seen[r] + 1 /\ \A q \in Request : q # r => seen'[q] = seen[q]
      BY <2>1, <2>4
    <3>6. seen[r] \in Nat /\ seen'[r] < at.attempt + 1
      BY <2>1, <2>3, <3>2, <3>5
    <3> QED
      BY <2>2, <2>4, <2>6, <3>1, <3>2, <3>3, <3>4, <3>5, <3>6 DEF AskedSound
  <2>7. CASE stage = "twin"
    <3>1. r = <<"twin", at.index, 0>> /\ \A i \in (at.index + 1)..Candidates : <<"twin", i, 0>> # r
      BY <2>3, <2>7 DEF RequestAtHand
    <3>2. /\ seen[r] < at.attempt
          /\ \A i \in (at.index + 1)..Candidates : seen[<<"twin", i, 0>>] = 0
      BY <2>1, <2>3, <2>7, <3>1 DEF IInv, AskedSound, Ask
    <3>3. \A i \in (at.index + 1)..Candidates : <<"twin", i, 0>> \in Request
      BY <2>3, Constants DEF Request
    <3>4. seen'[r] = seen[r] + 1 /\ \A q \in Request : q # r => seen'[q] = seen[q]
      BY <2>1, <2>4
    <3>5. seen[r] \in Nat /\ seen'[r] < at.attempt + 1
      BY <2>1, <2>3, <3>2, <3>4
    <3> QED
      BY <2>2, <2>4, <2>7, <3>1, <3>2, <3>3, <3>4, <3>5 DEF AskedSound
  <2> QED
    BY <2>1, <2>5, <2>6, <2>7, StageOfStep
<1>6. SpendSound'
  BY DEF IInv, SpendSound
<1>7. PaidSound'
  BY DEF IInv, PaidSound, InFlight, Recorded
<1>8. CapHolds'
  BY DEF IInv, CapHolds
<1> QED
  BY <1>1, <1>2, <1>3, <1>4, <1>5, <1>6, <1>7, <1>8 DEF IInv

\* The invariant is kept by AskLocally.
LEMMA AskLocallyKeeps == ASSUME IInv, AskLocally PROVE IInv'
<1> USE DEF AskLocally, disk, meter, batchAtHand, history
<1>1. TypeOK'
  BY DEF IInv, TypeOK
<1>2. BatchesSequence'
  BY DEF IInv, BatchesSequence
<1>3. BatchesSound'
  BY DEF IInv, BatchesSound, Batching
<1>4. StageSound'
  BY DEF IInv, StageSound, Asking, Batching
<1>5. AskedSound'
  <2>1. step' = "send" /\ step' \in Asking /\ step \in Asking /\ UNCHANGED <<stage, at, seen>>
    BY DEF Asking
  <2>2. at.attempt \in Nat
    BY LoopsTyped DEF IInv
  <2>3. /\ stage = "boundary" => seen[<<"boundary", at.index, 0>>] \in Nat
        /\ stage = "twin" => seen[<<"twin", at.index, 0>>] \in Nat
    BY <2>1, RequestInRange DEF RequestAtHand, IInv, AskedSound
  <2> HIDE DEF AskLocally
  <2> QED
    BY <2>1, <2>2, <2>3 DEF IInv, AskedSound, AskLocally
<1>6. SpendSound'
  BY DEF IInv, SpendSound
<1>7. PaidSound'
  BY DEF IInv, PaidSound, InFlight, Recorded, Journaled
<1>8. CapHolds'
  BY DEF IInv, CapHolds
<1> QED
  BY <1>1, <1>2, <1>3, <1>4, <1>5, <1>6, <1>7, <1>8 DEF IInv

\* What is sent after a reservation that fits under the cap overruns the cap by at
\* most the Slack of as many answers.
LEMMA OverrunBound ==
  ASSUME NEW n \in Nat, n <= Direct \/ n <= Cases, NEW m \in Nat, m <= n,
         NEW price \in Nat, NEW estimate \in Nat, price <= estimate + Slack,
         NEW before \in Nat, NEW spent \in Nat, spent <= before,
         before + n * estimate <= Cap
  PROVE  spent + m * price <= Cap + Max({Direct, Cases}) * Slack
<1> DEFINE most == Max({Direct, Cases})
<1>1. most \in Nat /\ n <= most /\ Slack \in Nat
  BY MaxOfTwo, SlackBounds, Constants
<1> HIDE DEF most
<1>2. /\ m * price \in Nat /\ n * price \in Nat /\ n * estimate \in Nat /\ n * Slack \in Nat
      /\ most * Slack \in Nat
  BY <1>1
<1>3. m * price <= n * price
  OBVIOUS
<1>4. n * price <= n * (estimate + Slack)
  BY <1>1
<1>5. n * (estimate + Slack) = n * estimate + n * Slack
  BY <1>1
<1>6. n * Slack <= most * Slack
  BY <1>1
<1> QED
  BY <1>1, <1>2, <1>3, <1>4, <1>5, <1>6, Constants DEF most

\* The invariant is kept by Send: the request is paid for.
LEMMA SendKeeps == ASSUME IInv, Send PROVE IInv'
<1> USE DEF Send, disk, meter, batchAtHand, history
<1>1. TypeOK'
  <2>1. PICK out \in Outs :
          /\ got' \in Answer
          /\ cost' = cost + Direct * Price(out) /\ sent' = sent + Direct * Price(out)
          /\ largest' = IF out > largest THEN out ELSE largest
    OBVIOUS
  <2>2. /\ cost \in Nat /\ sent \in Nat /\ largest \in Nat /\ key \in Key
        /\ bills \in [Key -> Nat]
    BY DEF IInv, TypeOK, Key
  <2>3. cost' \in Nat /\ sent' \in Nat /\ largest' \in Nat
    <3>1. Price(out) \in Nat /\ out \in Nat
      BY <2>2, PriceBounds, SlackBounds
    <3>2. Direct * Price(out) \in Nat
      BY <3>1, Constants
    <3> HIDE DEF Send
    <3> QED
      BY <2>1, <2>2, <3>1, <3>2
  <2>4. bills' \in [Key -> Nat]
    BY <2>2
  <2>5. /\ step' \in {"store", "decode"}
        /\ UNCHANGED <<mode, disk, batches, stage, at, touched, key, batchAtHand, excuse>>
    OBVIOUS
  <2> HIDE DEF Send
  <2> QED
    BY <2>1, <2>3, <2>4, <2>5 DEF IInv, TypeOK
<1>2. BatchesSequence'
  BY DEF IInv, BatchesSequence
<1>3. BatchesSound'
  BY DEF IInv, BatchesSound, Batching
<1>4. StageSound'
  BY DEF IInv, StageSound, Asking, Batching, Journaled
<1>5. AskedSound'
  BY DEF IInv, AskedSound, Asking
<1>6. SpendSound'
  BY Constants, JournalAssumption DEF IInv, TypeOK, SpendSound, Price
<1>7. PaidSound'
  <2>1. \A k \in Key : bills[k] \in Nat /\ excuse[k] \in Nat
    BY DEF IInv, TypeOK
  <2>2. /\ UNCHANGED <<journal, handles, excuse, key, bkey>> /\ step = "send"
        /\ step' = (IF Journaled THEN "store" ELSE "decode")
        /\ bills' = (IF Journaled THEN [bills EXCEPT ![key] = @ + 1] ELSE bills)
    OBVIOUS
  <2>3. /\ key \in AnswerKey /\ key \in Key /\ bills \in [Key -> Nat]
        /\ (Journaled => journal[key] = None)
    BY DEF IInv, TypeOK, PaidSound, Key
  <2>4. ASSUME NEW k \in Key
        PROVE  bills'[k] <= excuse'[k] + (IF Recorded(k)' \/ InFlight(k)' THEN 1 ELSE 0)
    <3>1. bills[k] <= excuse[k] + (IF Recorded(k) THEN 1 ELSE 0)
      BY <2>2 DEF IInv, PaidSound, InFlight
    <3>2. Recorded(k)' = Recorded(k)
      BY <2>2 DEF Recorded
    <3>3. Journaled /\ k = key => ~Recorded(k) /\ InFlight(k)'
      BY <2>2, <2>3 DEF Recorded, InFlight
    <3> HIDE DEF Send
    <3> QED
      BY <2>1, <2>2, <2>3, <3>1, <3>2, <3>3
  <2> HIDE DEF Send
  <2> QED
    BY <2>2, <2>4 DEF PaidSound
<1>8. CapHolds'
  <2>1. PICK out \in Outs : sent' = sent + Direct * Price(out)
    OBVIOUS
  <2>2. /\ sent <= cost /\ sent \in Nat /\ cost \in Nat /\ ~(cost + Direct * Estimate > Cap)
    BY DEF IInv, TypeOK, SpendSound, Refused
  <2>3. /\ Price(out) \in Nat /\ Estimate \in Nat /\ Slack \in Nat
        /\ Price(out) <= Estimate + Slack
    BY PriceBounds, SlackBounds DEF IInv, TypeOK
  <2> HIDE DEF Send
  <2>4. Direct * Estimate \in Nat
    BY <2>3, Constants
  <2>5. cost + Direct * Estimate <= Cap
    BY <2>2, <2>4, Constants
  <2>6. sent + Direct * Price(out) <= Cap + Max({Direct, Cases}) * Slack
    <3>1. Direct \in Nat /\ Direct <= Direct
      BY Constants
    <3> QED
      BY <2>2, <2>3, <2>5, <3>1, OverrunBound, Zenon
  <2>7. Slack' = Slack
    BY DEF Slack
  <2> QED
    BY <2>1, <2>6, <2>7 DEF CapHolds
<1> QED
  BY <1>1, <1>2, <1>3, <1>4, <1>5, <1>6, <1>7, <1>8 DEF IInv

\* The invariant is kept by Store: the answer is journaled, or the write fails
\* and excuses the payment.
LEMMA StoreKeeps == ASSUME IInv, Store PROVE IInv'
<1> USE DEF Store, disk, meter, batchAtHand, history, Excused
<1>1. TypeOK'
  <2>1. /\ key \in AnswerKey /\ key \in Key /\ got \in Answer /\ excuse \in [Key -> Nat]
        /\ journal \in [AnswerKey -> Answer \cup {None}]
    BY DEF IInv, TypeOK, Key
  <2>2. /\ journal' = journal \/ journal' = [journal EXCEPT ![key] = got]
        /\ touched' = touched \/ touched' = touched \cup {key}
        /\ excuse' = excuse \/ excuse' = [k \in Key |-> excuse[k] + (IF k \in {key} THEN 1 ELSE 0)]
        /\ step' = "decode"
        /\ UNCHANGED <<mode, handles, batches, baseDone, advDone, stage, at, key, batchAtHand,
                        got, meter, bills>>
    OBVIOUS
  <2> HIDE DEF Store
  <2>3. /\ journal' \in [AnswerKey -> Answer \cup {None}] /\ excuse' \in [Key -> Nat]
    BY <2>1, <2>2
  <2> QED
    BY <2>1, <2>2, <2>3 DEF IInv, TypeOK
<1>2. BatchesSequence'
  BY DEF IInv, BatchesSequence
<1>3. BatchesSound'
  BY DEF IInv, BatchesSound, Batching
<1>4. StageSound'
  BY DEF IInv, StageSound, Asking, Batching
<1>5. AskedSound'
  BY DEF IInv, AskedSound, Asking
<1>6. SpendSound'
  BY DEF IInv, SpendSound
<1>7. PaidSound'
  <2>1. /\ key \in AnswerKey /\ key \in Key /\ got # None /\ excuse \in [Key -> Nat]
        /\ journal \in [AnswerKey -> Answer \cup {None}] /\ bills \in [Key -> Nat]
    BY JournalAssumption DEF IInv, TypeOK, Key
  <2>2. /\ step = "store" /\ step' = "decode" /\ UNCHANGED <<bills, handles, key, bkey>>
        /\ \/ journal' = [journal EXCEPT ![key] = got] /\ UNCHANGED excuse
           \/ /\ excuse' = [k \in Key |-> excuse[k] + (IF k \in {key} THEN 1 ELSE 0)]
              /\ UNCHANGED journal
    OBVIOUS
  <2> HIDE DEF Store
  <2>3. ASSUME NEW k \in Key
        PROVE  bills'[k] <= excuse'[k] + (IF Recorded(k)' \/ InFlight(k)' THEN 1 ELSE 0)
    <3>1. bills[k] <= excuse[k] + (IF Recorded(k) \/ k = key THEN 1 ELSE 0)
      BY <2>2 DEF IInv, PaidSound, InFlight
    <3>2. bills[k] \in Nat /\ excuse[k] \in Nat
      BY <2>1
    <3>3. CASE journal' = [journal EXCEPT ![key] = got] /\ UNCHANGED excuse
      <4>1. Recorded(k) \/ k = key => Recorded(k)'
        BY <2>1, <2>2, <3>3 DEF Recorded
      <4> QED
        BY <2>2, <3>1, <3>2, <3>3, <4>1
    <3>4. CASE /\ excuse' = [j \in Key |-> excuse[j] + (IF j \in {key} THEN 1 ELSE 0)]
               /\ UNCHANGED journal
      <4>1. Recorded(k)' = Recorded(k)
        BY <2>2, <3>4 DEF Recorded
      <4> QED
        BY <2>2, <3>1, <3>2, <3>4, <4>1
    <3> QED
      BY <2>2, <3>3, <3>4
  <2> QED
    BY <2>2, <2>3 DEF PaidSound
<1>8. CapHolds'
  BY DEF IInv, CapHolds
<1> QED
  BY <1>1, <1>2, <1>3, <1>4, <1>5, <1>6, <1>7, <1>8 DEF IInv

\* Before the adversarial stages no proposal has been numbered.
LEMMA FreshAdversarial ==
  ASSUME NEW counts \in [Request \cup BatchRequest -> Nat],
         \A r \in Request : r[1] \in {"boundary", "twin"} => counts[r] = 0
  PROVE  AskedAdversarial(1, counts)
<1>1. \A i \in 1..Candidates : <<"twin", i, 0>> \in Request
  BY DEF Request
<1>2. \A i \in 1..Constraints : <<"boundary", i, 0>> \in Request
  BY DEF Request
<1> QED
  BY <1>1, <1>2, Constants DEF AskedAdversarial

\* The invariant is kept by PublishBase: the base dataset is complete.
LEMMA PublishBaseKeeps == ASSUME IInv, PublishBase PROVE IInv'
<1> USE DEF PublishBase, disk, meter, batchAtHand, history, BeginAdversarial, Loops
<1>1. TypeOK'
  <2>1. at' \in StageAtHand
    BY LoopsStart, Constants
  <2>2. /\ baseDone' = TRUE /\ stage' \in {"boundary", "twin"} /\ step' \in {"ask", "publish"}
        /\ UNCHANGED <<mode, journal, handles, batches, advDone, touched, key, batchAtHand, got,
                        meter, history>>
    OBVIOUS
  <2> HIDE DEF PublishBase
  <2> QED
    BY <2>1, <2>2 DEF IInv, TypeOK
<1>2. BatchesSequence'
  BY DEF IInv, BatchesSequence
<1>3. BatchesSound'
  BY DEF IInv, BatchesSound, Batching
<1>4. StageSound'
  BY Constants DEF StageSound, Asking, Batching
<1>5. AskedSound'
  <2>1. /\ at'.index = 1 /\ at'.attempt = 1 /\ seen' = seen
        /\ \/ stage' = "boundary" /\ step' = "ask" /\ Constraints > 0
           \/ stage' = "twin" /\ step' = "publish"
           \/ stage' = "twin" /\ step' = "ask" /\ Candidates > 0
    BY Constants DEF IInv, TypeOK
  <2>2. /\ seen \in [Request \cup BatchRequest -> Nat]
        /\ \A r \in Request : r[1] \in {"boundary", "twin"} => seen[r] = 0
    BY DEF IInv, AskedSound
  <2> HIDE DEF PublishBase
  <2>3. AskedAdversarial(1, seen)
    BY <2>2, FreshAdversarial
  <2> QED
    BY <2>1, <2>2, <2>3, Constants DEF AskedSound, AskedAdversarial, Asking
<1>6. SpendSound'
  BY DEF IInv, SpendSound
<1>7. PaidSound'
  BY DEF IInv, PaidSound, InFlight, Recorded
<1>8. CapHolds'
  BY DEF IInv, CapHolds
<1> QED
  BY <1>1, <1>2, <1>3, <1>4, <1>5, <1>6, <1>7, <1>8 DEF IInv

\* The invariant is kept by PublishAdversarial: the run is done.
LEMMA PublishAdversarialKeeps == ASSUME IInv, PublishAdversarial PROVE IInv'
<1> USE DEF PublishAdversarial, disk, meter, batchAtHand, history
<1>1. TypeOK'
  BY DEF IInv, TypeOK
<1>2. BatchesSequence'
  BY DEF IInv, BatchesSequence
<1>3. BatchesSound'
  BY DEF IInv, BatchesSound, Batching
<1>4. StageSound'
  BY DEF StageSound, Batching
<1>5. AskedSound'
  BY DEF IInv, AskedSound
<1>6. SpendSound'
  BY DEF SpendSound
<1>7. PaidSound'
  BY DEF IInv, PaidSound, InFlight, Recorded
<1>8. CapHolds'
  BY DEF IInv, CapHolds
<1> QED
  BY <1>1, <1>2, <1>3, <1>4, <1>5, <1>6, <1>7, <1>8 DEF IInv

\* The key a batch is given is a key.
LEMMA BatchKeyInRange ==
  ASSUME IInv, step = "open"
  PROVE  LET r == <<"batch", at.total, 0>> IN
         /\ r \in BatchRequest /\ seen[r] \in Nat /\ seen[r] <= at.round
         /\ <<r, seen[r] + 1>> \in BatchKey
<1> DEFINE r == <<"batch", at.total, 0>>
<1>1. stage = "base" /\ r \in BatchRequest
  BY CaseInRange DEF IInv, StageSound, Batching
<1>2. seen[r] \in Nat /\ seen[r] <= at.round /\ at.round \in 0..Rounds
  BY <1>1, LoopsTyped DEF IInv, AskedSound
<1>3. seen[r] + 1 \in Times
  <2> HIDE DEF r
  <2> QED
    BY <1>2, TimesCover, Constants
<1> QED
  BY <1>1, <1>2, <1>3 DEF BatchKey

\* The invariant is kept by OpenBatch: a recorded batch is resumed, or one is to
\* be submitted.
LEMMA OpenBatchKeeps == ASSUME IInv, OpenBatch PROVE IInv'
<1> USE DEF OpenBatch, disk, meter, batchAtHand, history
<1>1. TypeOK'
  <2> DEFINE b == <<<<"batch", at.total, 0>>, seen[<<"batch", at.total, 0>>] + 1>>
  <2>1. b \in BatchKey /\ b \in Key
    BY BatchKeyInRange DEF Key
  <2>2. handles[b].id \in 0..Len(batches) /\ handles[b].collected \in BOOLEAN
    BY <2>1 DEF IInv, TypeOK
  <2>3. /\ bkey' = b /\ (handle' = handles[b].id \/ handle' = 0)
        /\ (replay' = handles[b].collected \/ replay' = FALSE) /\ resumed' \in BOOLEAN
        /\ touched' \in {touched, touched \cup {b}} /\ step' \in {"collect", "submit"}
        /\ UNCHANGED <<mode, disk, batches, stage, at, key, got, meter, history>>
    OBVIOUS
  <2>4. Len(batches) \in Nat
    BY DEF IInv, BatchesSequence
  <2> HIDE DEF OpenBatch, b
  <2>5. handle' \in 0..Len(batches)
    BY <2>2, <2>3, <2>4
  <2>7. replay' \in BOOLEAN
    BY <2>2, <2>3, Zenon
  <2>6. touched' \subseteq Key /\ bkey' \in BatchKey
    BY <2>1, <2>3 DEF IInv, TypeOK
  <2> QED
    BY <2>3, <2>5, <2>6, <2>7 DEF IInv, TypeOK
<1>2. BatchesSequence'
  BY DEF IInv, BatchesSequence
<1>3. BatchesSound'
  <2> DEFINE b == <<<<"batch", at.total, 0>>, seen[<<"batch", at.total, 0>>] + 1>>
  <2>1. b \in BatchKey /\ b[1][2] = at.total
    BY BatchKeyInRange
  <2>2. /\ bkey' = b /\ step' \in {"collect", "submit"}
        /\ (step' = "collect" => handle' = handles[b].id /\ handles[b].id # 0)
        /\ UNCHANGED <<handles, batches, at>>
    OBVIOUS
  <2> HIDE DEF OpenBatch, b
  <2> QED
    BY <2>1, <2>2 DEF IInv, BatchesSound, Batching
<1>4. StageSound'
  BY DEF IInv, StageSound, Asking, Batching, Journaled
<1>5. AskedSound'
  <2> DEFINE r == <<"batch", at.total, 0>>
  <2>1. /\ r \in BatchRequest /\ seen[r] \in Nat /\ seen[r] <= at.round /\ r[1] = "batch"
    BY BatchKeyInRange
  <2>2. /\ seen \in [Request \cup BatchRequest -> Nat] /\ stage = "base"
        /\ at.round \in Nat
    BY LoopsTyped DEF IInv, AskedSound, StageSound, Batching
  <2>3. /\ seen' = [seen EXCEPT ![r] = seen[r] + 1] /\ step' \in {"collect", "submit"}
        /\ step' \notin Asking /\ UNCHANGED <<stage, at>>
    BY DEF Asking
  <2> HIDE DEF OpenBatch, r
  <2>4. \A q \in Request \cup BatchRequest :
          seen'[q] <= IF q[1] \in {"case", "batch"} THEN at.round + 1 ELSE 0
    BY <2>1, <2>2, <2>3 DEF IInv, AskedSound
  <2> QED
    BY <2>1, <2>2, <2>3, <2>4 DEF AskedSound
<1>6. SpendSound'
  BY DEF IInv, SpendSound
<1>7. PaidSound'
  BY DEF IInv, PaidSound, InFlight, Recorded
<1>8. CapHolds'
  BY DEF IInv, CapHolds
<1> QED
  BY <1>1, <1>2, <1>3, <1>4, <1>5, <1>6, <1>7, <1>8 DEF IInv

\* What a submission appends, and what it will cost.
LEMMA SubmittedBatch ==
  ASSUME IInv, Submit
  PROVE  /\ at.total \in 1..Cases /\ Len(batches) \in Nat /\ Len(batches') = Len(batches) + 1
         /\ handle' = Len(batches) + 1 /\ \A i \in 1..Len(batches) : batches'[i] = batches[i]
         /\ \E batch \in BatchOf(at.total) :
              /\ batches' = Append(batches, batch) /\ batches'[handle'] = batch
              /\ sent' = sent + Answered(batch.result) * Price(batch.out)
              /\ Answered(batch.result) \in Nat /\ Answered(batch.result) <= at.total
              /\ Price(batch.out) \in Nat /\ Estimate \in Nat
              /\ Price(batch.out) <= Estimate + Slack
              /\ Answered(batch.result) * Price(batch.out) \in Nat
<1>1. PICK result \in [1..at.total -> Outcome], out \in Outs :
        /\ batches' = Append(batches, [result |-> result, out |-> out, gone |-> FALSE])
        /\ sent' = sent + Answered(result) * Price(out)
  BY DEF Submit
<1>2. handle' = Len(batches) + 1
  BY DEF Submit
<1>3. at.total \in 1..Cases /\ at.total \in Nat
  <2>1. stage = "base" /\ step # "publish"
    BY DEF IInv, StageSound, Batching, Submit
  <2> QED
    BY <2>1, LoopsTyped, Constants DEF IInv, StageSound
<1> DEFINE batch == [result |-> result, out |-> out, gone |-> FALSE]
<1>4. batch \in BatchOf(at.total) /\ batch.result = result /\ batch.out = out
  BY DEF BatchOf
<1>5. Answered(result) \in 0..at.total
  BY <1>3, CountBounds
<1>6. Price(out) \in Nat /\ Estimate \in Nat /\ Price(out) <= Estimate + Slack
  BY PriceBounds DEF IInv, TypeOK
<1>7. Answered(result) * Price(out) \in Nat
  BY <1>5, <1>6
<1> HIDE DEF batch
<1>8. /\ batches' = Append(batches, batch) /\ Len(batches) \in Nat
      /\ Len(batches') = Len(batches) + 1
      /\ \A i \in 1..Len(batches) : batches'[i] = batches[i]
      /\ batches'[handle'] = batch
  BY <1>1, <1>2 DEF IInv, BatchesSequence, batch
<1>9. /\ sent' = sent + Answered(batch.result) * Price(batch.out)
      /\ Answered(batch.result) \in Nat /\ Answered(batch.result) <= at.total
      /\ Price(batch.out) <= Estimate + Slack
      /\ Answered(batch.result) * Price(batch.out) \in Nat /\ Price(batch.out) \in Nat
  BY <1>1, <1>3, <1>4, <1>5, <1>6, <1>7
<1> QED
  BY <1>2, <1>3, <1>4, <1>6, <1>8, <1>9

\* The invariant is kept by Submit: the batch is paid for.
LEMMA SubmitKeeps == ASSUME IInv, Submit PROVE IInv'
<1> USE DEF Submit, disk, meter, batchAtHand, history
<1>1. TypeOK'
  <2>1. /\ Len(batches) \in Nat /\ Len(batches') = Len(batches) + 1 /\ sent' \in Nat
        /\ handle' = Len(batches) + 1
    <3>1. sent \in Nat
      BY DEF IInv, TypeOK
    <3>2. PICK n \in Nat : sent' = sent + n
      BY SubmittedBatch
    <3>3. sent' \in Nat
      <4> HIDE DEF Submit
      <4> QED
        BY <3>1, <3>2
    <3> QED
      BY <3>3, SubmittedBatch
  <2>2. bkey \in Key /\ bills \in [Key -> Nat]
    BY DEF IInv, TypeOK, Key
  <2>3. bills' \in [Key -> Nat]
    BY <2>2
  <2>4. handles' \in [BatchKey -> [id : 0..Len(batches'), collected : BOOLEAN]]
    <3>1. /\ handles' = handles
          /\ handles \in [BatchKey -> [id : 0..Len(batches), collected : BOOLEAN]]
      BY DEF IInv, TypeOK
    <3> HIDE DEF Submit
    <3>2. 0..Len(batches) \subseteq 0..Len(batches')
      BY <2>1
    <3> QED
      BY <3>1, <3>2
  <2>5. /\ replay' = FALSE /\ step' = "record"
        /\ UNCHANGED <<mode, disk, stage, at, touched, key, bkey, resumed, got, cost, largest,
                       excuse>>
    OBVIOUS
  <2> HIDE DEF Submit
  <2>6. handle' \in 0..Len(batches')
    BY <2>1
  <2> QED
    BY <2>1, <2>3, <2>4, <2>5, <2>6 DEF IInv, TypeOK
<1>2. BatchesSequence'
  <2>1. PICK batch \in BatchOf(at.total) :
          batches' = Append(batches, batch) /\ at.total \in 1..Cases
    BY SubmittedBatch
  <2> HIDE DEF Submit
  <2> QED
    BY <2>1 DEF IInv, BatchesSequence
<1>3. BatchesSound'
  <2>1. /\ Len(batches) \in Nat /\ Len(batches') = Len(batches) + 1
        /\ handle' = Len(batches) + 1 /\ batches'[handle'] \in BatchOf(at.total)
        /\ \A i \in 1..Len(batches) : batches'[i] = batches[i]
    BY SubmittedBatch
  <2>2. /\ step = "submit" /\ step' = "record" /\ UNCHANGED <<handles, bkey, at>>
    OBVIOUS
  <2>3. \A b \in BatchKey : handles[b].id \in 0..Len(batches)
    BY DEF IInv, TypeOK
  <2> HIDE DEF Submit
  <2>4. ASSUME NEW b \in BatchKey, handles'[b].id # 0
        PROVE  batches'[handles'[b].id] \in BatchOf(b[1][2])
    <3>1. handles[b].id \in 1..Len(batches) /\ handles'[b].id = handles[b].id
      BY <2>1, <2>2, <2>3, <2>4
    <3>2. batches[handles[b].id] \in BatchOf(b[1][2])
      BY <2>2, <2>4 DEF IInv, BatchesSound
    <3> QED
      BY <2>1, <3>1, <3>2
  <2> QED
    BY <2>1, <2>2, <2>4 DEF IInv, BatchesSound, Batching
<1>4. StageSound'
  BY DEF IInv, StageSound, Asking, Batching, Journaled
<1>5. AskedSound'
  BY DEF IInv, AskedSound, Asking
<1>6. SpendSound'
  <2>1. /\ sent <= cost /\ sent \in Nat /\ cost \in Nat /\ ~resumed
    BY DEF IInv, TypeOK, SpendSound
  <2>2. PICK n \in Nat : Owed' = n /\ sent' = sent + n
    BY SubmittedBatch DEF Owed, Price, Journaled
  <2>3. step' = "record" /\ replay' = FALSE /\ resumed' = resumed /\ cost' = cost
    OBVIOUS
  <2> HIDE DEF Submit
  <2> QED
    BY <2>1, <2>2, <2>3 DEF SpendSound
<1>7. PaidSound'
  <2>1. \A k \in Key : bills[k] \in Nat /\ excuse[k] \in Nat
    BY DEF IInv, TypeOK
  <2>2. /\ UNCHANGED <<journal, handles, excuse, key, bkey>> /\ step = "submit"
        /\ step' = "record" /\ bills' = [bills EXCEPT ![bkey] = @ + 1]
    OBVIOUS
  <2>3. /\ bkey \in BatchKey /\ bkey \in Key /\ bkey \notin AnswerKey /\ bills \in [Key -> Nat]
        /\ handles[bkey].id = 0
    BY KeysApart DEF IInv, TypeOK, PaidSound, Key
  <2>4. ASSUME NEW k \in Key
        PROVE  bills'[k] <= excuse'[k] + (IF Recorded(k)' \/ InFlight(k)' THEN 1 ELSE 0)
    <3>1. bills[k] <= excuse[k] + (IF Recorded(k) THEN 1 ELSE 0)
      BY <2>2 DEF IInv, PaidSound, InFlight
    <3>2. Recorded(k)' = Recorded(k)
      BY <2>2 DEF Recorded
    <3>3. k = bkey => ~Recorded(k) /\ InFlight(k)'
      BY <2>2, <2>3 DEF Recorded, InFlight
    <3> HIDE DEF Submit
    <3> QED
      BY <2>1, <2>2, <2>3, <3>1, <3>2, <3>3
  <2> HIDE DEF Submit
  <2> QED
    BY <2>2, <2>3, <2>4 DEF PaidSound
<1>8. CapHolds'
  <2>1. /\ sent <= cost /\ sent \in Nat /\ cost \in Nat /\ at.total \in Nat /\ at.total <= Cases
        /\ ~(cost + at.total * Estimate > Cap)
    <3>1. sent <= cost /\ sent \in Nat /\ cost \in Nat
      BY DEF IInv, TypeOK, SpendSound
    <3>2. at.total \in Nat /\ at.total <= Cases
      BY LoopsTyped, Constants DEF IInv
    <3>3. ~(cost + at.total * Estimate > Cap)
      BY DEF Refused
    <3> QED
      BY <3>1, <3>2, <3>3
  <2>2. PICK n \in Nat, price \in Nat :
          /\ sent' = sent + n * price /\ n <= at.total
          /\ Estimate \in Nat /\ price <= Estimate + Slack
    BY SubmittedBatch
  <2> HIDE DEF Submit
  <2>3. at.total * Estimate \in Nat
    BY <2>1, <2>2
  <2>4. cost + at.total * Estimate <= Cap
    BY <2>1, <2>3, Constants
  <2>5. sent + n * price <= Cap + Max({Direct, Cases}) * Slack
    BY <2>1, <2>2, <2>4, OverrunBound, Zenon
  <2>6. Slack' = Slack
    BY DEF Slack
  <2> QED
    BY <2>2, <2>5, <2>6 DEF CapHolds
<1> QED
  BY <1>1, <1>2, <1>3, <1>4, <1>5, <1>6, <1>7, <1>8 DEF IInv

\* RecordHandle keeps the types.
LEMMA RecordTyped ==
  ASSUME IInv, NEW isCollected \in BOOLEAN, RecordHandle(isCollected)
  PROVE  /\ handles' \in [BatchKey -> [id : 0..Len(batches), collected : BOOLEAN]]
         /\ touched' \subseteq Key /\ excuse' \in [Key -> Nat]
<1>1. /\ handles \in [BatchKey -> [id : 0..Len(batches), collected : BOOLEAN]]
      /\ touched \subseteq Key /\ excuse \in [Key -> Nat] /\ bkey \in BatchKey /\ bkey \in Key
      /\ handle \in 0..Len(batches)
  BY DEF IInv, TypeOK, Key
<1>2. [id |-> handle, collected |-> isCollected] \in [id : 0..Len(batches), collected : BOOLEAN]
  BY <1>1
<1>3. [k \in Key |-> excuse[k] + (IF k \in {bkey} THEN 1 ELSE 0)] \in [Key -> Nat]
  BY <1>1
<1>4. \/ handles' = handles
      \/ handles' = [handles EXCEPT ![bkey] = [id |-> handle, collected |-> isCollected]]
  BY DEF RecordHandle
<1>5. touched' = touched \/ touched' = touched \cup {bkey}
  BY DEF RecordHandle
<1>6. excuse' = excuse \/ excuse' = [k \in Key |-> excuse[k] + (IF k \in {bkey} THEN 1 ELSE 0)]
  BY DEF RecordHandle, Excused
<1>7. handles' \in [BatchKey -> [id : 0..Len(batches), collected : BOOLEAN]]
  BY <1>1, <1>2, <1>4
<1>8. excuse' \in [Key -> Nat]
  BY <1>1, <1>3, <1>6
<1> QED
  BY <1>1, <1>5, <1>7, <1>8

\* RecordHandle records the batch, or excuses a payment that is not recorded.
LEMMA RecordPaid ==
  ASSUME IInv, NEW isCollected \in BOOLEAN, RecordHandle(isCollected), handle # 0,
         UNCHANGED journal, NEW k \in Key
  PROVE  \/ excuse'[k] = excuse[k] /\ (Recorded(k) \/ k = bkey => Recorded(k)')
         \/ /\ excuse'[k] = excuse[k] + (IF k = bkey THEN 1 ELSE 0)
            /\ handles[bkey].id = 0 /\ (Recorded(k) => Recorded(k)')
         \/ /\ excuse'[k] = excuse[k] /\ (handles[bkey].id # 0 \/ isCollected)
            /\ (Recorded(k) => Recorded(k)')
<1>1. /\ handles \in [BatchKey -> [id : 0..Len(batches), collected : BOOLEAN]]
      /\ bkey \in BatchKey /\ bkey \notin AnswerKey /\ excuse \in [Key -> Nat]
      /\ (k \notin AnswerKey => k \in BatchKey)
  BY KeysApart DEF IInv, TypeOK, Key
<1>2. CASE handles' = [handles EXCEPT ![bkey] = [id |-> handle, collected |-> isCollected]]
           /\ UNCHANGED excuse
  <2>1. Recorded(k) \/ k = bkey => Recorded(k)'
    BY <1>1, <1>2 DEF Recorded
  <2> QED
    BY <1>2, <2>1
<1>3. CASE UNCHANGED handles /\ (IF handles[bkey].id = 0 /\ ~isCollected THEN Excused({bkey})
                                 ELSE UNCHANGED excuse)
  <2>1. Recorded(k)' = Recorded(k)
    BY <1>3 DEF Recorded
  <2> QED
    BY <1>1, <1>3, <2>1 DEF Excused
<1> QED
  BY <1>2, <1>3 DEF RecordHandle

\* The invariant is kept by Record: the handle of a submitted batch is stored.
LEMMA RecordKeeps == ASSUME IInv, Record PROVE IInv'
<1> USE DEF Record, disk, meter, batchAtHand, history, RecordHandle, Excused
<1>1. TypeOK'
  <2>1. /\ handles' \in [BatchKey -> [id : 0..Len(batches), collected : BOOLEAN]]
        /\ touched' \subseteq Key /\ excuse' \in [Key -> Nat]
    BY RecordTyped DEF Record
  <2>2. /\ step' = "collect"
        /\ UNCHANGED <<mode, journal, batches, baseDone, advDone, stage, at, key, batchAtHand,
                        got, meter, bills>>
    BY DEF Record
  <2> HIDE DEF Record
  <2> QED
    BY <2>1, <2>2 DEF IInv, TypeOK
<1>2. BatchesSequence'
  BY DEF IInv, BatchesSequence
<1>3. BatchesSound'
  <2>1. /\ batches[handle] \in BatchOf(bkey[1][2]) /\ bkey \in BatchKey /\ step' = "collect"
        /\ handle # 0 /\ bkey[1][2] = at.total
        /\ UNCHANGED <<batches, bkey, handle, at>>
    BY CollectedBatch DEF IInv, BatchesSound, Batching, TypeOK
  <2>2. \A b \in BatchKey : handles'[b] = handles[b] \/ (b = bkey /\ handles'[b].id = handle)
    <3>1. \/ handles' = handles
          \/ handles' = [handles EXCEPT ![bkey] = [id |-> handle, collected |-> FALSE]]
      OBVIOUS
    <3>2. handles \in [BatchKey -> [id : 0..Len(batches), collected : BOOLEAN]]
      BY DEF IInv, TypeOK
    <3> HIDE DEF Record
    <3> QED
      BY <3>1, <3>2
  <2> HIDE DEF Record
  <2>3. ASSUME NEW b \in BatchKey, handles'[b].id # 0
        PROVE  batches'[handles'[b].id] \in BatchOf(b[1][2])
    BY <2>1, <2>2, <2>3 DEF IInv, BatchesSound
  <2> QED
    BY <2>1, <2>3 DEF BatchesSound
<1>4. StageSound'
  BY DEF IInv, StageSound, Asking, Batching, Journaled
<1>5. AskedSound'
  BY DEF IInv, AskedSound, Asking
<1>6. SpendSound'
  BY DEF IInv, SpendSound, Owed, Price, Journaled
<1>7. PaidSound'
  <2>1. handles[bkey].id = 0 /\ handle # 0 /\ bkey \in BatchKey
    BY DEF IInv, PaidSound, BatchesSound, TypeOK
  <2>2. /\ step = "record" /\ step' = "collect" /\ UNCHANGED <<journal, bills, key, bkey>>
    BY DEF Record
  <2>3. ASSUME NEW k \in Key
        PROVE  bills'[k] <= excuse'[k] + (IF Recorded(k)' \/ InFlight(k)' THEN 1 ELSE 0)
    <3>1. bills[k] <= excuse[k] + (IF Recorded(k) \/ k = bkey THEN 1 ELSE 0)
      BY <2>2 DEF IInv, PaidSound, InFlight
    <3>2. \/ excuse'[k] = excuse[k] /\ (Recorded(k) \/ k = bkey => Recorded(k)')
          \/ /\ excuse'[k] = excuse[k] + (IF k = bkey THEN 1 ELSE 0)
             /\ (Recorded(k) => Recorded(k)')
      <4>1. RecordHandle(FALSE)
        BY DEF Record
      <4> HIDE DEF Record, RecordHandle, Excused
      <4> QED
        BY <2>1, <2>2, <4>1, RecordPaid
    <3>3. bills[k] \in Nat /\ excuse[k] \in Nat
      BY DEF IInv, TypeOK
    <3> HIDE DEF Record
    <3> QED
      BY <2>2, <3>1, <3>2, <3>3
  <2> HIDE DEF Record
  <2> QED
    BY <2>2, <2>3 DEF PaidSound
<1>8. CapHolds'
  BY DEF IInv, CapHolds
<1> QED
  BY <1>1, <1>2, <1>3, <1>4, <1>5, <1>6, <1>7, <1>8 DEF IInv

\* Drop forgets the keys it is given, and keeps the types.
LEMMA DropTyped ==
  ASSUME IInv, NEW keys, Drop(keys)
  PROVE  /\ journal' \in [AnswerKey -> Answer \cup {None}]
         /\ handles' \in [BatchKey -> [id : 0..Len(batches), collected : BOOLEAN]]
         /\ \A k \in AnswerKey : journal'[k] = IF k \in keys THEN None ELSE journal[k]
         /\ \A b \in BatchKey : handles'[b] = IF b \in keys THEN NoHandle ELSE handles[b]
         /\ NoHandle.id = 0
<1>1. /\ journal \in [AnswerKey -> Answer \cup {None}]
      /\ handles \in [BatchKey -> [id : 0..Len(batches), collected : BOOLEAN]]
      /\ Len(batches) \in Nat
  BY DEF IInv, TypeOK, BatchesSequence
<1>2. NoHandle \in [id : 0..Len(batches), collected : BOOLEAN] /\ NoHandle.id = 0
  BY <1>1 DEF NoHandle
<1>3. /\ journal' = [k \in AnswerKey |-> IF k \in keys THEN None ELSE journal[k]]
      /\ handles' = [b \in BatchKey |-> IF b \in keys THEN NoHandle ELSE handles[b]]
  BY DEF Drop
<1> QED
  BY <1>1, <1>2, <1>3

\* Entries that are dropped with an excuse leave every payment recorded or
\* excused.
LEMMA DropPaid ==
  ASSUME IInv, step \notin {"store", "record"}, NEW keys, NEW more, Drop(keys), Excused(more),
         \A k \in keys : k \in Key /\ Recorded(k) => k \in more, UNCHANGED bills
  PROVE  /\ excuse' \in [Key -> Nat]
         /\ \A k \in Key : bills'[k] <= excuse'[k] + (IF Recorded(k)' THEN 1 ELSE 0)
<1>1. excuse' = [k \in Key |-> excuse[k] + (IF k \in more THEN 1 ELSE 0)]
  BY DEF Excused
<1>2. excuse \in [Key -> Nat] /\ bills \in [Key -> Nat]
  BY DEF IInv, TypeOK
<1>3. ASSUME NEW k \in Key
      PROVE  bills'[k] <= excuse'[k] + (IF Recorded(k)' THEN 1 ELSE 0)
  <2>1. bills[k] <= excuse[k] + (IF Recorded(k) THEN 1 ELSE 0)
    BY DEF IInv, PaidSound, InFlight
  <2>2. k \notin keys => Recorded(k)' = Recorded(k)
    BY DropTyped DEF Recorded, Key
  <2>3. k \in keys /\ k \notin more => ~Recorded(k)
    OBVIOUS
  <2>4. excuse'[k] = excuse[k] + (IF k \in more THEN 1 ELSE 0)
    BY <1>1
  <2> QED
    BY <1>2, <2>1, <2>2, <2>3, <2>4
<1>4. excuse' \in [Key -> Nat]
  BY <1>1, <1>2
<1> QED
  BY <1>3, <1>4

\* The invariant is kept by Gone: a batch the provider no longer has is
\* submitted once more.
LEMMA GoneKeeps == ASSUME IInv, Gone PROVE IInv'
<1> USE DEF Gone, disk, meter, batchAtHand, history
<1>1. TypeOK'
  <2>1. /\ Drop({bkey}) /\ Excused({bkey}) /\ UNCHANGED bills /\ step = "collect"
        /\ step' = "submit" /\ handle' = 0 /\ resumed' = FALSE /\ replay' = FALSE
        /\ UNCHANGED <<mode, batches, baseDone, advDone, stage, at, touched, key, bkey, got, meter>>
    OBVIOUS
  <2>2. handle' \in 0..Len(batches)
    BY <2>1 DEF IInv, BatchesSequence
  <2>3. \A k \in {bkey} : k \in Key /\ Recorded(k) => k \in {bkey}
    OBVIOUS
  <2> HIDE DEF Gone
  <2>4. excuse' \in [Key -> Nat]
    BY <2>1, <2>3, DropPaid
  <2> QED
    BY <2>1, <2>2, <2>4, DropTyped DEF IInv, TypeOK
<1>2. BatchesSequence'
  BY DEF IInv, BatchesSequence
<1>3. BatchesSound'
  <2>1. /\ Drop({bkey}) /\ step = "collect" /\ step' = "submit"
        /\ UNCHANGED <<bkey, batches, at>>
    OBVIOUS
  <2> HIDE DEF Gone
  <2>2. \A b \in BatchKey : handles'[b] = handles[b] \/ handles'[b].id = 0
    BY <2>1, DropTyped
  <2> QED
    BY <2>1, <2>2 DEF IInv, BatchesSound, Batching
<1>4. StageSound'
  BY DEF IInv, StageSound, Asking, Batching, Journaled
<1>5. AskedSound'
  BY DEF IInv, AskedSound, Asking
<1>6. SpendSound'
  BY DEF IInv, SpendSound
<1>7. PaidSound'
  <2>1. /\ Drop({bkey}) /\ Excused({bkey}) /\ step = "collect" /\ step' = "submit"
        /\ UNCHANGED <<bills, bkey>>
    OBVIOUS
  <2>2. \A k \in {bkey} : k \in Key /\ Recorded(k) => k \in {bkey}
    OBVIOUS
  <2> HIDE DEF Gone
  <2>3. \A k \in Key : bills'[k] <= excuse'[k] + (IF Recorded(k)' THEN 1 ELSE 0)
    BY <2>1, <2>2, DropPaid
  <2>4. bkey \in BatchKey /\ handles'[bkey].id = 0
    BY <2>1, DropTyped DEF IInv, TypeOK
  <2>5. \A k : ~InFlight(k)'
    BY <2>1 DEF InFlight
  <2> QED
    BY <2>1, <2>3, <2>4, <2>5 DEF PaidSound
<1>8. CapHolds'
  BY DEF IInv, CapHolds
<1> QED
  BY <1>1, <1>2, <1>3, <1>4, <1>5, <1>6, <1>7, <1>8 DEF IInv

\* The invariant is kept by Collect: the batch is charged.
LEMMA CollectKeeps == ASSUME IInv, Collect PROVE IInv'
<1> USE DEF Collect, disk, meter, batchAtHand, history
<1>1. TypeOK'
  <2>1. /\ cost' = cost + Charged(batches[handle]) /\ step' = "settle"
        /\ largest' = IF ~replay /\ batches[handle].out > largest THEN batches[handle].out
                      ELSE largest
        /\ UNCHANGED <<mode, disk, batches, stage, at, touched, key, batchAtHand, got, sent,
                        history>>
    OBVIOUS
  <2>2. Charged(batches[handle]) = IF replay THEN 0 ELSE Owed
    BY DEF Charged, Owed
  <2>3. Owed \in Nat /\ batches[handle].out \in Nat /\ cost \in Nat /\ largest \in Nat
    BY CollectedBatch DEF IInv, TypeOK
  <2> HIDE DEF Collect
  <2>4. cost' \in Nat /\ largest' \in Nat
    BY <2>1, <2>2, <2>3
  <2> QED
    BY <2>1, <2>4 DEF IInv, TypeOK
<1>2. BatchesSequence'
  BY DEF IInv, BatchesSequence
<1>3. BatchesSound'
  BY DEF IInv, BatchesSound, Batching
<1>4. StageSound'
  BY DEF IInv, StageSound, Asking, Batching, Journaled
<1>5. AskedSound'
  BY DEF IInv, AskedSound, Asking
<1>6. SpendSound'
  <2>1. /\ cost' = cost + (IF replay THEN 0 ELSE Owed) /\ sent' = sent /\ step' = "settle"
    BY DEF Charged, Owed
  <2>2. Owed \in Nat /\ cost \in Nat /\ sent \in Nat
    BY CollectedBatch DEF IInv, TypeOK
  <2>3. IF resumed THEN sent <= cost ELSE ~replay /\ sent <= cost + Owed
    BY DEF IInv, SpendSound
  <2> HIDE DEF Collect
  <2> QED
    BY <2>1, <2>2, <2>3 DEF SpendSound
<1>7. PaidSound'
  BY DEF IInv, PaidSound, InFlight, Recorded
<1>8. CapHolds'
  BY DEF IInv, CapHolds
<1> QED
  BY <1>1, <1>2, <1>3, <1>4, <1>5, <1>6, <1>7, <1>8 DEF IInv

\* The invariant is kept by Settle: the batch is recorded as collected.
LEMMA SettleKeeps == ASSUME IInv, Settle PROVE IInv'
<1> USE DEF Settle, disk, meter, batchAtHand, history, RecordHandle, Excused
<1>1. TypeOK'
  <2>1. /\ handles' \in [BatchKey -> [id : 0..Len(batches), collected : BOOLEAN]]
        /\ touched' \subseteq Key /\ excuse' \in [Key -> Nat]
    <3>1. CASE replay
      BY <3>1 DEF IInv, TypeOK
    <3>2. CASE RecordHandle(TRUE)
      BY <3>2, RecordTyped
    <3> QED
      BY <3>1, <3>2
  <2>2. at' \in StageAtHand
    <3>1. at.total - NotOk(batches[handle].result) \in 0..Cases
      BY CollectedBatch, Constants
    <3>2. at \in StageAtHand /\ at' = [at EXCEPT !.good = at.total - NotOk(batches[handle].result)]
      BY DEF IInv, TypeOK
    <3> HIDE DEF Settle
    <3> QED
      BY <3>1, <3>2 DEF StageAtHand
  <2>3. /\ step' = "count"
        /\ UNCHANGED <<mode, journal, batches, baseDone, advDone, stage, key, batchAtHand, got,
                        meter, bills>>
    OBVIOUS
  <2> HIDE DEF Settle
  <2> QED
    BY <2>1, <2>2, <2>3 DEF IInv, TypeOK
<1>2. BatchesSequence'
  BY DEF IInv, BatchesSequence
<1>3. BatchesSound'
  <2>1. /\ batches[handle] \in BatchOf(bkey[1][2]) /\ bkey \in BatchKey /\ step' = "count"
        /\ UNCHANGED batches
    BY CollectedBatch DEF IInv, BatchesSound, Batching, TypeOK
  <2>2. \A b \in BatchKey : handles'[b] = handles[b] \/ (b = bkey /\ handles'[b].id = handle)
    <3>1. \/ handles' = handles
          \/ handles' = [handles EXCEPT ![bkey] = [id |-> handle, collected |-> TRUE]]
      OBVIOUS
    <3>2. handles \in [BatchKey -> [id : 0..Len(batches), collected : BOOLEAN]]
      BY DEF IInv, TypeOK
    <3> HIDE DEF Settle
    <3> QED
      BY <3>1, <3>2
  <2> HIDE DEF Settle
  <2>3. ASSUME NEW b \in BatchKey, handles'[b].id # 0
        PROVE  batches'[handles'[b].id] \in BatchOf(b[1][2])
    BY <2>1, <2>2, <2>3 DEF IInv, BatchesSound
  <2> QED
    BY <2>1, <2>3 DEF BatchesSound, Batching
<1>4. StageSound'
  <2>1. /\ stage = "base" /\ step' = "count" /\ stage' = stage /\ mode' = mode
        /\ at' = [at EXCEPT !.good = at.total - NotOk(batches[handle].result)]
    BY DEF IInv, StageSound, Batching
  <2>2. /\ at \in StageAtHand /\ NotOk(batches[handle].result) \in 0..at.total
        /\ at.total \in Nat
    BY CollectedBatch, LoopsTyped DEF IInv, TypeOK
  <2> HIDE DEF Settle
  <2>3. /\ at'.total = at.total /\ at'.kept = at.kept /\ at'.index = at.index
        /\ at'.good = at.total - NotOk(batches[handle].result)
    BY <2>1, <2>2 DEF StageAtHand
  <2>4. at'.good <= at'.total
    BY <2>2, <2>3
  <2> QED
    BY <2>1, <2>3, <2>4 DEF IInv, StageSound, Batching, Asking, Journaled, Settle
<1>5. AskedSound'
  BY DEF IInv, AskedSound, Asking
<1>6. SpendSound'
  BY DEF IInv, SpendSound
<1>7. PaidSound'
  <2>1. /\ step = "settle" /\ step' = "count" /\ UNCHANGED <<journal, bills, key, bkey>>
        /\ handle # 0 /\ (RecordHandle(TRUE) \/ UNCHANGED <<handles, excuse>>)
    BY CollectedBatch
  <2>2. ASSUME NEW k \in Key
        PROVE  bills'[k] <= excuse'[k] + (IF Recorded(k)' \/ InFlight(k)' THEN 1 ELSE 0)
    <3>1. bills[k] <= excuse[k] + (IF Recorded(k) THEN 1 ELSE 0)
      BY <2>1 DEF IInv, PaidSound, InFlight
    <3>2. bills[k] \in Nat /\ excuse[k] \in Nat
      BY DEF IInv, TypeOK
    <3> HIDE DEF Settle, RecordHandle, Excused
    <3>3. CASE RecordHandle(TRUE)
      <4>1. \/ excuse'[k] = excuse[k] /\ (Recorded(k) => Recorded(k)')
            \/ /\ excuse'[k] = excuse[k] + (IF k = bkey THEN 1 ELSE 0)
               /\ (Recorded(k) => Recorded(k)')
        BY <2>1, <3>3, RecordPaid, Zenon
      <4> QED
        BY <2>1, <3>1, <3>2, <4>1
    <3>4. CASE UNCHANGED <<handles, excuse>>
      <4>1. Recorded(k)' = Recorded(k)
        BY <2>1, <3>4 DEF Recorded
      <4> QED
        BY <2>1, <3>1, <3>2, <3>4, <4>1
    <3> QED
      BY <2>1, <3>3, <3>4
  <2> HIDE DEF Settle
  <2> QED
    BY <2>1, <2>2 DEF PaidSound
<1>8. CapHolds'
  BY DEF IInv, CapHolds
<1> QED
  BY <1>1, <1>2, <1>3, <1>4, <1>5, <1>6, <1>7, <1>8 DEF IInv

\* The invariant is kept by Crash: what was in flight is lost, with an excuse.
LEMMA CrashKeeps == ASSUME IInv, Crash PROVE IInv'
<1> USE DEF Crash, disk, meter, batchAtHand, history, Leave
<1>1. TypeOK'
  <2>1. excuse' \in [Key -> Nat]
    <3>1. excuse \in [Key -> Nat]
      BY DEF IInv, TypeOK
    <3> QED
      BY <3>1 DEF Excused
  <2>2. /\ UNCHANGED <<journal, handles, batches, mode, baseDone, advDone, at, touched, key,
                        batchAtHand, got, meter, bills>>
        /\ stage' = "off" /\ step' = "idle"
    OBVIOUS
  <2> HIDE DEF Crash
  <2> QED
    BY <2>1, <2>2 DEF IInv, TypeOK
<1>2. BatchesSequence'
  BY DEF IInv, BatchesSequence
<1>3. BatchesSound'
  BY DEF IInv, BatchesSound, Batching
<1>4. StageSound'
  BY DEF StageSound, Batching
<1>5. AskedSound'
  BY DEF IInv, AskedSound
<1>6. SpendSound'
  BY DEF SpendSound
<1>7. PaidSound'
  <2>1. /\ step' = "idle" /\ UNCHANGED <<journal, handles, bills>>
        /\ \/ step = "store" /\ Excused({key})
           \/ step = "record" /\ Excused({bkey})
           \/ step \notin {"store", "record"} /\ UNCHANGED excuse
    OBVIOUS
  <2> HIDE DEF Crash
  <2>2. ASSUME NEW k \in Key
        PROVE  bills'[k] <= excuse'[k] + (IF Recorded(k)' \/ InFlight(k)' THEN 1 ELSE 0)
    <3>1. bills[k] <= excuse[k] + (IF Recorded(k) \/ InFlight(k) THEN 1 ELSE 0)
      BY DEF IInv, PaidSound
    <3>2. Recorded(k)' = Recorded(k) /\ bills[k] \in Nat /\ excuse[k] \in Nat
      BY <2>1 DEF Recorded, IInv, TypeOK
    <3>3. excuse'[k] = excuse[k] + (IF InFlight(k) THEN 1 ELSE 0)
      BY <2>1, <3>2 DEF Excused, InFlight
    <3> QED
      BY <2>1, <3>1, <3>2, <3>3
  <2> QED
    BY <2>1, <2>2 DEF PaidSound
<1>8. CapHolds'
  BY DEF IInv, CapHolds
<1> QED
  BY <1>1, <1>2, <1>3, <1>4, <1>5, <1>6, <1>7, <1>8 DEF IInv

\* A round starts with every case of it numbered in earlier rounds only.
LEMMA RoundAsked ==
  ASSUME NEW total \in 1..Cases, NEW round \in Nat, stage' = "base", step' \in {"ask", "open"},
         at'.total = total, at'.index = 1, at'.round = round,
         seen' \in [Request \cup BatchRequest -> Nat],
         \A r \in Request \cup BatchRequest :
           seen'[r] <= IF r[1] \in {"case", "batch"} THEN round ELSE 0
  PROVE  AskedSound'
<1>1. /\ \A i \in 1..total : <<"case", i, total>> \in Request
      /\ <<"batch", total, 0>> \in BatchRequest
  BY Constants DEF Request, BatchRequest
<1>2. \A i \in 1..total : seen'[<<"case", i, total>>] <= round
  BY <1>1
<1>3. seen'[<<"batch", total, 0>>] <= round
  BY <1>1
<1>4. \A r \in Request \cup BatchRequest :
        seen'[r] <= IF r[1] \in {"case", "batch"} THEN round + 1 ELSE 0
  OBVIOUS
<1>5. total \in Nat /\ \A i \in (1 + 1)..total : i \in 1..total
  BY Constants
<1> QED
  BY <1>2, <1>3, <1>4, <1>5 DEF AskedSound

\* The invariant is kept when a run leaves and drops entries with an excuse.
LEMMA LeaveDropping ==
  ASSUME IInv, step \notin {"store", "record"}, Leave, NEW keys, NEW more,
         Drop(keys), Excused(more), \A k \in keys : k \in Key /\ Recorded(k) => k \in more
  PROVE  IInv'
<1>1. /\ stage' = "off" /\ step' = "idle" /\ UNCHANGED bills
      /\ UNCHANGED <<mode, batches, baseDone, advDone, at, seen, touched, key, bkey, handle,
                     replay, resumed, got, cost, largest, sent, bad>>
  BY DEF Leave, batchAtHand, meter
<1>2. /\ excuse' \in [Key -> Nat]
      /\ \A k \in Key : bills'[k] <= excuse'[k] + (IF Recorded(k)' THEN 1 ELSE 0)
  BY <1>1, DropPaid
<1>3. TypeOK'
  BY <1>1, <1>2, DropTyped DEF IInv, TypeOK
<1>4. BatchesSequence' /\ CapHolds'
  BY <1>1 DEF IInv, BatchesSequence, CapHolds, Slack
<1>5. BatchesSound'
  <2>1. \A b \in BatchKey : handles'[b] = handles[b] \/ handles'[b].id = 0
    BY DropTyped
  <2> QED
    BY <1>1, <2>1 DEF IInv, BatchesSound, Batching
<1>6. StageSound' /\ SpendSound'
  BY <1>1 DEF StageSound, SpendSound, Asking, Batching
<1>7. AskedSound'
  BY <1>1 DEF IInv, AskedSound
<1>8. PaidSound'
  <2>1. \A k : ~InFlight(k)'
    BY <1>1 DEF InFlight
  <2> QED
    BY <1>1, <1>2, <2>1 DEF PaidSound
<1> QED
  BY <1>3, <1>4, <1>5, <1>6, <1>7, <1>8 DEF IInv

\* The invariant is kept when rejected answers end a run.
LEMMA StopRejectedKeeps ==
  ASSUME IInv, step \notin {"store", "record"}, NEW also, StopRejected(also)
  PROVE  IInv'
<1> DEFINE dropped == {k \in touched \cup also : Recorded(k)}
<1>1. Leave /\ Drop(dropped) /\ Excused(dropped)
  BY DEF StopRejected
<1>2. \A k \in dropped : k \in Key /\ Recorded(k) => k \in dropped
  OBVIOUS
<1> HIDE DEF dropped
<1> QED
  BY <1>1, <1>2, LeaveDropping

\* The invariant is kept by CollectRejected: rejected or failed items end the
\* run.
LEMMA CollectRejectedKeeps == ASSUME IInv, CollectRejected PROVE IInv'
<1>1. step \notin {"store", "record"}
  BY DEF CollectRejected
<1>2. CASE StopRejected({bkey})
  BY <1>1, <1>2, StopRejectedKeeps
<1>3. CASE Leave /\ Drop({bkey}) /\ Excused({k \in {bkey} : Recorded(k)})
  <2>1. \A k \in {bkey} : k \in Key /\ Recorded(k) => k \in {j \in {bkey} : Recorded(j)}
    OBVIOUS
  <2> QED
    BY <1>1, <1>3, <2>1, LeaveDropping
<1> QED
  BY <1>2, <1>3 DEF CollectRejected

\* The invariant is kept by turning to the next request, keeping or discarding the
\* entry at hand, when the loops of the run stay in order.
LEMMA NextRequestKeeps ==
  ASSUME IInv, step \in {"decode", "count"}, KeepEntry \/ DiscardKey, Same,
         step' \in {"ask", "open", "publish"}, stage' \in {"base", "boundary", "twin"},
         at' \in StageAtHand, StageSound', AskedSound'
  PROVE  IInv'
<1>1. /\ UNCHANGED <<mode, batches, baseDone, advDone, seen, touched, key, bkey, handle, replay,
                     resumed, got, cost, largest, sent, bills>>
  BY DEF Same, batchAtHand, meter
<1>2. /\ journal' \in [AnswerKey -> Answer \cup {None}]
      /\ handles' \in [BatchKey -> [id : 0..Len(batches), collected : BOOLEAN]]
      /\ excuse' \in [Key -> Nat]
      /\ \A b \in BatchKey : handles'[b] = handles[b] \/ handles'[b].id = 0
      /\ \A k \in Key : bills'[k] <= excuse'[k] + (IF Recorded(k)' THEN 1 ELSE 0)
  <2>1. CASE KeepEntry
    <3>1. UNCHANGED <<journal, handles, excuse>>
      BY <2>1 DEF KeepEntry
    <3>2. \A k \in Key : bills[k] <= excuse[k] + (IF Recorded(k) THEN 1 ELSE 0)
      BY DEF IInv, PaidSound, InFlight
    <3>3. \A k \in Key : Recorded(k)' = Recorded(k)
      BY <3>1 DEF Recorded
    <3> QED
      BY <1>1, <3>1, <3>2, <3>3 DEF IInv, TypeOK
  <2>2. CASE Drop({key}) /\ Excused({key})
    <3>1. \A k \in {key} : k \in Key /\ Recorded(k) => k \in {key}
      OBVIOUS
    <3>2. /\ excuse' \in [Key -> Nat]
          /\ \A k \in Key : bills'[k] <= excuse'[k] + (IF Recorded(k)' THEN 1 ELSE 0)
      BY <1>1, <2>2, <3>1, DropPaid
    <3> QED
      BY <2>2, <3>2, DropTyped
  <2> QED
    BY <2>1, <2>2 DEF DiscardKey
<1>3. TypeOK'
  BY <1>1, <1>2 DEF IInv, TypeOK
<1>4. BatchesSequence' /\ CapHolds'
  BY <1>1 DEF IInv, BatchesSequence, CapHolds, Slack
<1>5. BatchesSound'
  BY <1>1, <1>2 DEF IInv, BatchesSound, Batching
<1>6. SpendSound'
  BY <1>1 DEF IInv, SpendSound
<1>7. PaidSound'
  <2>1. \A k : ~InFlight(k)'
    BY DEF InFlight
  <2> QED
    BY <1>2, <2>1 DEF PaidSound
<1> QED
  BY <1>3, <1>4, <1>5, <1>6, <1>7 DEF IInv

\* The invariant is kept when a round ends in another one or in the publication.
LEMMA AfterRoundKeeps ==
  ASSUME IInv, stage = "base", step \in {"decode", "count"}, NEW k \in 0..Cases,
         AfterRound(k), KeepEntry, Same
  PROVE  IInv'
<1>1. /\ at \in StageAtHand /\ at.round \in 0..Rounds
      /\ seen \in [Request \cup BatchRequest -> Nat] /\ mode' = mode /\ seen' = seen
  BY LoopsTyped DEF IInv, TypeOK, AskedSound, Same
<1>2. CASE k = Cases
  <2>1. step' = "publish" /\ at' = [at EXCEPT !.kept = k] /\ stage' = "base"
    BY <1>2 DEF AfterRound
  <2>2. at' \in StageAtHand /\ at'.round = at.round /\ at'.total = at.total /\ at'.index = at.index
    BY <1>1, <2>1 DEF StageAtHand
  <2>3. StageSound'
    BY <2>1 DEF StageSound, Asking, Batching
  <2>4. AskedSound'
    BY <1>1, <2>1, <2>2 DEF IInv, AskedSound, Asking
  <2> QED
    BY <2>1, <2>2, <2>3, <2>4, NextRequestKeeps
<1>3. CASE k # Cases
  <2> DEFINE round == at.round + 1
             total == Cases - k
  <2>1. at.round < Rounds /\ BeginRound(k, round)
    BY <1>3 DEF AfterRound
  <2>2. round \in 0..Rounds /\ round \in Nat /\ total \in 1..Cases /\ total > 0 /\ k + total = Cases
    BY <1>1, <1>3, <2>1, Constants
  <2>3. stage' = "base" /\ at' = Loops(k, round) /\ step' = Opening(total)
    BY <2>1 DEF BeginRound
  <2>4. /\ at' \in StageAtHand /\ at'.round = round /\ at'.kept = k /\ at'.total = total
        /\ at'.index = 1 /\ at'.good = 0
    BY <2>2, <2>3, LoopsStart
  <2>5. step' = "ask" \/ (step' = "open" /\ Journaled')
    BY <1>1, <2>3 DEF Opening, UseBatch, Journaled
  <2>6. \A r \in Request \cup BatchRequest :
          seen[r] <= IF r[1] \in {"case", "batch"} THEN round ELSE 0
    BY DEF IInv, AskedSound
  <2> HIDE DEF round, total
  <2>7. StageSound'
    BY <2>2, <2>3, <2>4, <2>5 DEF StageSound, Asking, Batching
  <2>8. AskedSound'
    BY <1>1, <2>2, <2>3, <2>4, <2>5, <2>6, RoundAsked
  <2> QED
    BY <2>3, <2>4, <2>5, <2>7, <2>8, NextRequestKeeps
<1> QED
  BY <1>2, <1>3

\* The invariant is kept by CountRound: the accepted cases of a batch are
\* counted.
LEMMA CountRoundKeeps == ASSUME IInv, CountRound PROVE IInv'
<1>1. stage = "base" /\ step = "count" /\ at.good <= at.total
  BY DEF CountRound, IInv, StageSound, Batching
<1>2. at.kept + at.good \in 0..Cases
  BY <1>1, LoopsTyped, Constants DEF IInv, StageSound
<1>3. CASE StopRejected({})
  BY <1>1, <1>3, StopRejectedKeeps
<1>4. CASE AfterRound(at.kept + at.good) /\ KeepEntry /\ Same
  BY <1>1, <1>2, <1>4, AfterRoundKeeps
<1> QED
  BY <1>3, <1>4 DEF CountRound

\* The invariant is kept by DecodeCase: a direct answer is decoded.
LEMMA DecodeCaseKeeps == ASSUME IInv, DecodeCase PROVE IInv'
<1> DEFINE good == at.good + (IF got = "ok" THEN 1 ELSE 0)
           k == at.kept + good
<1>1. /\ stage = "base" /\ step = "decode" /\ step \in Asking
      /\ at.index \in 1..at.total /\ at.good < at.index /\ at.kept + at.total = Cases
  BY DEF DecodeCase, IInv, StageSound, Asking
<1>2. good \in Nat /\ good <= at.good + 1 /\ good <= at.index /\ k \in 0..Cases /\ good \in 0..Cases
  BY <1>1, LoopsTyped, Constants DEF IInv
<1>3. CASE \E also : StopRejected(also)
  BY <1>1, <1>3, StopRejectedKeeps
<1>4. CASE at.index = at.total /\ AfterRound(k) /\ KeepEntry /\ Same
  <2> HIDE DEF k
  <2> QED
    BY <1>1, <1>2, <1>4, AfterRoundKeeps
<1>5. CASE /\ at.index < at.total /\ at' = [at EXCEPT !.index = @ + 1, !.good = good]
           /\ step' = "ask" /\ UNCHANGED stage /\ KeepEntry /\ Same
  <2> HIDE DEF good
  <2>1. /\ at \in StageAtHand /\ at.index \in Nat /\ at.total \in Nat /\ at.round \in Nat
        /\ mode' = mode /\ seen' = seen
    BY <1>5, LoopsTyped DEF IInv, TypeOK, Same
  <2>2. /\ at' \in StageAtHand /\ at'.index = at.index + 1 /\ at'.good = good
        /\ at'.total = at.total /\ at'.kept = at.kept /\ at'.round = at.round
    <3>1. at' = [round |-> at.round, kept |-> at.kept, total |-> at.total,
                 index |-> at.index + 1, good |-> good, attempt |-> at.attempt,
                 pairs |-> at.pairs, skipped |-> at.skipped]
      BY <1>5, <2>1 DEF StageAtHand
    <3> QED
      BY <1>2, <2>1, <3>1 DEF StageAtHand
  <2>3. StageSound'
    BY <1>1, <1>2, <1>5, <2>1, <2>2, LoopsTyped DEF IInv, StageSound, Asking, Batching
  <2>4. \A i \in (at.index + 1)..at.total : seen[<<"case", i, at.total>>] <= at.round
    BY <1>1 DEF IInv, AskedSound
  <2>5. \A i \in ((at.index + 1) + 1)..at.total : i \in (at.index + 1)..at.total
    BY <2>1
  <2>6. AskedSound'
    BY <1>1, <1>5, <2>1, <2>2, <2>4, <2>5 DEF IInv, AskedSound
  <2> QED
    BY <1>1, <1>5, <2>2, <2>3, <2>6, NextRequestKeeps
<1> QED
  BY <1>3, <1>4, <1>5 DEF DecodeCase

\* The invariant is kept by Start: a run numbers its requests anew, with an
\* empty meter.
LEMMA StartKeeps == ASSUME IInv, Start PROVE IInv'
<1> USE DEF Start, disk, meter, batchAtHand, history, BeginAdversarial, BeginRound, Loops,
            Opening, UseBatch
<1>1. TypeOK'
  <2>1. at' \in StageAtHand
    BY LoopsStart, Constants
  <2>2. /\ stage' \in {"base", "boundary", "twin"} /\ step' \in {"ask", "open", "publish"}
        /\ touched' = {} /\ cost' = 0 /\ largest' = 0 /\ sent' = 0
        /\ UNCHANGED <<mode, disk, batches, key, batchAtHand, got, history>>
    OBVIOUS
  <2> HIDE DEF Start
  <2> QED
    BY <2>1, <2>2 DEF IInv, TypeOK
<1>2. BatchesSequence'
  BY DEF IInv, BatchesSequence
<1>3. BatchesSound'
  BY DEF IInv, BatchesSound, Batching
<1>4. StageSound'
  <2>1. /\ at'.kept = 0 /\ at'.index = 1 /\ at'.good = 0 /\ at'.pairs = 0 /\ at'.skipped = 0
        /\ at'.total = Cases - 0 /\ Cases > 0
        /\ \/ stage' = "base" /\ (step' = "ask" \/ (step' = "open" /\ Journaled'))
           \/ stage' = "boundary" /\ step' = "ask" /\ Constraints > 0
           \/ stage' = "twin" /\ step' = "publish"
           \/ stage' = "twin" /\ step' = "ask" /\ Candidates > 0 /\ Wanted > 0
    BY Constants DEF Journaled
  <2> HIDE DEF Start
  <2> QED
    BY <2>1, Constants DEF StageSound, Asking, Batching
<1>5. AskedSound'
  <2>1. /\ at'.index = 1 /\ at'.attempt = 1 /\ at'.round = 0
        /\ seen' = [r \in Request \cup BatchRequest |-> 0]
        /\ \/ stage' = "base" /\ step' \in {"ask", "open"} /\ at'.total = Cases - 0
              /\ at'.kept = 0
           \/ stage' = "boundary" /\ step' = "ask" /\ Constraints > 0
           \/ stage' = "twin" /\ step' = "publish"
           \/ stage' = "twin" /\ step' = "ask" /\ Candidates > 0
    BY Constants
  <2> HIDE DEF Start
  <2>2. seen' \in [Request \cup BatchRequest -> Nat]
    BY <2>1
  <2>3. AskedAdversarial(1, seen')
    BY <2>1, <2>2, FreshAdversarial
  <2>4. \A i \in 1..Cases : /\ seen'[<<"case", i, Cases>>] = 0
                            /\ seen'[<<"batch", i, 0>>] = 0
    BY <2>1, Constants DEF Request, BatchRequest
  <2>5. CASE stage' = "base"
    <3>1. at'.total = Cases /\ Cases \in 1..Cases /\ \A i \in 1..Cases : i \in Nat
      BY <2>1, <2>5, Constants
    <3>2. \A r \in Request \cup BatchRequest : seen'[r] = 0
      BY <2>1
    <3> QED
      BY <2>1, <2>2, <2>4, <2>5, <3>1, <3>2, RoundAsked
  <2> QED
    BY <2>1, <2>2, <2>3, <2>5, Constants DEF AskedSound, AskedAdversarial, Asking
<1>6. SpendSound'
  BY DEF SpendSound
<1>7. PaidSound'
  BY DEF IInv, PaidSound, InFlight, Recorded, StageSound
<1>8. CapHolds'
  <2>1. sent' = 0 /\ Max({Direct, Cases}) \in Nat /\ Slack' = Slack /\ Slack \in Nat
    BY MaxOfTwo, SlackBounds, Constants DEF Slack
  <2> HIDE DEF Start
  <2>2. Max({Direct, Cases}) * Slack \in Nat
    BY <2>1
  <2> QED
    BY <2>1, <2>2, Constants DEF CapHolds
<1> QED
  BY <1>1, <1>2, <1>3, <1>4, <1>5, <1>6, <1>7, <1>8 DEF IInv

\* The invariant is kept when a proposal is asked for again.
LEMMA AgainKeeps ==
  ASSUME IInv, stage \in {"boundary", "twin"}, step = "decode", at.attempt # Attempts, Again,
         KeepEntry \/ DiscardKey, Same
  PROVE  IInv'
<1>1. /\ at \in StageAtHand /\ at.attempt \in 1..Attempts /\ at.attempt \in Nat
      /\ mode' = mode /\ seen' = seen
      /\ seen \in [Request \cup BatchRequest -> Nat] /\ step \in Asking
  BY LoopsTyped DEF IInv, TypeOK, AskedSound, Same, Asking
<1>2. at' = [at EXCEPT !.attempt = @ + 1] /\ step' = "ask" /\ stage' = stage
  BY DEF Again
<1>3. /\ at' \in StageAtHand /\ at'.attempt = at.attempt + 1 /\ at'.index = at.index
      /\ at'.pairs = at.pairs /\ at'.skipped = at.skipped
  BY <1>1, <1>2, Constants DEF StageAtHand
<1>4. StageSound'
  BY <1>1, <1>2, <1>3 DEF IInv, StageSound, Asking, Batching
<1>5. AskedSound'
  <2>1. CASE stage = "boundary"
    <3>1. seen[<<"boundary", at.index, 0>>] < at.attempt + 1
      BY <2>1 DEF IInv, AskedSound
    <3>2. <<"boundary", at.index, 0>> \in Request
      BY <2>1 DEF IInv, StageSound, Request
    <3> QED
      BY <1>1, <1>2, <1>3, <2>1, <3>1, <3>2 DEF IInv, AskedSound
  <2>2. CASE stage = "twin"
    <3>1. seen[<<"twin", at.index, 0>>] < at.attempt + 1
      BY <1>1, <2>2 DEF IInv, AskedSound
    <3>2. <<"twin", at.index, 0>> \in Request
      BY <1>1, <2>2 DEF IInv, StageSound, Request
    <3> QED
      BY <1>1, <1>2, <1>3, <2>2, <3>1, <3>2 DEF IInv, AskedSound
  <2> QED
    BY <2>1, <2>2
<1> QED
  BY <1>2, <1>3, <1>4, <1>5, NextRequestKeeps

\* The invariant is kept by the step to the next constraint or the first anchor.
LEMMA NextBoundaryKeeps ==
  ASSUME IInv, stage = "boundary", step = "decode", NextBoundary, KeepEntry, Same
  PROVE  IInv'
<1>1. /\ at \in StageAtHand /\ mode' = mode /\ seen' = seen
      /\ seen \in [Request \cup BatchRequest -> Nat] /\ at.index \in 1..Constraints
      /\ \A i \in 1..Candidates : seen[<<"twin", i, 0>>] = 0
      /\ \A i \in (at.index + 1)..Constraints : seen[<<"boundary", i, 0>>] = 0
  BY DEF IInv, TypeOK, AskedSound, Same, StageSound
<1>2. CASE at.index < Constraints
  <2>1. /\ at' = [at EXCEPT !.index = @ + 1, !.attempt = 1] /\ step' = "ask"
        /\ stage' = "boundary"
    BY <1>2 DEF NextBoundary
  <2>2. at' = [round |-> at.round, kept |-> at.kept, total |-> at.total,
               index |-> at.index + 1, good |-> at.good, attempt |-> 1,
               pairs |-> at.pairs, skipped |-> at.skipped]
    BY <1>1, <2>1 DEF StageAtHand
  <2>3. at' \in StageAtHand /\ at'.index = at.index + 1 /\ at'.attempt = 1
    BY <1>1, <2>2, Constants DEF StageAtHand
  <2>4. StageSound'
    BY <1>1, <1>2, <2>1, <2>3, Constants DEF StageSound, Asking, Batching
  <2>5. /\ at.index + 1 \in (at.index + 1)..Constraints
        /\ \A i \in ((at.index + 1) + 1)..Constraints : i \in (at.index + 1)..Constraints
    BY <1>1, <1>2, Constants
  <2>6. AskedSound'
    BY <1>1, <2>1, <2>3, <2>5 DEF AskedSound
  <2> QED
    BY <2>1, <2>3, <2>4, <2>6, NextRequestKeeps
<1>3. CASE ~(at.index < Constraints)
  <2>1. /\ at' = Loops(0, 0) /\ stage' = "twin"
        /\ step' = IF Wanted > 0 THEN "ask" ELSE "publish"
    BY <1>3 DEF NextBoundary
  <2>2. /\ at' \in StageAtHand /\ at'.index = 1 /\ at'.attempt = 1 /\ at'.pairs = 0
        /\ at'.skipped = 0
    BY <2>1, LoopsStart, Constants
  <2>3. StageSound'
    BY <2>1, <2>2, Constants DEF StageSound, Asking, Batching
  <2>4. AskedSound'
    <3>1. step' = "ask" => 1 \in 1..Candidates
      BY <2>1, Constants
    <3>2. \A i \in (1 + 1)..Candidates : i \in 1..Candidates
      BY Constants
    <3> QED
      BY <1>1, <2>1, <2>2, <3>1, <3>2 DEF AskedSound, Asking
  <2> QED
    BY <2>1, <2>2, <2>3, <2>4, NextRequestKeeps
<1> QED
  BY <1>2, <1>3

\* The invariant is kept by the step to the next anchor.
LEMMA NextAnchorKeeps ==
  ASSUME IInv, stage = "twin", step = "decode", KeepEntry \/ DiscardKey, Same,
         NEW pairs \in 0..Wanted, NEW skipped \in 0..(Wanted + 1),
         ~NoAnchorLeft(pairs, skipped), NextAnchor(pairs, skipped)
  PROVE  IInv'
<1>1. /\ at \in StageAtHand /\ mode' = mode /\ seen' = seen /\ step \in Asking
      /\ seen \in [Request \cup BatchRequest -> Nat] /\ at.index \in 1..Candidates
      /\ \A i \in (at.index + 1)..Candidates : seen[<<"twin", i, 0>>] = 0
  BY DEF IInv, TypeOK, AskedSound, Same, StageSound, Asking
<1>2. /\ at' = [at EXCEPT !.index = @ + 1, !.attempt = 1, !.pairs = pairs, !.skipped = skipped]
      /\ step' = (IF pairs = Wanted THEN "publish" ELSE "ask") /\ stage' = "twin"
  BY DEF NextAnchor
<1>3. at' = [round |-> at.round, kept |-> at.kept, total |-> at.total,
             index |-> at.index + 1, good |-> at.good, attempt |-> 1,
             pairs |-> pairs, skipped |-> skipped]
  BY <1>1, <1>2 DEF StageAtHand
<1>4. /\ at' \in StageAtHand /\ at'.index = at.index + 1 /\ at'.attempt = 1
      /\ at'.pairs = pairs /\ at'.skipped = skipped
  BY <1>1, <1>3, Constants DEF StageAtHand
<1>5. skipped <= Wanted /\ (step' = "ask" => pairs < Wanted /\ at.index < Candidates)
  BY <1>1, <1>2, Constants DEF NoAnchorLeft
<1>6. StageSound'
  BY <1>1, <1>2, <1>4, <1>5, Constants DEF StageSound, Asking, Batching
<1>7. AskedSound'
  <2>1. step' = "ask" => at.index + 1 \in (at.index + 1)..Candidates
    BY <1>1, <1>5, Constants
  <2>2. \A i \in ((at.index + 1) + 1)..Candidates : i \in (at.index + 1)..Candidates
    BY <1>1, Constants
  <2> QED
    BY <1>1, <1>2, <1>4, <2>1, <2>2 DEF AskedSound, Asking
<1> QED
  BY <1>2, <1>4, <1>6, <1>7, NextRequestKeeps

\* The invariant is kept by DecodeProposal: a boundary or twin proposal is
\* decoded.
LEMMA DecodeProposalKeeps == ASSUME IInv, DecodeProposal PROVE IInv'
<1>1. step = "decode" /\ step \notin {"store", "record"} /\ stage \in {"boundary", "twin"}
  BY DEF DecodeProposal
<1>2. stage = "twin" => at.pairs + 1 \in 0..Wanted /\ at.skipped + 1 \in 0..(Wanted + 1)
  BY <1>1, LoopsTyped, Constants DEF IInv, StageSound, Asking
<1>3. at.pairs \in 0..Wanted /\ at.skipped \in 0..(Wanted + 1)
  BY LoopsTyped DEF IInv
<1>4. Discarding => KeepEntry \/ DiscardKey
  BY DEF Discarding
<1>5. CASE at.attempt # Attempts /\ Again /\ Discarding /\ Same
  BY <1>1, <1>4, <1>5, AgainKeeps
<1>6. CASE \E also : StopRejected(also)
  BY <1>1, <1>6, StopRejectedKeeps
<1>7. CASE stage = "boundary" /\ NextBoundary /\ KeepEntry /\ Same
  BY <1>1, <1>7, NextBoundaryKeeps
<1>8. CASE /\ stage = "twin" /\ ~NoAnchorLeft(at.pairs + 1, at.skipped)
           /\ NextAnchor(at.pairs + 1, at.skipped) /\ KeepEntry /\ Same
  BY <1>1, <1>2, <1>3, <1>8, NextAnchorKeeps
<1>9. CASE /\ stage = "twin" /\ ~NoAnchorLeft(at.pairs, at.skipped + 1)
           /\ NextAnchor(at.pairs, at.skipped + 1) /\ Discarding /\ Same
  BY <1>1, <1>2, <1>3, <1>4, <1>9, NextAnchorKeeps
<1> QED
  BY <1>5, <1>6, <1>7, <1>8, <1>9 DEF DecodeProposal

\* The invariant is kept by Expire: the provider drops a batch.
LEMMA ExpireKeeps == ASSUME IInv, NEW i \in DOMAIN batches, Expire(i) PROVE IInv'
<1> DEFINE Batch == UNION {BatchOf(n) : n \in 1..Cases}
<1>1. /\ batches' = [batches EXCEPT ![i].gone = TRUE]
      /\ UNCHANGED <<mode, journal, handles, baseDone, advDone, stage, step, at, seen, touched,
                     key, bkey, handle, replay, resumed, got, cost, largest, sent, bills, excuse>>
  BY DEF Expire, disk, batchAtHand, meter, history
<1>2. batches \in Seq(Batch) /\ i \in 1..Len(batches) /\ Len(batches) \in Nat
  BY DEF IInv, BatchesSequence
<1>3. batches[i] \in Batch /\ [batches[i] EXCEPT !.gone = TRUE] \in Batch
  <2>1. batches[i] \in Batch
    <3> HIDE DEF Batch
    <3> QED
      BY <1>2
  <2>2. PICK n \in 1..Cases : batches[i] \in BatchOf(n)
    BY <2>1
  <2>3. [batches[i] EXCEPT !.gone = TRUE] \in BatchOf(n)
    BY <2>2 DEF BatchOf
  <2> QED
    BY <2>1, <2>3, Zenon
<1> HIDE DEF Batch
<1>4. /\ batches' \in Seq(Batch) /\ Len(batches') = Len(batches)
      /\ \A j \in 1..Len(batches) : j # i => batches'[j] = batches[j]
      /\ batches'[i] = [batches[i] EXCEPT !.gone = TRUE]
  BY <1>1, <1>2, <1>3
<1>5. ASSUME NEW j \in 1..Len(batches), NEW n, batches[j] \in BatchOf(n)
      PROVE  batches'[j] \in BatchOf(n)
  BY <1>4, <1>5 DEF BatchOf
<1>6. ASSUME NEW j \in 1..Len(batches), NEW n, batches[j] \in BatchOf(n)
      PROVE  batches'[j].result = batches[j].result /\ batches'[j].out = batches[j].out
  BY <1>4, <1>6 DEF BatchOf
<1>7. TypeOK'
  BY <1>1, <1>4 DEF IInv, TypeOK
<1>8. BatchesSequence' /\ CapHolds'
  BY <1>1, <1>4 DEF Batch, IInv, BatchesSequence, CapHolds, Slack
<1>9. BatchesSound'
  <2>1. ASSUME NEW b \in BatchKey, handles[b].id # 0
        PROVE  batches'[handles[b].id] \in BatchOf(b[1][2])
    <3>1. handles[b].id \in 1..Len(batches)
      BY <1>2, <2>1 DEF IInv, TypeOK
    <3> QED
      BY <1>5, <2>1, <3>1 DEF IInv, BatchesSound
  <2>2. ASSUME handle # 0, batches[handle] \in BatchOf(at.total)
        PROVE  batches'[handle] \in BatchOf(at.total)
    <3>1. handle \in 1..Len(batches)
      BY <1>2, <2>2 DEF IInv, TypeOK
    <3> QED
      BY <1>5, <2>2, <3>1
  <2> QED
    BY <1>1, <2>1, <2>2 DEF IInv, BatchesSound
<1>10. StageSound' /\ AskedSound'
  <2>1. StageSound'
    BY <1>1 DEF IInv, StageSound, Journaled
  <2>2. AskedSound'
    BY <1>1 DEF IInv, AskedSound
  <2> QED
    BY <2>1, <2>2
<1>11. SpendSound'
  <2>1. ASSUME step \in {"record", "collect"} PROVE Owed' = Owed
    <3>1. batches[handle] \in BatchOf(at.total) /\ handle # 0
      BY <2>1, CollectedBatch
    <3>2. handle \in 1..Len(batches)
      BY <1>2, <3>1 DEF IInv, TypeOK
    <3> QED
      BY <1>1, <1>6, <3>1, <3>2 DEF Owed, Price, Journaled
  <2> QED
    BY <1>1, <2>1 DEF IInv, SpendSound
<1>12. PaidSound'
  BY <1>1 DEF IInv, PaidSound, InFlight, Recorded, Journaled
<1> QED
  BY <1>7, <1>8, <1>9, <1>10, <1>11, <1>12 DEF IInv

\* The invariant holds with an empty journal.
LEMMA InitSound == ASSUME Init PROVE IInv
<1>1. TypeOK
  <2>1. at \in StageAtHand
    BY LoopsStart, Constants DEF Init
  <2>2. key \in AnswerKey /\ bkey \in BatchKey
    <3>1. 1 \in Times /\ 1 \in 1..Cases
      BY TimesCover, Constants
    <3> QED
      BY <3>1 DEF Init, AnswerKey, BatchKey, Request, BatchRequest
  <2>3. /\ Len(batches) = 0 /\ handle = 0
        /\ handles = [b \in BatchKey |-> NoHandle]
    BY DEF Init
  <2>4. handles \in [BatchKey -> [id : 0..Len(batches), collected : BOOLEAN]]
    BY <2>3 DEF NoHandle
  <2>5. /\ journal \in [AnswerKey -> Answer \cup {None}] /\ bills \in [Key -> Nat]
        /\ excuse \in [Key -> Nat]
    BY DEF Init
  <2>6. mode \in Modes /\ touched = {} /\ handle \in 0..Len(batches) /\ got \in Answer
    BY <2>3 DEF Init, Answer
  <2>7. /\ baseDone = FALSE /\ advDone = FALSE /\ replay = FALSE /\ resumed = FALSE
        /\ stage = "off" /\ step = "idle" /\ cost = 0 /\ largest = 0 /\ sent = 0
    BY DEF Init
  <2> QED
    BY <2>1, <2>2, <2>4, <2>5, <2>6, <2>7 DEF TypeOK
<1>2. BatchesSequence
  BY DEF Init, BatchesSequence
<1>3. BatchesSound
  BY DEF Init, BatchesSound, NoHandle, Batching
<1>4. StageSound /\ SpendSound
  BY DEF Init, StageSound, SpendSound, Asking, Batching
<1>5. AskedSound
  BY DEF Init, AskedSound
<1>6. PaidSound
  BY DEF Init, PaidSound
<1>7. CapHolds
  <2>1. Max({Direct, Cases}) \in Nat /\ Slack \in Nat
    BY MaxOfTwo, SlackBounds, Constants
  <2>2. Max({Direct, Cases}) * Slack \in Nat
    BY <2>1
  <2>3. sent = 0
    BY DEF Init
  <2> QED
    BY <2>2, <2>3, Constants DEF CapHolds
<1> QED
  BY <1>1, <1>2, <1>3, <1>4, <1>5, <1>6, <1>7 DEF IInv

\* The invariant is about the variables of the specification only.
LEMMA StutterSound == ASSUME IInv, UNCHANGED vars PROVE IInv'
<1> USE DEF vars, disk, meter, batchAtHand, history
<1>1. TypeOK'
  BY DEF IInv, TypeOK
<1>2. BatchesSequence' /\ CapHolds'
  BY DEF IInv, BatchesSequence, CapHolds, Slack
<1>3. BatchesSound'
  BY DEF IInv, BatchesSound
<1>4. StageSound'
  BY DEF IInv, StageSound, Journaled
<1>5. AskedSound'
  BY DEF IInv, AskedSound
<1>6. SpendSound'
  BY DEF IInv, SpendSound, Owed, Price, Journaled
<1>7. PaidSound'
  BY DEF IInv, PaidSound, InFlight, Recorded, Journaled
<1> QED
  BY <1>1, <1>2, <1>3, <1>4, <1>5, <1>6, <1>7 DEF IInv

\* Every step of the specification keeps the invariant.
LEMMA StepSound == ASSUME IInv, [Next]_vars PROVE IInv'
<1>1. CASE RunStep
  <2>1. ASSUME SendRefused \/ SubmitRefused \/ GoneAgain PROVE IInv'
    <3>1. Stop /\ step \notin {"store", "record"}
      BY <2>1 DEF SendRefused, SubmitRefused, GoneAgain
    <3> QED
      BY <3>1, StopKeeps
  <2> QED
    BY <1>1, <2>1, AskKeeps, AskLocallyKeeps, SendKeeps, StoreKeeps, DecodeCaseKeeps,
       DecodeProposalKeeps, PublishBaseKeeps, PublishAdversarialKeeps, OpenBatchKeeps, SubmitKeeps,
       RecordKeeps, GoneKeeps, CollectRejectedKeeps, CollectKeeps, SettleKeeps, CountRoundKeeps
    DEF RunStep
<1>2. CASE Failure
  <2>1. ASSUME SendFails \/ SubmitFails \/ CollectFails \/ PublishFails PROVE IInv'
    <3>1. Stop /\ step \notin {"store", "record"}
      BY <2>1 DEF SendFails, SubmitFails, CollectFails, PublishFails
    <3> QED
      BY <3>1, StopKeeps
  <2> QED
    BY <1>2, <2>1, CrashKeeps DEF Failure
<1>3. CASE Start
  BY <1>3, StartKeeps
<1>4. CASE \E i \in DOMAIN batches : Expire(i)
  BY <1>4, ExpireKeeps
<1>5. CASE Finished \/ UNCHANGED vars
  BY <1>5, StutterSound DEF Finished
<1> QED
  BY <1>1, <1>2, <1>3, <1>4, <1>5 DEF Next

\* The invariant holds in every state of every behavior.
LEMMA InvariantHolds == Spec => []IInv
  BY InitSound, StepSound, PTL DEF Spec

----------------------------------------------------------------------------
\* What the invariant says of the runs

\* A key is paid for at most once more than there were reasons to.
LEMMA PaidFollows == IInv => PaidOnce
<1> SUFFICES ASSUME IInv, NEW k \in Key PROVE bills[k] <= excuse[k] + 1
  BY DEF PaidOnce
<1>1. bills[k] <= excuse[k] + (IF Recorded(k) \/ InFlight(k) THEN 1 ELSE 0)
  BY DEF IInv, PaidSound
<1>2. bills[k] \in Nat /\ excuse[k] \in Nat
  BY DEF IInv, TypeOK
<1> QED
  BY <1>1, <1>2

\* Every state of the teacher has its type: every journaled answer has a key within
\* the rounds and attempts of the run, and every handle names a submitted batch.
THEOREM TypeCorrect == Spec => []TypeOK
<1>1. IInv => TypeOK
  BY DEF IInv
<1> QED
  BY <1>1, InvariantHolds, PTL

\* PaidOnce: over any sequence of runs, crashes, expiries and failed writes, a
\* request or batch is paid for again only when its answer was rejected or lost.
THEOREM PaidOnceForEachReason == Spec => []PaidOnce
  BY PaidFollows, InvariantHolds, PTL

\* CapHolds: no run pays for more than the cap and the overrun of one request, or
\* of one batch, over its estimate (SpendMeter.reserve).
THEOREM SpendStaysUnderTheCap == Spec => []CapHolds
<1>1. IInv => CapHolds
  BY DEF IInv
<1> QED
  BY <1>1, InvariantHolds, PTL

\* SpendCharged: whenever a run turns to its next request or publishes, the meter
\* holds all it was billed for.
THEOREM MeterHoldsTheSpend == Spec => []SpendCharged
<1>1. IInv => SpendCharged
  BY DEF IInv, SpendSound, SpendCharged
<1> QED
  BY <1>1, InvariantHolds, PTL

=============================================================================
