--------------------------- MODULE TeacherJournal ---------------------------
(***************************************************************************)
(* How `train` asks a teacher for the cases of one function, pays for them *)
(* and keeps what it paid for.  A run assembles the base dataset (direct   *)
(* requests or a Message Batch, in rounds that replace cases a constraint  *)
(* rejects), then the adversarial dataset (a boundary pair for every       *)
(* constraint, a twin for every selected anchor, each in a few attempts),  *)
(* and publishes each of them when it is complete.  A run may stop         *)
(* anywhere: the spend cap, a transport error, a poll timeout, rejected    *)
(* answers, a crash.  The next run starts over with the response journal   *)
(* and the published datasets of the runs before it.                       *)
(*                                                                         *)
(* An answer is "ok", "wrong" (well formed, rejected by a constraint or a  *)
(* label conflict) or "broken" (rejected by the case or adversarial        *)
(* contract as it is decoded).  Money is counted in the price of one token *)
(* block of a batch request: a direct request costs Direct times that.     *)
(***************************************************************************)
EXTENDS Naturals, Sequences, FiniteSets, FiniteSetsExt

CONSTANTS
  Modes,         \* the teacher configurations: "direct", "batch", "auto", "ollama"
  Threshold,     \* batch_threshold of mode "auto"
  Cases,         \* synthetic cases the base dataset needs
  Rounds,        \* MAXIMUM_REPLACEMENT_ROUNDS
  Constraints,   \* constraints of the function
  Candidates,    \* anchors a counterfactual may be asked for
  Wanted,        \* counterfactual pairs to generate
  Attempts,      \* maximum_attempts of the adversarial configuration
  Prompt, Outs,  \* price of a prompt, and of the answers the teacher may give
  Default,       \* DEFAULT_OUTPUT_TOKENS
  Direct,        \* price of a direct request over a batch one
  Cap,           \* --max-cost-usd
  MaxBad, MaxFaults,  \* bounds: answers that are not ok, failures outside the run
  None

Answer == {"ok", "wrong", "broken"}
Request == ({"case"} \X (1..Cases) \X (1..Cases))
            \cup ({"boundary"} \X (1..Constraints) \X {0})
            \cup ({"twin"} \X (1..Candidates) \X {0})
BatchRequest == {"batch"} \X (1..Cases) \X {0}
Times == 1..Max({Attempts, Rounds + 1})
AnswerKey == Request \X Times
BatchKey == BatchRequest \X Times
Key == AnswerKey \cup BatchKey

ASSUME JournalAssumption ==
  /\ Modes \subseteq {"direct", "batch", "auto", "ollama"}
  /\ {Threshold, Rounds, Constraints, Candidates, Wanted, Prompt, Default,
      Direct, Cap, MaxBad, MaxFaults} \subseteq Nat
  /\ Cases \in Nat \ {0} /\ Attempts \in Nat \ {0}
  /\ Wanted <= Candidates
  /\ Outs \subseteq Nat /\ \E top \in Outs : \A out \in Outs : out <= top
  /\ None \notin Answer

VARIABLES
  mode,          \* the teacher configuration of these runs
  journal,       \* journal[k]: the answer stored under key k, or None
  handles,       \* handles[b]: the recorded batch, or NoHandle
  batches,       \* the provider's batches, in the order they were submitted
  baseDone, advDone,   \* whether each dataset is published
  stage,         \* "off", "base", "boundary", "twin", "done": where the run is
  step,          \* the next step of the request at hand
  at,            \* the loop variables of the stage
  seen,          \* requests, and batches, this run has numbered so far
  touched,       \* the journal entries this run read or wrote
  key,           \* _last_journal_key: the key of the request at hand
  bkey, handle, replay, resumed,   \* the batch at hand
  got,           \* the answer at hand
  cost, largest, \* SpendMeter.cost_usd and largest_output_tokens
  bills, excuse, \* history: payments for a key or batch key, reasons to pay again
  sent,          \* history: what this run paid for requests it sent itself
  bad, faults    \* bounds used up

disk == <<journal, handles, baseDone, advDone>>
meter == <<cost, largest, sent>>
batchAtHand == <<bkey, handle, replay, resumed>>
history == <<bills, excuse>>
vars == <<mode, disk, batches, stage, step, at, seen, touched, key, batchAtHand,
          got, meter, history, bad, faults>>

Journaled == mode # "ollama"
UseBatch(n) == mode = "batch" \/ (mode = "auto" /\ n >= Threshold)

----------------------------------------------------------------------------
\* Prices

ExpectedOutput == ((IF largest > Default THEN largest ELSE Default) * 5 + 3) \div 4
Estimate == IF Journaled THEN Prompt + ExpectedOutput ELSE 0
Price(out) == IF Journaled THEN Prompt + out ELSE 0
\* Mutant: the cap is compared with what was spent, not with what would be.
RefusedOnceOver(usd) == cost > Cap
Refused(usd) == cost + usd > Cap

\* A request costs at most this much more than it was reserved at.
Slack == LET top == Max(Outs)
             low == (Default * 5 + 3) \div 4
         IN  IF top > low THEN top - low ELSE 0

----------------------------------------------------------------------------
\* The loops of one run

Loops(k, round) ==
  [round |-> round, kept |-> k, total |-> Cases - k, index |-> 1, good |-> 0,
   attempt |-> 1, pairs |-> 0, skipped |-> 0]

Opening(n) == IF UseBatch(n) THEN "open" ELSE "ask"

BeginRound(k, round) ==
  /\ stage' = "base"
  /\ at' = Loops(k, round)
  /\ step' = Opening(Cases - k)

BeginAdversarial ==
  /\ at' = Loops(0, 0)
  /\ IF Constraints > 0 THEN stage' = "boundary" /\ step' = "ask"
     ELSE stage' = "twin" /\ step' = IF Wanted > 0 THEN "ask" ELSE "publish"

RequestAtHand ==
  CASE stage = "base"     -> <<"case", at.index, at.total>>
    [] stage = "boundary" -> <<"boundary", at.index, 0>>
    [] OTHER              -> <<"twin", at.index, 0>>

NoHandle == [id |-> 0, collected |-> FALSE]
Recorded(k) == IF k \in AnswerKey THEN journal[k] # None ELSE handles[k].id # 0

Drop(keys) ==
  /\ journal' = [k \in AnswerKey |-> IF k \in keys THEN None ELSE journal[k]]
  /\ handles' = [b \in BatchKey |-> IF b \in keys THEN NoHandle ELSE handles[b]]

Excused(keys) == excuse' = [k \in Key |-> excuse[k] + (IF k \in keys THEN 1 ELSE 0)]

Leave == /\ stage' = "off" /\ step' = "idle"
         /\ UNCHANGED <<mode, batches, baseDone, advDone, at, seen, touched, key,
                        batchAtHand, got, meter, bills, bad>>

\* The run ends on an error that is not about the answers; what it paid for stays.
Stop == Leave /\ UNCHANGED <<journal, handles, excuse>>

\* Mutant: the entries the run used stay when its answers were rejected.
StopKeepingEntries(also) ==
  LET dropped == {k \in also : Recorded(k)}
  IN  Leave /\ UNCHANGED faults /\ Drop(dropped) /\ Excused(dropped)

\* The run ends because the answers were rejected: every entry it used is
\* discarded, and so is the one in also.
StopRejected(also) ==
  LET dropped == {k \in touched \cup also : Recorded(k)}
  IN  /\ Leave /\ UNCHANGED faults
      /\ Drop(dropped) /\ Excused(dropped)

Fault == faults < MaxFaults /\ faults' = faults + 1

----------------------------------------------------------------------------
\* AnthropicTeacher._send

\* A journaled answer is replayed instead of asked for again.
Ask ==
  /\ step = "ask" /\ Journaled
  /\ LET r == RequestAtHand
         k == <<r, seen[r] + 1>>
     IN  /\ seen' = [seen EXCEPT ![r] = @ + 1]
         /\ key' = k
         /\ IF journal[k] # None
            THEN /\ touched' = touched \cup {k}
                 /\ got' = journal[k]
                 /\ step' = "decode"
            ELSE step' = "send" /\ UNCHANGED <<touched, got>>
  /\ UNCHANGED <<mode, disk, batches, stage, at, batchAtHand, meter, history, bad, faults>>

\* OllamaTeacher: every answer is asked for, and none is paid for.
AskLocally ==
  /\ step = "ask" /\ ~Journaled
  /\ step' = "send"
  /\ UNCHANGED <<mode, disk, batches, stage, at, seen, touched, key, batchAtHand, got, meter,
                 history, bad, faults>>

SendRefused == step = "send" /\ Refused(Direct * Estimate) /\ Stop /\ UNCHANGED faults

SendFails == step = "send" /\ ~Refused(Direct * Estimate) /\ Fault /\ Stop

Send ==
  /\ step = "send" /\ ~Refused(Direct * Estimate)
  /\ \E answer \in Answer, out \in Outs :
       /\ answer # "ok" => bad < MaxBad
       /\ bad' = IF answer = "ok" THEN bad ELSE bad + 1
       /\ got' = answer
       /\ cost' = cost + Direct * Price(out)
       /\ sent' = sent + Direct * Price(out)
       /\ largest' = IF out > largest THEN out ELSE largest
  /\ IF Journaled THEN bills' = [bills EXCEPT ![key] = @ + 1] /\ step' = "store"
     ELSE UNCHANGED bills /\ step' = "decode"
  /\ UNCHANGED <<mode, disk, batches, stage, at, seen, touched, key, batchAtHand,
                 excuse, faults>>

Store ==
  /\ step = "store" /\ step' = "decode"
  /\ \/ /\ journal' = [journal EXCEPT ![key] = got]
        /\ touched' = touched \cup {key}
        /\ UNCHANGED <<excuse, faults>>
     \/ Fault /\ Excused({key}) /\ UNCHANGED <<journal, touched>>
  /\ UNCHANGED <<mode, handles, batches, baseDone, advDone, stage, at, seen, key,
                 batchAtHand, got, meter, bills, bad>>

----------------------------------------------------------------------------
\* What the run does with an answer

\* Mutant: one replacement round too many.
AfterRoundOneMore(k) ==
  IF k = Cases THEN step' = "publish" /\ at' = [at EXCEPT !.kept = k] /\ UNCHANGED stage
  ELSE at.round <= Rounds /\ BeginRound(k, at.round + 1)

\* SyntheticDatasetGenerator._generate_valid after a round kept k cases in all.
AfterRound(k) ==
  IF k = Cases THEN /\ step' = "publish"
                    /\ at' = [at EXCEPT !.kept = k] /\ UNCHANGED stage
  ELSE at.round < Rounds /\ BeginRound(k, at.round + 1)

RoundsExhausted(k) == k < Cases /\ at.round = Rounds

\* The answer is kept in the journal, broken or not at all.
KeepEntry == UNCHANGED <<journal, handles, excuse>>
DiscardKey ==
  IF Journaled /\ journal[key] # None THEN Drop({key}) /\ Excused({key}) ELSE KeepEntry

Same == UNCHANGED <<mode, batches, baseDone, advDone, seen, touched, key, batchAtHand,
                    got, meter, bills, bad, faults>>

DecodeCase ==
  /\ step = "decode" /\ stage = "base"
  /\ LET good == at.good + (IF got = "ok" THEN 1 ELSE 0)
         k == at.kept + good
     IN  \/ got = "broken" /\ StopRejected(IF Journaled THEN {key} ELSE {})
         \/ /\ got # "broken" /\ at.index < at.total
            /\ at' = [at EXCEPT !.index = @ + 1, !.good = good]
            /\ step' = "ask" /\ UNCHANGED stage /\ KeepEntry /\ Same
         \/ got # "broken" /\ at.index = at.total /\ AfterRound(k) /\ KeepEntry /\ Same
         \/ got # "broken" /\ at.index = at.total /\ RoundsExhausted(k) /\ StopRejected({})

\* The next boundary pair, or the first anchor, or the end of the dataset.
NextBoundary ==
  /\ IF at.index < Constraints
     THEN at' = [at EXCEPT !.index = @ + 1, !.attempt = 1] /\ step' = "ask" /\ UNCHANGED stage
     ELSE /\ at' = Loops(0, 0) /\ stage' = "twin"
          /\ step' = IF Wanted > 0 THEN "ask" ELSE "publish"

NextAnchor(pairs, skipped) ==
  /\ at' = [at EXCEPT !.index = @ + 1, !.attempt = 1, !.pairs = pairs, !.skipped = skipped]
  /\ step' = (IF pairs = Wanted THEN "publish" ELSE "ask") /\ UNCHANGED stage

\* No anchor is left, or more were skipped than pairs are wanted.
NoAnchorLeft(pairs, skipped) ==
  skipped > Wanted \/ (pairs < Wanted /\ at.index = Candidates)

Again == at' = [at EXCEPT !.attempt = @ + 1] /\ step' = "ask" /\ UNCHANGED stage

Discarding == IF got = "broken" THEN DiscardKey ELSE KeepEntry

DecodeProposal ==
  /\ step = "decode" /\ stage \in {"boundary", "twin"}
  /\ LET last == at.attempt = Attempts
         also == IF got = "broken" /\ Journaled THEN {key} ELSE {}
     IN  \/ got # "ok" /\ ~last /\ Again /\ Discarding /\ Same
         \/ got # "ok" /\ last /\ stage = "boundary" /\ StopRejected(also)
         \/ got = "ok" /\ stage = "boundary" /\ NextBoundary /\ KeepEntry /\ Same
         \/ /\ got = "ok" /\ stage = "twin" /\ ~NoAnchorLeft(at.pairs + 1, at.skipped)
            /\ NextAnchor(at.pairs + 1, at.skipped) /\ KeepEntry /\ Same
         \/ /\ got # "ok" /\ last /\ stage = "twin" /\ ~NoAnchorLeft(at.pairs, at.skipped + 1)
            /\ NextAnchor(at.pairs, at.skipped + 1) /\ Discarding /\ Same
         \/ /\ stage = "twin"
            /\ \/ got = "ok" /\ NoAnchorLeft(at.pairs + 1, at.skipped)
               \/ got # "ok" /\ last /\ NoAnchorLeft(at.pairs, at.skipped + 1)
            /\ StopRejected(also)

\* _publish: an atomic rename, or a cache error that stops the run.
PublishBase ==
  /\ step = "publish" /\ stage = "base"
  /\ baseDone' = TRUE /\ BeginAdversarial
  /\ UNCHANGED <<mode, journal, handles, batches, advDone, seen, touched, key,
                 batchAtHand, got, meter, history, bad, faults>>

PublishAdversarial ==
  /\ step = "publish" /\ stage = "twin"
  /\ advDone' = TRUE /\ stage' = "done" /\ step' = "idle"
  /\ UNCHANGED <<mode, journal, handles, batches, baseDone, at, seen, touched, key,
                 batchAtHand, got, meter, history, bad, faults>>

PublishFails == step = "publish" /\ Fault /\ Stop

----------------------------------------------------------------------------
\* AnthropicTeacher._generate_batch

\* Mutant: only a batch that was collected is resumed.
OpenBatchIfCollected ==
  /\ step = "open"
  /\ LET b == <<<<"batch", at.total, 0>>, seen[<<"batch", at.total, 0>>] + 1>>
         found == handles[b].id # 0 /\ handles[b].collected
     IN  /\ seen' = [seen EXCEPT ![b[1]] = @ + 1] /\ bkey' = b
         /\ handle' = (IF found THEN handles[b].id ELSE 0)
         /\ replay' = found /\ resumed' = found
         /\ touched' = (IF found THEN touched \cup {b} ELSE touched)
         /\ step' = (IF found THEN "collect" ELSE "submit")
  /\ UNCHANGED <<mode, disk, batches, stage, at, key, got, meter, history, bad, faults>>

OpenBatch ==
  /\ step = "open"
  /\ LET n == at.total
         r == <<"batch", n, 0>>
         b == <<r, seen[r] + 1>>
     IN  /\ seen' = [seen EXCEPT ![r] = @ + 1]
         /\ bkey' = b
         /\ IF handles[b].id # 0
            THEN /\ handle' = handles[b].id /\ replay' = handles[b].collected
                 /\ resumed' = TRUE
                 /\ touched' = touched \cup {b}
                 /\ step' = "collect"
            ELSE /\ handle' = 0 /\ replay' = FALSE /\ resumed' = FALSE
                 /\ step' = "submit" /\ UNCHANGED touched
  /\ UNCHANGED <<mode, disk, batches, stage, at, key, got, meter, history, bad, faults>>

SubmitRefused == step = "submit" /\ Refused(at.total * Estimate) /\ Stop /\ UNCHANGED faults

SubmitFails == step = "submit" /\ ~Refused(at.total * Estimate) /\ Fault /\ Stop

\* The provider's outcome of an item: an answer, or "failed" (errored, expired,
\* canceled or missing, which costs nothing).
Outcome == Answer \cup {"failed"}
NotOk(result) == Cardinality({i \in DOMAIN result : result[i] # "ok"})
Answered(result) == Cardinality({i \in DOMAIN result : result[i] # "failed"})

Submit ==
  /\ step = "submit" /\ ~Refused(at.total * Estimate)
  /\ \E result \in [1..at.total -> Outcome], out \in Outs :
       /\ bad + NotOk(result) <= MaxBad
       /\ bad' = bad + NotOk(result)
       /\ batches' = Append(batches, [result |-> result, out |-> out, gone |-> FALSE])
       /\ sent' = sent + Answered(result) * Price(out)
  /\ handle' = Len(batches) + 1
  /\ replay' = FALSE
  /\ bills' = [bills EXCEPT ![bkey] = @ + 1]
  /\ step' = "record"
  /\ UNCHANGED <<mode, disk, stage, at, seen, touched, key, bkey, resumed, got, cost,
                 largest, excuse, faults>>

\* store_batch: the handle is recorded, or the write fails and is ignored.
RecordHandle(isCollected) ==
  \/ /\ handles' = [handles EXCEPT ![bkey] = [id |-> handle, collected |-> isCollected]]
     /\ touched' = touched \cup {bkey}
     /\ UNCHANGED <<excuse, faults>>
  \/ Fault /\ UNCHANGED <<handles, touched>>
     /\ IF handles[bkey].id = 0 /\ ~isCollected THEN Excused({bkey})
        ELSE UNCHANGED excuse

Record ==
  /\ step = "record" /\ step' = "collect"
  /\ RecordHandle(FALSE)
  /\ UNCHANGED <<mode, journal, batches, baseDone, advDone, stage, at, seen, key,
                 batchAtHand, got, meter, bills, bad>>

\* The poll or the results stream fails, or the batch is not done in time.
CollectFails == step = "collect" /\ ~batches[handle].gone /\ Fault /\ Stop

\* The provider no longer has a recorded batch: it is submitted once more.
Gone ==
  /\ step = "collect" /\ batches[handle].gone /\ resumed
  /\ Drop({bkey}) /\ Excused({bkey})
  /\ handle' = 0 /\ resumed' = FALSE /\ replay' = FALSE /\ step' = "submit"
  /\ UNCHANGED <<mode, batches, baseDone, advDone, stage, at, seen, touched, key, bkey,
                 got, meter, bills, bad, faults>>

GoneAgain == step = "collect" /\ batches[handle].gone /\ ~resumed /\ Stop /\ UNCHANGED faults

\* Mutant: only the accepted answers of a batch are charged.
ChargedAccepted(batch) ==
  IF replay THEN 0
  ELSE Cardinality({i \in DOMAIN batch.result : batch.result[i] = "ok"}) * Price(batch.out)
Charged(batch) == IF replay THEN 0 ELSE Answered(batch.result) * Price(batch.out)

\* The whole stream is read and charged, then the first rejection is raised.
CollectRejected ==
  /\ step = "collect" /\ ~batches[handle].gone
  /\ LET result == batches[handle].result
         wrecked == {i \in DOMAIN result : result[i] \in {"broken", "failed"}}
     IN  /\ wrecked # {}
         /\ IF result[Min(wrecked)] = "broken"
            THEN StopRejected({bkey})
            ELSE Leave /\ Drop({bkey}) /\ Excused({k \in {bkey} : Recorded(k)})
                 /\ UNCHANGED faults

Collect ==
  /\ step = "collect" /\ ~batches[handle].gone
  /\ \A i \in DOMAIN batches[handle].result :
       batches[handle].result[i] \in {"ok", "wrong"}
  /\ cost' = cost + Charged(batches[handle])
  /\ largest' = IF ~replay /\ batches[handle].out > largest THEN batches[handle].out ELSE largest
  /\ step' = "settle"
  /\ UNCHANGED <<mode, disk, batches, stage, at, seen, touched, key, batchAtHand, got,
                 sent, history, bad, faults>>

Settle ==
  /\ step = "settle"
  /\ IF replay THEN UNCHANGED <<handles, touched, excuse, faults>> ELSE RecordHandle(TRUE)
  /\ at' = [at EXCEPT !.good = at.total - NotOk(batches[handle].result)]
  /\ step' = "count"
  /\ UNCHANGED <<mode, journal, batches, baseDone, advDone, stage, seen, key,
                 batchAtHand, got, meter, bills, bad>>

CountRound ==
  /\ step = "count"
  /\ \/ AfterRound(at.kept + at.good) /\ KeepEntry /\ Same
     \/ RoundsExhausted(at.kept + at.good) /\ StopRejected({})

Expire(i) ==
  /\ ~batches[i].gone /\ Fault
  /\ batches' = [batches EXCEPT ![i].gone = TRUE]
  /\ UNCHANGED <<mode, disk, stage, step, at, seen, touched, key, batchAtHand, got,
                 meter, history, bad>>

----------------------------------------------------------------------------
\* Runs

Start ==
  /\ stage = "off"
  /\ seen' = [r \in Request \cup BatchRequest |-> 0]
  /\ touched' = {} /\ cost' = 0 /\ largest' = 0 /\ sent' = 0
  /\ IF ~baseDone THEN BeginRound(0, 0)
     ELSE BeginAdversarial
  /\ UNCHANGED <<mode, disk, batches, key, batchAtHand, got, history, bad, faults>>

\* The process is killed; an answer it has paid for and not stored is lost.
Crash ==
  /\ stage \notin {"off", "done"} /\ Fault /\ Leave
  /\ UNCHANGED <<journal, handles>>
  /\ CASE step = "store"  -> Excused({key})
       [] step = "record" -> Excused({bkey})
       [] OTHER           -> UNCHANGED excuse

Finished == stage = "done" /\ UNCHANGED vars

Init ==
  /\ mode \in Modes
  /\ journal = [k \in AnswerKey |-> None]
  /\ handles = [b \in BatchKey |-> NoHandle]
  /\ batches = <<>>
  /\ baseDone = FALSE /\ advDone = FALSE
  /\ stage = "off" /\ step = "idle" /\ at = Loops(0, 0)
  /\ seen = [r \in Request \cup BatchRequest |-> 0]
  /\ touched = {}
  /\ key = <<<<"case", 1, 1>>, 1>> /\ bkey = <<<<"batch", 1, 0>>, 1>>
  /\ handle = 0 /\ replay = FALSE /\ resumed = FALSE /\ got = "ok"
  /\ cost = 0 /\ largest = 0 /\ sent = 0
  /\ bills = [k \in Key |-> 0] /\ excuse = [k \in Key |-> 0]
  /\ bad = 0 /\ faults = 0

RunStep ==
  \/ Ask \/ AskLocally \/ Send \/ SendRefused \/ Store \/ DecodeCase \/ DecodeProposal
  \/ PublishBase \/ PublishAdversarial
  \/ OpenBatch \/ Submit \/ SubmitRefused \/ Record \/ Gone \/ GoneAgain
  \/ CollectRejected \/ Collect \/ Settle \/ CountRound

Failure == SendFails \/ SubmitFails \/ CollectFails \/ PublishFails \/ Crash

Next ==
  \/ RunStep \/ Failure \/ Start \/ Finished
  \/ \E i \in DOMAIN batches : Expire(i)

Spec == Init /\ [][Next]_vars

----------------------------------------------------------------------------
\* Properties

StageAtHand == [round : 0..Rounds, kept : 0..Cases, total : 0..Cases,
                index : Nat, good : 0..Cases, attempt : 1..Attempts,
                pairs : 0..Wanted, skipped : 0..(Wanted + 1)]

\* Every variable has its type, and an entry of the journal is what its key names.
TypeOK ==
  /\ mode \in Modes
  /\ journal \in [AnswerKey -> Answer \cup {None}]
  /\ handles \in [BatchKey -> [id : 0..Len(batches), collected : BOOLEAN]]
  /\ baseDone \in BOOLEAN /\ advDone \in BOOLEAN
  /\ stage \in {"off", "base", "boundary", "twin", "done"}
  /\ step \in {"idle", "ask", "send", "store", "decode", "publish", "open", "submit",
              "record", "collect", "settle", "count"}
  /\ at \in StageAtHand
  /\ touched \subseteq Key /\ key \in AnswerKey /\ bkey \in BatchKey
  /\ handle \in 0..Len(batches) /\ replay \in BOOLEAN /\ resumed \in BOOLEAN
  /\ got \in Answer /\ cost \in Nat /\ largest \in Nat /\ sent \in Nat
  /\ bills \in [Key -> Nat] /\ excuse \in [Key -> Nat]

\* A request or a batch is paid for a second time only for a reason: its answers
\* were rejected, the provider dropped the batch, the journal could not be written,
\* or the run died between the payment and the write (ResponseJournal's promise).
PaidOnce == \A k \in Key : bills[k] <= excuse[k] + 1

\* The spend cap holds up to what one request costs over its estimate, whatever
\* was replayed, resumed or resubmitted before it (SpendMeter.reserve).
CapHolds == sent <= Cap + Max({Direct, Cases}) * Slack

\* When a run turns to its next request, or publishes, the meter holds all the run
\* was billed for: replays and resumed batches never hide a new payment.
SpendCharged == step \in {"ask", "open", "publish"} => sent <= cost

\* Reruns of the command finish the datasets, although every run may be stopped by
\* the same cap and rejected answers are journaled: no rejected answer is replayed
\* for ever, and every run gets further than the one before.
EventuallyDone == <>(stage = "done")

\* The user reruns the command until it succeeds, and a run keeps going.
FairSpec == Spec /\ WF_vars(RunStep) /\ WF_vars(Start)
=============================================================================
