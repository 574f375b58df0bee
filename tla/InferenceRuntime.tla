-------------------------- MODULE InferenceRuntime --------------------------
(***************************************************************************)
(* The synchronous inference bridge of the runtime package.  The main      *)
(* thread turns a semantic call into a message to a worker thread, blocks  *)
(* in Atomics.wait on a control block the two threads share, and reads the *)
(* answer from a shared response buffer.  The worker answers               *)
(* asynchronously: between two awaits of an invocation it may handle       *)
(* another message, and the main thread runs in parallel with all of it.   *)
(*                                                                         *)
(* Abstractions.  A request (a function id with its canonical input) is a  *)
(* model value, and the answer to a request is represented by the request  *)
(* itself, so that reading another request's answer is visible.  The text  *)
(* of an error message is the value ErrorText.  The worker error codes     *)
(* that come from the call's own work (unknown function, invalid input,    *)
(* backend, response too large) are one code, "failed".                    *)
(***************************************************************************)
EXTENDS Naturals, Sequences, Functions

CONSTANTS
  Request,       \* what can be asked: a function with its canonical input
  Input,         \* the canonical inputs, the keys of sentence embeddings
  Text,          \* Text[r]: the canonical input of request r
  ErrorText,     \* the bytes of an error message
  Scope,         \* request scopes, each opened at most once
  NoScope,       \* the scope id of a call made outside a scope
  MaxSequence,   \* MAXIMUM_SEQUENCE, where sequence numbers wrap to 1
  MaxStage,      \* MAXIMUM_STAGE_REQUESTS
  ScopeEntries   \* SCOPE_CACHE_ENTRIES

ASSUME ConstantsAssumption ==
  /\ Text \in [Request -> Input]
  /\ ErrorText \notin Request
  /\ NoScope \notin Scope
  /\ MaxSequence \in Nat \ {0}
  /\ MaxStage \in Nat \ {0}
  /\ ScopeEntries \in Nat \ {0}

VARIABLES
  \* main thread
  pc,            \* where the main thread is
  sequence,      \* #sequence
  call,          \* the call in progress, or NoCall
  result,        \* how the last call ended
  fault,         \* #fault is set
  closed,        \* #closed
  exitSeen,      \* the worker's exit event was delivered to the main thread
  scopes,        \* request scopes of withSemaScope
  used,          \* scopes whose `runtimes` holds this runtime
  \* shared memory
  control,       \* the control block
  response,      \* the response buffer
  \* worker thread
  worker,        \* life cycle of the thread and its backend
  inbox,         \* messages posted to the worker, oldest first
  job,           \* the invocation in progress, or NoJob
  writing,       \* the completeBytes call in progress, or NoWriting
  keptSentence,  \* sentence embeddings kept per scope, oldest first
  keptFunction   \* function embeddings kept per scope, oldest first

mainVars == <<pc, sequence, call, result, fault, closed, exitSeen>>
scopeVars == <<scopes, used>>
sharedVars == <<control, response>>
workerVars == <<worker, job, writing, keptSentence, keptFunction>>
vars == <<mainVars, scopeVars, sharedVars, workerVars, inbox>>

Bytes == Seq(Request \cup {ErrorText})
ScopeId == Scope \cup {NoScope}
Call == [sequence : 0..MaxSequence, requests : Seq(Request), scope : ScopeId]
NoCall == [sequence |-> 0, requests |-> <<>>, scope |-> NoScope]
NoJob == [phase |-> "none", call |-> NoCall]
NoWriting ==
  [step |-> "none", state |-> "idle", errorCode |-> "none", bytes |-> <<>>]

InvokeMessage(c) == [kind |-> "invoke", call |-> c]
EndScopeMessage(s) == [kind |-> "end-scope", scope |-> s]
ShutdownMessage == [kind |-> "shutdown"]

Init ==
  /\ pc = "starting"
  /\ sequence = 0
  /\ call = NoCall
  /\ result = [kind |-> "none", asked |-> <<>>, value |-> <<>>]
  /\ fault = FALSE
  /\ closed = FALSE
  /\ exitSeen = FALSE
  /\ scopes = [s \in Scope |-> "new"]
  /\ used = {}
  /\ control =
       [state |-> "idle", sequence |-> 0, payloadLength |-> 0,
        errorCode |-> "none"]
  /\ response = <<>>
  /\ worker = "starting"
  /\ inbox = <<>>
  /\ job = NoJob
  /\ writing = NoWriting
  /\ keptSentence = [s \in Scope |-> <<>>]
  /\ keptFunction = [s \in Scope |-> <<>>]

-----------------------------------------------------------------------------
(* Start                                                                   *)

\* initialize: the backend is loaded and "ready" reaches the main thread in time.
Initialized ==
  /\ pc = "starting"
  /\ worker = "starting"
  /\ pc' = "ready"
  /\ worker' = "up"
  /\ UNCHANGED <<sequence, call, result, fault, closed, exitSeen, scopeVars,
                 sharedVars, inbox, job, writing, keptSentence, keptFunction>>

\* initializeWorker rejects: a load error, an exit or the timeout came first.
\* createInferenceRuntime terminates the worker and returns no runtime.
InitializationFails ==
  /\ pc = "starting"
  /\ pc' = "failed"
  /\ worker' = "exited"
  /\ UNCHANGED <<sequence, call, result, fault, closed, exitSeen, scopeVars,
                 sharedVars, inbox, job, writing, keptSentence, keptFunction>>

-----------------------------------------------------------------------------
(* Main thread: one call                                                   *)

\* A bug: #assertUsable forgets the fault.
UsableUnlessClosed == pc = "ready" /\ ~closed

Usable == pc = "ready" /\ ~closed /\ ~fault

\* A bug: the sequence never wraps.
NextSequenceUnwrapped == sequence + 1

NextSequence == IF sequence = MaxSequence THEN 1 ELSE sequence + 1

\* The stores a call makes before it posts: the response buffer is cleared
\* (or, for a stage, allocated) and the control block marked pending.
Prepare(requests, s) ==
  /\ Usable
  /\ sequence' = NextSequence
  /\ call' = [sequence |-> NextSequence, requests |-> requests, scope |-> s]
  /\ response' = <<>>
  /\ control' =
       [state |-> "pending", sequence |-> NextSequence, payloadLength |-> 0,
        errorCode |-> "none"]
  /\ pc' = "posting"
  /\ UNCHANGED <<result, fault, closed, exitSeen, scopeVars, workerVars, inbox>>

\* call: one request, outside any scope or inside one that was opened.  A
\* continuation that fn left behind still carries its scope after fn settled.
BeginCall ==
  \E r \in Request, s \in {t \in Scope : scopes[t] # "new"} \cup {NoScope} :
    Prepare(<<r>>, s)

\* callStage: 1 to MAXIMUM_STAGE_REQUESTS requests, never in a scope.
BeginStage ==
  \E n \in 1..MaxStage : \E requests \in [1..n -> Request] :
    Prepare(requests, NoScope)

Return(kind, value) ==
  /\ result' = [kind |-> kind, asked |-> call.requests, value |-> value]
  /\ call' = NoCall
  /\ pc' = "ready"

\* #assertUsable throws "closed" or "worker-failed" before anything is touched.
Refuse ==
  /\ pc = "ready"
  /\ closed \/ fault
  /\ result' = [kind |-> "refused", asked |-> <<>>, value |-> <<>>]
  /\ UNCHANGED <<pc, sequence, call, fault, closed, exitSeen, scopeVars,
                 sharedVars, workerVars, inbox>>

\* An unknown function or an invalid input throws on the main thread.
RejectInput ==
  /\ Usable
  /\ result' = [kind |-> "invalid-input", asked |-> <<>>, value |-> <<>>]
  /\ UNCHANGED <<pc, sequence, call, fault, closed, exitSeen, scopeVars,
                 sharedVars, workerVars, inbox>>

\* postMessage; a message to a worker that exited is dropped silently.
Deliver(m) == inbox' = IF worker = "exited" THEN inbox ELSE Append(inbox, m)

Post ==
  /\ pc = "posting"
  /\ pc' = "entering"
  /\ Deliver(InvokeMessage(call))
  /\ UNCHANGED <<sequence, call, result, fault, closed, exitSeen, scopeVars,
                 sharedVars, workerVars>>

\* A bug: a failed post breaks nothing.
PostFailsWithoutLatch ==
  /\ pc = "posting"
  /\ Return("worker-failed", <<>>)
  /\ UNCHANGED <<sequence, fault, closed, exitSeen, scopeVars, sharedVars,
                 workerVars, inbox>>

PostFails ==
  /\ pc = "posting"
  /\ fault' = TRUE
  /\ Return("worker-failed", <<>>)
  /\ UNCHANGED <<sequence, closed, exitSeen, scopeVars, sharedVars, workerVars,
                 inbox>>

\* Atomics.wait returns at once ("not-equal") when the state is no longer
\* pending, and otherwise puts the thread to sleep.
EnterWait ==
  /\ pc = "entering"
  /\ pc' = IF control.state = "pending" THEN "waiting" ELSE "woken"
  /\ UNCHANGED <<sequence, call, result, fault, closed, exitSeen, scopeVars,
                 sharedVars, workerVars, inbox>>

\* A bug: a timeout breaks nothing, the next call may go ahead.
TimeOutWithoutLatch ==
  /\ pc = "waiting"
  /\ Return("timeout", <<>>)
  /\ UNCHANGED <<sequence, fault, closed, exitSeen, scopeVars, sharedVars,
                 workerVars, inbox>>

\* A bug: the wait of a stage has no timeout.
TimeOutOfOneRequest ==
  /\ pc = "waiting"
  /\ Len(call.requests) = 1
  /\ fault' = TRUE
  /\ Return("timeout", <<>>)
  /\ UNCHANGED <<sequence, closed, exitSeen, scopeVars, sharedVars, workerVars,
                 inbox>>

\* Atomics.wait returns "timed-out": the fault is latched, the control block
\* is left as it is.
TimeOut ==
  /\ pc = "waiting"
  /\ fault' = TRUE
  /\ Return("timeout", <<>>)
  /\ UNCHANGED <<sequence, closed, exitSeen, scopeVars, sharedVars, workerVars,
                 inbox>>

\* What the main thread loads after the wait is an answer to its call.
Answered ==
  control.sequence = call.sequence /\ control.state \in {"success", "error"}

\* A bug: an unexpected wake-up ends the call and breaks nothing.
ObserveWithoutLatch ==
  /\ pc = "woken"
  /\ \/ Answered /\ pc' = "reading" /\ UNCHANGED <<call, result>>
     \/ ~Answered /\ Return("failed", <<>>)
  /\ UNCHANGED <<sequence, fault, closed, exitSeen, scopeVars, sharedVars,
                 workerVars, inbox>>

\* After the wait: sequence, state and payload length are loaded and checked.
Observe ==
  /\ pc = "woken"
  /\ \/ Answered /\ pc' = "reading" /\ UNCHANGED <<call, result, fault>>
     \/ ~Answered /\ fault' = TRUE /\ Return("invalid-response", <<>>)
  /\ UNCHANGED <<sequence, closed, exitSeen, scopeVars, sharedVars, workerVars,
                 inbox>>

\* What the call ends with: the worker's error code, or the payload if it
\* parses as the results the call's schemas describe.
ReadKind(payload) ==
  CASE control.state = "error" -> control.errorCode
    [] /\ control.state = "success"
       /\ Len(payload) = Len(call.requests)
       /\ ErrorText \notin Range(payload) -> "value"
    [] OTHER -> "invalid-response"

\* The payload is decoded, the state returns to idle.  On success
\* dispatchArtifactCall adds the runtime to its scope.
Read ==
  LET payload == SubSeq(response, 1, control.payloadLength)
      kind == ReadKind(payload) IN
  /\ pc = "reading"
  /\ Return(kind, IF kind = "value" THEN payload ELSE <<>>)
  /\ fault' = (fault \/ kind = "invalid-response")
  /\ used' = IF kind = "value" THEN used \cup ({call.scope} \ {NoScope}) ELSE used
  /\ control' = [control EXCEPT !.state = "idle"]
  /\ UNCHANGED <<sequence, closed, exitSeen, scopes, response, workerVars, inbox>>

-----------------------------------------------------------------------------
(* Main thread: scopes, close and the worker's events                      *)

\* withSemaScope enters fn.
OpenScope(s) ==
  /\ pc = "ready"
  /\ scopes[s] = "new"
  /\ scopes' = [scopes EXCEPT ![s] = "open"]
  /\ UNCHANGED <<mainVars, used, sharedVars, workerVars, inbox>>

\* endScope: silent once the runtime is closed or faulted.
EndScope(s) ==
  IF closed \/ fault THEN UNCHANGED inbox ELSE Deliver(EndScopeMessage(s))

\* A bug: release() clears the scope's runtimes and then tells them.
SettleScopeClearingFirst(s) ==
  /\ pc = "ready"
  /\ scopes[s] = "open"
  /\ scopes' = [scopes EXCEPT ![s] = "settled"]
  /\ used' = used \ {s}
  /\ UNCHANGED <<mainVars, sharedVars, workerVars, inbox>>

\* fn returned, threw or its promise settled: release() tells every runtime
\* that answered a call of the scope.
SettleScope(s) ==
  /\ pc = "ready"
  /\ scopes[s] = "open"
  /\ scopes' = [scopes EXCEPT ![s] = "settled"]
  /\ IF s \in used THEN EndScope(s) ELSE UNCHANGED inbox
  /\ used' = used \ {s}
  /\ UNCHANGED <<mainVars, sharedVars, workerVars>>

\* A bug: close posts the shutdown and leaves the runtime usable.
CloseLeavingUsable ==
  /\ pc = "ready"
  /\ ~closed
  /\ Deliver(ShutdownMessage)
  /\ UNCHANGED <<mainVars, scopeVars, sharedVars, workerVars>>

\* close: the worker is asked to shut down.
Close ==
  /\ pc = "ready"
  /\ ~closed
  /\ closed' = TRUE
  /\ Deliver(ShutdownMessage)
  /\ UNCHANGED <<pc, sequence, call, result, fault, exitSeen, scopeVars,
                 sharedVars, workerVars>>

\* The thread is gone, with everything it held.
StopWorker ==
  /\ worker' = "exited"
  /\ inbox' = <<>>
  /\ job' = NoJob
  /\ writing' = NoWriting
  /\ keptSentence' = [s \in Scope |-> <<>>]
  /\ keptFunction' = [s \in Scope |-> <<>>]

\* close, after the worker's exit or five seconds: worker.terminate().
Terminate ==
  /\ pc = "ready"
  /\ closed
  /\ worker # "exited"
  /\ StopWorker
  /\ UNCHANGED <<mainVars, scopeVars, sharedVars>>

\* The "error" and "exit" handlers, on a turn of the main event loop.
NoticeExit ==
  /\ pc = "ready"
  /\ worker = "exited"
  /\ ~exitSeen
  /\ exitSeen' = TRUE
  /\ fault' = (fault \/ ~closed)
  /\ UNCHANGED <<pc, sequence, call, result, closed, scopeVars, sharedVars,
                 workerVars, inbox>>

-----------------------------------------------------------------------------
(* Worker thread                                                           *)

\* The worker thread ends: an uncaught error, its memory limit, or an empty
\* event loop after shutdown closed the port.
WorkerExits ==
  /\ worker \in {"up", "closing"}
  /\ StopWorker
  /\ UNCHANGED <<mainVars, scopeVars, sharedVars>>

\* A turn of the worker's event loop can start: no completeBytes is running.
WorkerFree == worker \in {"up", "closing"} /\ writing.step = "none"

\* complete and completeBytes, to be carried out store by store.
Completing(state, errorCode, bytes) ==
  [step |-> "bytes", state |-> state, errorCode |-> errorCode, bytes |-> bytes]

\* A bug: a full cache keeps what it has and drops the new embedding.
KeepOldest(cache, key) ==
  IF Len(cache) >= ScopeEntries THEN cache ELSE Append(cache, key)

\* keepInScope: a full cache drops its oldest embedding.
Keep(cache, key) ==
  Append(IF Len(cache) >= ScopeEntries THEN Tail(cache) ELSE cache, key)

SentenceKept(c) ==
  c.scope # NoScope /\ Text[c.requests[1]] \in Range(keptSentence[c.scope])
FunctionKept(c) ==
  c.scope # NoScope /\ c.requests[1] \in Range(keptFunction[c.scope])

AfterEncoder(c) == IF FunctionKept(c) THEN "head" ELSE "adapt"

\* The refusals at the head of invoke, in their order.
Refusal(c) ==
  CASE control.state # "pending" \/ control.sequence # c.sequence -> "protocol"
    [] job # NoJob -> "busy"
    [] worker # "up" -> "protocol"
    [] OTHER -> "none"

\* The "message" handler on an invoke or invoke-stage message, up to the
\* invocation's first await.
TakeInvoke ==
  /\ WorkerFree
  /\ inbox # <<>>
  /\ Head(inbox).kind = "invoke"
  /\ inbox' = Tail(inbox)
  /\ LET c == Head(inbox).call
         phase == IF SentenceKept(c) THEN AfterEncoder(c) ELSE "encode" IN
     /\ job' = IF Refusal(c) = "none" THEN [phase |-> phase, call |-> c] ELSE job
     /\ writing' = IF Refusal(c) = "none" THEN writing
                   ELSE Completing("error", Refusal(c), <<ErrorText>>)
  /\ UNCHANGED <<mainVars, scopeVars, sharedVars, worker, keptSentence,
                 keptFunction>>

\* The encoder passes are done.
Encoded ==
  /\ WorkerFree
  /\ job.phase = "encode"
  /\ job' = [job EXCEPT !.phase = AfterEncoder(job.call)]
  /\ keptSentence' =
       IF job.call.scope = NoScope THEN keptSentence
       ELSE [keptSentence EXCEPT
               ![job.call.scope] = Keep(@, Text[job.call.requests[1]])]
  /\ UNCHANGED <<mainVars, scopeVars, sharedVars, worker, inbox, writing,
                 keptFunction>>

\* The adapter passes are done.
Adapted ==
  /\ WorkerFree
  /\ job.phase = "adapt"
  /\ job' = [job EXCEPT !.phase = "head"]
  /\ keptFunction' =
       IF job.call.scope = NoScope THEN keptFunction
       ELSE [keptFunction EXCEPT
               ![job.call.scope] = Keep(@, job.call.requests[1])]
  /\ UNCHANGED <<mainVars, scopeVars, sharedVars, worker, inbox, writing,
                 keptSentence>>

\* The head passes are done and the results mapped.
Evaluated ==
  /\ WorkerFree
  /\ job.phase = "head"
  /\ job' = NoJob
  /\ writing' = Completing("success", "none", job.call.requests)
  /\ UNCHANGED <<mainVars, scopeVars, sharedVars, worker, inbox, keptSentence,
                 keptFunction>>

\* Any pass throws, or the response exceeds the buffer.
InvocationFails ==
  /\ WorkerFree
  /\ job # NoJob
  /\ job' = NoJob
  /\ writing' = Completing("error", "failed", <<ErrorText>>)
  /\ UNCHANGED <<mainVars, scopeVars, sharedVars, worker, inbox, keptSentence,
                 keptFunction>>

WriteBytes ==
  /\ writing.step = "bytes"
  /\ response' = writing.bytes
  /\ writing' = [writing EXCEPT !.step = "payload"]
  /\ UNCHANGED <<mainVars, scopeVars, control, worker, inbox, job, keptSentence,
                 keptFunction>>

WritePayload ==
  /\ writing.step = "payload"
  /\ control' = [control EXCEPT !.payloadLength = Len(writing.bytes),
                                !.errorCode = writing.errorCode]
  /\ writing' = [writing EXCEPT !.step = "state"]
  /\ UNCHANGED <<mainVars, scopeVars, response, worker, inbox, job, keptSentence,
                 keptFunction>>

WriteState ==
  /\ writing.step = "state"
  /\ control' = [control EXCEPT !.state = writing.state]
  /\ writing' = [writing EXCEPT !.step = "notify"]
  /\ UNCHANGED <<mainVars, scopeVars, response, worker, inbox, job, keptSentence,
                 keptFunction>>

\* Atomics.notify wakes the main thread if it sleeps on the state, whatever
\* the state now is.
Notify ==
  /\ writing.step = "notify"
  /\ writing' = NoWriting
  /\ pc' = IF pc = "waiting" THEN "woken" ELSE pc
  /\ UNCHANGED <<sequence, call, result, fault, closed, exitSeen, scopeVars,
                 sharedVars, worker, inbox, job, keptSentence, keptFunction>>

\* OnnxBackend.endScope disposes what the scope kept.
TakeEndScope ==
  /\ WorkerFree
  /\ inbox # <<>>
  /\ Head(inbox).kind = "end-scope"
  /\ inbox' = Tail(inbox)
  /\ keptSentence' = [keptSentence EXCEPT ![Head(inbox).scope] = <<>>]
  /\ keptFunction' = [keptFunction EXCEPT ![Head(inbox).scope] = <<>>]
  /\ UNCHANGED <<mainVars, scopeVars, sharedVars, worker, job, writing>>

\* shutdown drops the backend, which disposes every scope and releases the
\* sessions; the port closes once they are released.
TakeShutdown ==
  /\ WorkerFree
  /\ inbox # <<>>
  /\ Head(inbox).kind = "shutdown"
  /\ inbox' = Tail(inbox)
  /\ worker' = "closing"
  /\ keptSentence' = [s \in Scope |-> <<>>]
  /\ keptFunction' = [s \in Scope |-> <<>>]
  /\ UNCHANGED <<mainVars, scopeVars, sharedVars, job, writing>>

-----------------------------------------------------------------------------
CallStep == Post \/ PostFails \/ EnterWait \/ TimeOut \/ Observe \/ Read

Completion == WriteBytes \/ WritePayload \/ WriteState \/ Notify

WorkerStep ==
  \/ TakeInvoke \/ TakeEndScope \/ TakeShutdown
  \/ Encoded \/ Adapted \/ Evaluated \/ InvocationFails
  \/ Completion

Next ==
  \/ Initialized \/ InitializationFails
  \/ BeginCall \/ BeginStage \/ Refuse \/ RejectInput
  \/ CallStep
  \/ \E s \in Scope : OpenScope(s) \/ SettleScope(s)
  \/ Close \/ Terminate \/ NoticeExit
  \/ WorkerExits
  \/ WorkerStep

\* The main thread runs until a call returns: Atomics.wait has a timeout.  The
\* worker's event loop keeps turning, and close ends in terminate().
Fairness ==
  /\ WF_vars(CallStep)
  /\ WF_vars(WorkerStep)
  /\ WF_vars(Terminate)

Spec == Init /\ [][Next]_vars /\ Fairness

-----------------------------------------------------------------------------
(* Properties                                                              *)

ErrorCode == {"none", "failed", "busy", "protocol"}
Message ==
  [kind : {"invoke"}, call : Call]
  \cup [kind : {"end-scope"}, scope : Scope]
  \cup [kind : {"shutdown"}]
Result ==
  [kind : {"none", "value", "failed", "busy", "protocol", "invalid-response",
           "invalid-input", "timeout", "worker-failed", "refused"},
   asked : Seq(Request), value : Bytes]
Control ==
  [state : {"idle", "pending", "success", "error"}, sequence : 0..MaxSequence,
   payloadLength : Nat, errorCode : ErrorCode]
Job == [phase : {"none", "encode", "adapt", "head"}, call : Call]
Writing ==
  [step : {"none", "bytes", "payload", "state", "notify"},
   state : {"idle", "success", "error"}, errorCode : ErrorCode, bytes : Bytes]

\* Every variable holds a value of its kind.
TypeOK ==
  /\ pc \in {"starting", "failed", "ready", "posting", "entering", "waiting",
             "woken", "reading"}
  /\ sequence \in 0..MaxSequence
  /\ call \in Call
  /\ result \in Result
  /\ fault \in BOOLEAN /\ closed \in BOOLEAN /\ exitSeen \in BOOLEAN
  /\ scopes \in [Scope -> {"new", "open", "settled"}]
  /\ used \subseteq Scope
  /\ control \in Control
  /\ response \in Bytes
  /\ worker \in {"starting", "up", "closing", "exited"}
  /\ inbox \in Seq(Message)
  /\ job \in Job
  /\ writing \in Writing
  /\ keptSentence \in [Scope -> Seq(Input)]
  /\ keptFunction \in [Scope -> Seq(Request)]

\* A call that succeeds returns the answers to its own requests: never those
\* of an earlier call that answered late, and never a half-written response
\* (call and callStage, after the fault latch and the sequence check).
OwnAnswer == result.kind = "value" => result.value = result.asked

\* While the runtime is usable and no call is in progress, no invocation is
\* queued, running or still storing its answer, so the control block and the
\* response buffer are the main thread's to reset.
QuietBetweenCalls ==
  pc \in {"ready", "posting"} /\ ~closed /\ ~fault =>
    /\ job = NoJob
    /\ writing.step \in {"none", "notify"}
    /\ \A i \in 1..Len(inbox) : inbox[i].kind # "invoke"

\* The worker never has to turn an invocation away: it is never busy with
\* another one, never finds a foreign sequence number, never finds its backend
\* shut down (the three refusals at the head of invoke).
NeverTurnedAway == writing.errorCode \notin {"busy", "protocol"}

\* Until close, the embeddings a running invocation took from or put into its
\* scope are still kept there: the scope did not end and the cache did not
\* evict them, so the next pass reads no disposed tensor.
EmbeddingsLive ==
  worker = "up" /\ job.call.scope # NoScope =>
    /\ job.phase = "adapt" => SentenceKept(job.call)
    /\ job.phase = "head" => FunctionKept(job.call)

\* Once a call has timed out or found the worker unusable, no later call
\* succeeds and none reaches the worker.
FaultIsFinal ==
  [][fault => /\ fault'
              /\ result' # result => result'.kind = "refused"
              /\ control'.sequence = control.sequence]_vars

\* Every call returns, also when the worker dies, hangs or answers into the
\* void: the main thread never sleeps for ever.
CallReturns == pc = "posting" ~> pc = "ready"

\* The worker keeps nothing for the scope.
NothingKept(s) == keptSentence[s] = <<>> /\ keptFunction[s] = <<>>

\* A call of a continuation that outlived fn is in progress.
LateCall(s) == scopes[s] = "settled" /\ call.scope = s

\* Once fn settles, the worker drops what it keeps for a request scope that the
\* runtime answered in, and it never keeps anything for that scope again,
\* unless the runtime is closed or faulted, when the worker goes, or a call is
\* made in the scope after it settled, which nobody releases.
ScopeReleased ==
  \A s \in Scope :
    scopes[s] = "open" /\ s \in used ~>
      \/ [](scopes[s] = "settled" => NothingKept(s))
      \/ LateCall(s)
      \/ closed \/ fault

\* What docs and tests say, and the code does not do.

\* docs/diagnostics.md:471 names the protocol error for a worker that "returned
\* malformed output"; this worker's output is never malformed, so no call may
\* end that way.
NoFalseProtocolError == result.kind # "invalid-response"

\* artifact-runtime.ts:439 "the embeddings kept for that are dropped when `fn`
\* settles": when fn settles, a usable runtime's worker keeps nothing for the
\* scope or is asked to drop it.
SettledScopeDropped ==
  [][\A s \in Scope :
       scopes[s] = "open" /\ scopes'[s] = "settled" /\ Usable =>
         NothingKept(s) \/ EndScopeMessage(s) \in Range(inbox')]_vars

-----------------------------------------------------------------------------
(* The bridge implements the call service.                                 *)

\* The bridge as its caller sees it: nothing the worker does shows.
Status ==
  CASE pc = "starting" -> "starting"
    [] pc = "failed" \/ closed -> "closed"
    [] pc \notin {"starting", "failed"} /\ ~closed /\ fault -> "broken"
    [] pc \notin {"starting", "failed"} /\ ~closed /\ ~fault -> "up"
Asked == call.requests
Ended == [kind |-> result.kind, value |-> result.value]

Service == INSTANCE CallService WITH
  OwnError <- {"failed", "busy", "protocol"},
  FatalError <- {"timeout", "worker-failed", "invalid-response"},
  status <- Status,
  asked <- Asked,
  outcome <- Ended

\* Every behaviour of the bridge, seen by its caller, is one of CallService:
\* an answer is always the answer to the request that was asked, a failure that
\* breaks the runtime is final, and every call ends.
ImplementsCallService == Service!Spec
=============================================================================
