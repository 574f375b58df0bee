----------------------- MODULE InferenceRuntime_proofs -----------------------
(***************************************************************************)
(* The safety of the inference bridge, proved for every set of requests    *)
(* and scopes and every sequence, stage and cache limit.                   *)
(*                                                                         *)
(* The properties are not inductive by themselves.  What makes them true   *)
(* is that at any time at most one invocation is under way, in one place:  *)
(* queued in the inbox, running as the job, or being stored by             *)
(* completeBytes; that the control block stays pending until its state is  *)
(* stored; and that, unless the runtime has faulted, this invocation is    *)
(* the one of the call in progress.                                        *)
(***************************************************************************)
EXTENDS InferenceRuntime, SequenceTheorems, TLAPS

AwaitsAnswer == pc \in {"entering", "waiting", "woken"}
InCall == AwaitsAnswer \/ pc \in {"posting", "reading"}
Storing == writing.step \in {"bytes", "payload", "state"}

\* How the lives of the two threads go together.
Life ==
  /\ fault \/ closed => pc = "ready"
  /\ pc = "starting" <=> worker = "starting"
  /\ pc = "failed" => worker = "exited"
  /\ worker \in {"starting", "exited"} =>
       inbox = <<>> /\ job = NoJob /\ writing = NoWriting
  /\ worker = "closing" => closed /\ inbox = <<>>

\* A queued invocation is the only one under way, and only a shutdown is
\* behind it; a queued end-scope finds no job; nothing is behind a shutdown.
InboxOK ==
  \A i \in 1..Len(inbox) :
    /\ inbox[i].kind = "invoke" =>
         /\ control.state = "pending"
         /\ control.sequence = inbox[i].call.sequence
         /\ inbox[i].call.requests # <<>>
         /\ job = NoJob
         /\ ~Storing
         /\ fault \/ (AwaitsAnswer /\ inbox[i].call = call)
         /\ \A j \in 1..Len(inbox) : j > i => inbox[j].kind = "shutdown"
    /\ inbox[i].kind = "end-scope" => job = NoJob
    /\ inbox[i].kind = "shutdown" => closed /\ i = Len(inbox)

\* A running invocation is the call's, unless the call gave up on it.
JobOK ==
  /\ job.phase = "none" <=> job = NoJob
  /\ job # NoJob =>
       /\ control.state = "pending"
       /\ job.call.requests # <<>>
       /\ writing.step = "none"
       /\ fault \/ (AwaitsAnswer /\ job.call = call)

\* The answer being stored is the call's, unless the call gave up on it, and
\* is in the buffer before the control block says so.
WritingOK ==
  /\ writing.errorCode \in {"none", "failed"}
  /\ writing.step = "none" => writing = NoWriting
  /\ Storing =>
       /\ control.state = "pending"
       /\ writing.state \in {"success", "error"}
       /\ writing.state = "error" => writing.errorCode = "failed"
       /\ fault \/ (AwaitsAnswer /\ (writing.state = "success" =>
                                       writing.bytes = call.requests))
  /\ writing.step \in {"payload", "state"} => response = writing.bytes
  /\ writing.step = "state" =>
       /\ control.payloadLength = Len(writing.bytes)
       /\ control.errorCode = writing.errorCode

\* The control block and the buffer, as the call in progress sees them.
ControlOK ==
  /\ InCall => control.sequence = call.sequence /\ call.requests # <<>>
  /\ pc = "posting" => control.state = "pending"
  /\ AwaitsAnswer => control.state \in {"pending", "success", "error"}
  /\ pc = "reading" => control.state \in {"success", "error"}
  /\ AwaitsAnswer \/ pc = "reading" =>
       /\ control.state = "success" =>
            response = call.requests /\ control.payloadLength = Len(call.requests)
       /\ control.state = "error" => control.errorCode = "failed"

IInv ==
  TypeOK /\ Life /\ InboxOK /\ JobOK /\ WritingOK /\ ControlOK
  /\ OwnAnswer /\ EmbeddingsLive

-----------------------------------------------------------------------------
(* What the steps build their values from                                  *)

\* The values steps build are of their kinds.
LEMMA Constructed ==
  /\ NoCall \in Call
  /\ NoJob \in Job
  /\ NoWriting \in Writing
  /\ ShutdownMessage \in Message
  /\ \A c \in Call : InvokeMessage(c) \in Message /\ c.requests \in Bytes
  /\ \A s \in Scope : EndScopeMessage(s) \in Message
  /\ \A bytes \in Bytes, state \in {"success", "error"}, code \in ErrorCode :
       Completing(state, code, bytes) \in Writing
  /\ <<>> \in Bytes /\ <<ErrorText>> \in Bytes
<1>1. NoCall \in Call
  BY ConstantsAssumption DEF NoCall, Call, ScopeId
<1>2. NoJob \in Job
  BY <1>1 DEF NoJob, Job
<1>3. <<>> \in Bytes /\ <<ErrorText>> \in Bytes
  BY DEF Bytes
<1>4. NoWriting \in Writing
  BY <1>3 DEF NoWriting, Writing, ErrorCode
<1>5. ShutdownMessage \in Message /\ \A s \in Scope : EndScopeMessage(s) \in Message
  BY DEF ShutdownMessage, EndScopeMessage, Message
<1>6. \A c \in Call : InvokeMessage(c) \in Message /\ c.requests \in Bytes
  <2>. TAKE c \in Call
  <2>1. c.requests \in Seq(Request)
    BY DEF Call
  <2>2. c.requests \in Bytes
    BY <2>1, SeqMonotonic DEF Bytes
  <2> QED BY <2>2 DEF InvokeMessage, Message
<1>7. \A bytes \in Bytes, state \in {"success", "error"}, code \in ErrorCode :
       Completing(state, code, bytes) \in Writing
  BY DEF Completing, Writing
<1> QED BY <1>1, <1>2, <1>3, <1>4, <1>5, <1>6, <1>7

\* The oldest message, and the inbox without it.
LEMMA InboxHead ==
  ASSUME TypeOK, inbox # <<>>
  PROVE  /\ Head(inbox) = inbox[1] /\ Head(inbox) \in Message
         /\ Tail(inbox) \in Seq(Message)
         /\ Len(inbox) \in Nat \ {0} /\ Len(Tail(inbox)) = Len(inbox) - 1
         /\ \A i \in 1..Len(Tail(inbox)) : Tail(inbox)[i] = inbox[i + 1]
         /\ Head(inbox).kind = "invoke" => Head(inbox).call \in Call
         /\ Head(inbox).kind = "end-scope" => Head(inbox).scope \in Scope
<1>1. inbox \in Seq(Message)
  BY DEF TypeOK
<1>2. /\ Head(inbox) = inbox[1] /\ Head(inbox) \in Message
      /\ Tail(inbox) \in Seq(Message)
      /\ Len(inbox) \in Nat \ {0} /\ Len(Tail(inbox)) = Len(inbox) - 1
      /\ \A i \in 1..Len(Tail(inbox)) : Tail(inbox)[i] = inbox[i + 1]
  BY <1>1
<1>3. /\ Head(inbox).kind = "invoke" => Head(inbox).call \in Call
      /\ Head(inbox).kind = "end-scope" => Head(inbox).scope \in Scope
  BY <1>2 DEF Message
<1> QED BY <1>2, <1>3

\* The inbox after a message was posted.
LEMMA Delivered ==
  ASSUME TypeOK, NEW m \in Message, Deliver(m)
  PROVE  /\ inbox' \in Seq(Message)
         /\ worker = "exited" => inbox' = inbox
         /\ worker # "exited" =>
              /\ Len(inbox) \in Nat /\ Len(inbox') = Len(inbox) + 1
              /\ \A i \in 1..Len(inbox) : inbox'[i] = inbox[i]
              /\ inbox'[Len(inbox) + 1] = m
<1>1. inbox \in Seq(Message)
  BY DEF TypeOK
<1> QED BY <1>1 DEF Deliver

\* keepInScope keeps the embedding it is given, whatever it evicts.
LEMMA Kept ==
  ASSUME NEW S, NEW cache \in Seq(S), NEW key \in S
  PROVE  Keep(cache, key) \in Seq(S) /\ key \in Range(Keep(cache, key))
<1> DEFINE old == IF Len(cache) >= ScopeEntries THEN Tail(cache) ELSE cache
<1>1. old \in Seq(S)
  BY ConstantsAssumption
<1>2. /\ Append(old, key) \in Seq(S)
      /\ Len(Append(old, key)) \in Nat \ {0}
      /\ Append(old, key)[Len(Append(old, key))] = key
  BY <1>1
<1>3. key \in Range(Append(old, key))
  BY <1>2 DEF Range
<1> QED BY <1>2, <1>3 DEF Keep

\* The job's request is one, so its embeddings have a key.
LEMMA JobCall ==
  ASSUME TypeOK, JobOK, job.phase # "none"
  PROVE  /\ job # NoJob
         /\ job.call \in Call
         /\ job.call.requests[1] \in Request
         /\ Text[job.call.requests[1]] \in Input
<1>1. job # NoJob /\ job.call \in Call
  BY DEF JobOK, NoJob, TypeOK, Job
<1>2. job.call.requests \in Seq(Request) /\ job.call.requests # <<>>
  BY <1>1 DEF JobOK, Call
<1>3. job.call.requests[1] \in Request
  BY <1>2
<1> QED BY <1>1, <1>3, ConstantsAssumption

\* What the invariant says of the oldest message.
LEMMA InboxFirst ==
  ASSUME IInv, inbox # <<>>
  PROVE  /\ Head(inbox).kind = "invoke" =>
              /\ control.state = "pending"
              /\ control.sequence = Head(inbox).call.sequence
              /\ Head(inbox).call.requests # <<>>
              /\ job = NoJob
              /\ fault \/ (AwaitsAnswer /\ Head(inbox).call = call)
              /\ \A i \in 1..Len(inbox) : i > 1 => inbox[i].kind = "shutdown"
         /\ Head(inbox).kind = "shutdown" => closed /\ Len(inbox) = 1
<1>1. 1 \in 1..Len(inbox) /\ Head(inbox) = inbox[1]
  BY InboxHead DEF IInv
<1> QED BY <1>1 DEF IInv, InboxOK

\* The worker never turns the oldest invocation away.
LEMMA NotRefused ==
  ASSUME IInv, inbox # <<>>, Head(inbox).kind = "invoke", WorkerFree
  PROVE  Refusal(Head(inbox).call) = "none"
<1>1. /\ control.state = "pending" /\ control.sequence = Head(inbox).call.sequence
      /\ job = NoJob
  BY InboxFirst
<1>2. worker = "up"
  BY DEF WorkerFree, IInv, Life
<1> QED BY <1>1, <1>2 DEF Refusal

\* A successful read returns the answers to the call.
LEMMA ReadsAnswer ==
  ASSUME IInv, pc = "reading"
  PROVE  LET payload == SubSeq(response, 1, control.payloadLength)
             kind == ReadKind(payload)
         IN  /\ kind \in {"failed", "value", "invalid-response"}
             /\ kind = "value" => payload = call.requests
<1> DEFINE payload == SubSeq(response, 1, control.payloadLength)
           kind == ReadKind(payload)
<1>1. control.state \in {"success", "error"}
  BY DEF IInv, ControlOK
<1>2. control.state = "success" => payload = call.requests
  BY SubSeqFull DEF IInv, ControlOK, TypeOK, Call
<1> QED BY <1>1, <1>2 DEF ReadKind, IInv, ControlOK

-----------------------------------------------------------------------------
(* Types                                                                   *)

\* Every variable starts with a value of its kind.
LEMMA TypeInit == ASSUME Init PROVE TypeOK
<1>1. result \in Result /\ control \in Control
  BY Constructed, ConstantsAssumption DEF Init, Result, Control, ErrorCode
<1>2. <<>> \in Seq(Message) /\ <<>> \in Seq(Input) /\ <<>> \in Seq(Request)
  OBVIOUS
<1>3. /\ keptSentence \in [Scope -> Seq(Input)] /\ keptFunction \in [Scope -> Seq(Request)]
      /\ scopes \in [Scope -> {"new", "open", "settled"}] /\ used \subseteq Scope
      /\ inbox \in Seq(Message)
  BY <1>2 DEF Init
<1>4. /\ sequence \in 0..MaxSequence /\ call \in Call
      /\ response \in Bytes /\ job \in Job /\ writing \in Writing
  BY Constructed, ConstantsAssumption DEF Init
<1>5. /\ pc = "starting" /\ worker = "starting"
      /\ fault \in BOOLEAN /\ closed \in BOOLEAN /\ exitSeen \in BOOLEAN
  BY DEF Init
<1> QED BY <1>1, <1>3, <1>4, <1>5 DEF TypeOK

\* Every step keeps every variable's type.
LEMMA TypeStep == ASSUME IInv, [Next]_vars PROVE TypeOK'
<1> USE Constructed
<1>a. TypeOK /\ JobOK
  BY DEF IInv
<1>b. <<>> \in Seq(Message) /\ <<>> \in Seq(Input) /\ <<>> \in Seq(Request)
  OBVIOUS
<1>1. CASE Initialized \/ InitializationFails
  BY <1>a, <1>1 DEF Initialized, InitializationFails, TypeOK, scopeVars, sharedVars
<1>2. ASSUME NEW requests \in Seq(Request), NEW s \in ScopeId, Prepare(requests, s)
      PROVE  TypeOK'
  <2>1. NextSequence \in 0..MaxSequence
    BY <1>a, ConstantsAssumption DEF NextSequence, TypeOK
  <2>2. call' \in Call /\ control' \in Control
    BY <1>2, <2>1 DEF Prepare, Call, Control, ErrorCode
  <2> QED BY <1>a, <1>2, <2>1, <2>2 DEF Prepare, TypeOK, scopeVars, workerVars
<1>3. CASE BeginCall
  <2>1. \A r \in Request : <<r>> \in Seq(Request)
    OBVIOUS
  <2> QED BY <1>2, <1>3, <2>1 DEF BeginCall, ScopeId
<1>4. CASE BeginStage
  <2>1. \A n \in 1..MaxStage : [1..n -> Request] \subseteq Seq(Request)
    OBVIOUS
  <2> QED BY <1>2, <1>4, <2>1 DEF BeginStage, ScopeId
<1>5. CASE Refuse \/ RejectInput
  <2>1. result' \in Result
    <3>1. \E kind \in {"refused", "invalid-input"} :
            result' = [kind |-> kind, asked |-> <<>>, value |-> <<>>]
      BY <1>5 DEF Refuse, RejectInput
    <3> QED BY <1>b, <3>1 DEF Result
  <2> QED
    BY <1>a, <1>5, <2>1
    DEF Refuse, RejectInput, TypeOK, scopeVars, sharedVars, workerVars
<1>6. CASE Post
  <2>1. inbox' \in Seq(Message)
    BY <1>a, <1>6, Delivered DEF Post, TypeOK
  <2> QED BY <1>a, <1>6, <2>1 DEF Post, TypeOK, scopeVars, sharedVars, workerVars
<1>7. ASSUME NEW kind \in {"timeout", "worker-failed", "invalid-response"},
             Return(kind, <<>>)
      PROVE  result' \in Result /\ call' \in Call /\ pc' = "ready"
  BY <1>a, <1>7 DEF Return, Result, TypeOK, Call
<1>8. CASE PostFails \/ TimeOut
  BY <1>a, <1>7, <1>8 DEF PostFails, TimeOut, TypeOK, scopeVars, sharedVars, workerVars
<1>9. CASE EnterWait
  BY <1>a, <1>9 DEF EnterWait, TypeOK, scopeVars, sharedVars, workerVars
<1>10. CASE Observe
  BY <1>a, <1>7, <1>10 DEF Observe, TypeOK, scopeVars, sharedVars, workerVars
<1>11. CASE Read
  <2> DEFINE payload == SubSeq(response, 1, control.payloadLength)
             kind == ReadKind(payload)
  <2>1. /\ kind \in {"failed", "value", "invalid-response"}
        /\ (IF kind = "value" THEN payload ELSE <<>>) \in Bytes
    BY <1>a, <1>11, ReadsAnswer DEF Read, TypeOK
  <2>2. Return(kind, IF kind = "value" THEN payload ELSE <<>>)
    BY <1>11 DEF Read
  <2>3. result' \in Result
    BY <1>a, <2>1, <2>2 DEF Return, Result, TypeOK, Call
  <2>4. call' \in Call /\ pc' = "ready"
    BY <2>2 DEF Return
  <2>5. used' \subseteq Scope /\ control' \in Control
    BY <1>a, <1>11 DEF Read, TypeOK, Call, ScopeId, Control
  <2> QED BY <1>a, <1>11, <2>3, <2>4, <2>5 DEF Read, TypeOK, workerVars
<1>12. ASSUME NEW s \in Scope, OpenScope(s) PROVE TypeOK'
  BY <1>a, <1>12 DEF OpenScope, TypeOK, mainVars, sharedVars, workerVars
<1>13. ASSUME NEW s \in Scope, SettleScope(s) PROVE TypeOK'
  <2>1. inbox' \in Seq(Message)
    BY <1>a, <1>13, Delivered DEF SettleScope, EndScope, TypeOK
  <2> QED BY <1>a, <1>13, <2>1 DEF SettleScope, TypeOK, mainVars, sharedVars, workerVars
<1>14. CASE Close
  <2>1. inbox' \in Seq(Message)
    BY <1>a, <1>14, Delivered DEF Close, TypeOK
  <2> QED BY <1>a, <1>14, <2>1 DEF Close, TypeOK, scopeVars, sharedVars, workerVars
<1>15. CASE Terminate \/ WorkerExits
  <2>1. StopWorker /\ UNCHANGED <<mainVars, scopeVars, sharedVars>>
    BY <1>15 DEF Terminate, WorkerExits
  <2> QED BY <1>a, <1>b, <2>1 DEF StopWorker, TypeOK, mainVars, scopeVars, sharedVars
<1>16. CASE NoticeExit
  BY <1>a, <1>16 DEF NoticeExit, TypeOK, scopeVars, sharedVars, workerVars
<1>17. CASE TakeInvoke
  <2>1. inbox' \in Seq(Message) /\ Head(inbox).call \in Call
    BY <1>a, <1>17, InboxHead DEF TakeInvoke
  <2>2. job' \in Job
    BY <1>a, <1>17, <2>1 DEF TakeInvoke, AfterEncoder, Job, TypeOK
  <2>3. writing' \in Writing
    BY <1>a, <1>17, NotRefused DEF TakeInvoke, TypeOK
  <2> QED
    BY <1>a, <1>17, <2>1, <2>2, <2>3
    DEF TakeInvoke, TypeOK, mainVars, scopeVars, sharedVars
<1>18. CASE Encoded
  <2>1. job' \in Job
    BY <1>a, <1>18 DEF Encoded, AfterEncoder, Job, TypeOK
  <2>2. keptSentence' \in [Scope -> Seq(Input)]
    BY <1>a, <1>18, JobCall, Kept DEF Encoded, TypeOK, Call, ScopeId
  <2> QED BY <1>a, <1>18, <2>1, <2>2 DEF Encoded, TypeOK, mainVars, scopeVars, sharedVars
<1>19. CASE Adapted
  <2>1. job' \in Job
    BY <1>a, <1>19 DEF Adapted, Job, TypeOK
  <2>2. keptFunction' \in [Scope -> Seq(Request)]
    BY <1>a, <1>19, JobCall, Kept DEF Adapted, TypeOK, Call, ScopeId
  <2> QED BY <1>a, <1>19, <2>1, <2>2 DEF Adapted, TypeOK, mainVars, scopeVars, sharedVars
<1>20. CASE Evaluated \/ InvocationFails
  <2>1. writing' \in Writing
    BY <1>a, <1>20 DEF Evaluated, InvocationFails, TypeOK, Job, ErrorCode
  <2> QED
    BY <1>a, <1>20, <2>1
    DEF Evaluated, InvocationFails, TypeOK, mainVars, scopeVars, sharedVars
<1>21. CASE WriteBytes
  BY <1>a, <1>21 DEF WriteBytes, TypeOK, Writing, mainVars, scopeVars
<1>22. CASE WritePayload
  <2>1. Len(writing.bytes) \in Nat
    BY <1>a DEF TypeOK, Writing, Bytes
  <2> QED BY <1>a, <1>22, <2>1 DEF WritePayload, TypeOK, Writing, Control, mainVars, scopeVars
<1>23. CASE WriteState
  <2>1. writing' \in Writing
    BY <1>a, <1>23 DEF WriteState, TypeOK, Writing
  <2>2. control' \in Control
    BY <1>a, <1>23 DEF WriteState, TypeOK, Writing, Control
  <2> QED BY <1>a, <1>23, <2>1, <2>2 DEF WriteState, TypeOK, mainVars, scopeVars
<1>24. CASE Notify
  BY <1>a, <1>24 DEF Notify, TypeOK, scopeVars, sharedVars
<1>25. CASE TakeEndScope \/ TakeShutdown
  <2>1. inbox' \in Seq(Message)
    BY <1>a, <1>25, InboxHead DEF TakeEndScope, TakeShutdown
  <2>2. keptSentence' \in [Scope -> Seq(Input)] /\ keptFunction' \in [Scope -> Seq(Request)]
    BY <1>a, <1>b, <1>25 DEF TakeEndScope, TakeShutdown, TypeOK
  <2> QED
    BY <1>a, <1>25, <2>1, <2>2
    DEF TakeEndScope, TakeShutdown, TypeOK, mainVars, scopeVars, sharedVars
<1>26. CASE UNCHANGED vars
  BY <1>a, <1>26 DEF vars, mainVars, scopeVars, sharedVars, workerVars, TypeOK
<1> QED
  BY <1>1, <1>3, <1>4, <1>5, <1>6, <1>8, <1>9, <1>10, <1>11, <1>12, <1>13, <1>14, <1>15,
     <1>16, <1>17, <1>18, <1>19, <1>20, <1>21, <1>22, <1>23, <1>24, <1>25, <1>26
  DEF Next, CallStep, WorkerStep, Completion

-----------------------------------------------------------------------------
(* The lives of the two threads                                            *)

\* The two threads start, fail and end together.
LEMMA LifeStep == ASSUME IInv, [Next]_vars PROVE Life'
<1>a. TypeOK /\ Life
  BY DEF IInv
<1> USE DEF Life
<1>1. CASE Initialized \/ InitializationFails
  BY <1>a, <1>1 DEF Initialized, InitializationFails
<1>2. CASE BeginCall \/ BeginStage
  BY <1>a, <1>2 DEF BeginCall, BeginStage, Prepare, Usable, workerVars
<1>3. CASE Refuse \/ RejectInput
  BY <1>a, <1>3 DEF Refuse, RejectInput, workerVars
<1>4. CASE Post
  BY <1>a, <1>4 DEF Post, Deliver, workerVars
<1>5. CASE PostFails \/ EnterWait \/ TimeOut
  BY <1>a, <1>5 DEF PostFails, EnterWait, TimeOut, Return, workerVars
<1>6. CASE Observe \/ Read
  BY <1>a, <1>6 DEF Observe, Read, Return, workerVars
<1>7. ASSUME NEW s \in Scope, OpenScope(s) \/ SettleScope(s) PROVE Life'
  BY <1>a, <1>7
  DEF OpenScope, SettleScope, EndScope, Deliver, mainVars, workerVars
<1>8. CASE Close
  BY <1>a, <1>8 DEF Close, Deliver, workerVars
<1>9. CASE Terminate \/ NoticeExit \/ WorkerExits
  BY <1>a, <1>9 DEF Terminate, NoticeExit, WorkerExits, StopWorker, mainVars, workerVars
<1>10. CASE TakeInvoke
  BY <1>a, <1>10 DEF TakeInvoke, WorkerFree, mainVars
<1>11. CASE Encoded \/ Adapted \/ Evaluated \/ InvocationFails
  BY <1>a, <1>11 DEF Encoded, Adapted, Evaluated, InvocationFails, WorkerFree, mainVars
<1>12. CASE Completion
  BY <1>a, <1>12
  DEF Completion, WriteBytes, WritePayload, WriteState, Notify, NoWriting, mainVars
<1>13. CASE TakeEndScope
  BY <1>a, <1>13 DEF TakeEndScope, WorkerFree, mainVars
<1>14. CASE TakeShutdown
  <2>1. closed /\ Len(inbox) = 1
    BY <1>14, InboxFirst DEF TakeShutdown
  <2>2. inbox' = <<>>
    BY <1>a, <1>14, <2>1 DEF TakeShutdown, TypeOK
  <2> QED BY <1>a, <1>14, <2>1, <2>2 DEF TakeShutdown, WorkerFree, mainVars
<1>15. CASE UNCHANGED vars
  BY <1>a, <1>15 DEF vars, mainVars, workerVars
<1> QED
  BY <1>1, <1>2, <1>3, <1>4, <1>5, <1>6, <1>7, <1>8, <1>9, <1>10, <1>11, <1>12, <1>13,
     <1>14, <1>15
  DEF Next, CallStep, WorkerStep

-----------------------------------------------------------------------------
(* The invocation under way                                                *)

\* A usable runtime between calls has no invocation under way.
LEMMA Quiet ==
  ASSUME IInv, ~fault, ~AwaitsAnswer
  PROVE  /\ job = NoJob
         /\ ~Storing
         /\ \A i \in 1..Len(inbox) : inbox[i].kind # "invoke"
BY DEF IInv, InboxOK, JobOK, WritingOK

\* The worker starts a job only for the pending invocation, and the main thread
\* leaves a call only with its answer or with a fault.
LEMMA JobStep == ASSUME IInv, [Next]_vars PROVE JobOK'
<1>a. TypeOK /\ JobOK /\ Life /\ ControlOK
  BY DEF IInv
<1> USE DEF JobOK, AwaitsAnswer
<1>1. CASE Initialized \/ InitializationFails
  BY <1>a, <1>1 DEF Initialized, InitializationFails, Life, sharedVars
<1>2. CASE BeginCall \/ BeginStage \/ Refuse \/ RejectInput
  BY <1>a, <1>2, Quiet
  DEF BeginCall, BeginStage, Prepare, Usable, Refuse, RejectInput, sharedVars, workerVars
<1>3. CASE Post \/ PostFails \/ EnterWait \/ TimeOut
  BY <1>a, <1>3 DEF Post, PostFails, EnterWait, TimeOut, Return, sharedVars, workerVars
<1>4. CASE Observe \/ Read
  BY <1>a, <1>4 DEF Observe, Answered, Read, Return, Life, ControlOK, sharedVars, workerVars
<1>5. ASSUME NEW s \in Scope, OpenScope(s) \/ SettleScope(s) PROVE JobOK'
  BY <1>a, <1>5 DEF OpenScope, SettleScope, mainVars, sharedVars, workerVars
<1>6. CASE Close \/ Terminate \/ NoticeExit \/ WorkerExits
  BY <1>a, <1>6
  DEF Close, Terminate, NoticeExit, WorkerExits, StopWorker, Life, NoJob, mainVars, sharedVars, workerVars
<1>7. CASE TakeInvoke
  <2>1. writing' = writing /\ writing.step = "none" /\ job'.phase # "none" /\ job' # NoJob
        /\ job'.call = Head(inbox).call
    BY <1>7, NotRefused DEF TakeInvoke, WorkerFree, AfterEncoder, NoJob
  <2>2. /\ control.state = "pending"
        /\ Head(inbox).call.requests # <<>>
        /\ fault \/ (AwaitsAnswer /\ Head(inbox).call = call)
    BY <1>7, InboxFirst DEF TakeInvoke, AwaitsAnswer
  <2> QED BY <1>7, <2>1, <2>2 DEF TakeInvoke, mainVars, sharedVars
<1>8. CASE Encoded \/ Adapted
  BY <1>a, <1>8 DEF Encoded, Adapted, AfterEncoder, NoJob, TypeOK, Job, mainVars, sharedVars
<1>9. CASE Evaluated \/ InvocationFails
  BY <1>a, <1>9 DEF Evaluated, InvocationFails, NoJob, mainVars, sharedVars
<1>10. CASE Completion
  <2>1. job = NoJob
    BY <1>a, <1>10 DEF Completion, WriteBytes, WritePayload, WriteState, Notify
  <2> QED
    BY <1>a, <1>10, <2>1 DEF Completion, WriteBytes, WritePayload, WriteState, Notify, NoJob
<1>11. CASE TakeEndScope \/ TakeShutdown
  BY <1>a, <1>11 DEF TakeEndScope, TakeShutdown, mainVars, sharedVars
<1>12. CASE UNCHANGED vars
  BY <1>a, <1>12 DEF vars, mainVars, sharedVars, workerVars
<1> QED
  BY <1>1, <1>2, <1>3, <1>4, <1>5, <1>6, <1>7, <1>8, <1>9, <1>10, <1>11, <1>12
  DEF Next, CallStep, WorkerStep

\* A second invocation is posted only when the first has been answered.
LEMMA InboxStep == ASSUME IInv, [Next]_vars PROVE InboxOK'
<1>a. TypeOK /\ InboxOK /\ Life /\ ControlOK /\ JobOK /\ WritingOK
  BY DEF IInv
<1> USE DEF AwaitsAnswer, Storing
<1>1. CASE Initialized \/ InitializationFails
  BY <1>a, <1>1 DEF Initialized, InitializationFails, Life, InboxOK
<1>2. CASE BeginCall \/ BeginStage
  <2>1. /\ \A i \in 1..Len(inbox) : inbox[i].kind # "invoke"
        /\ UNCHANGED <<inbox, job, closed>>
    BY <1>2, Quiet DEF BeginCall, BeginStage, Prepare, Usable, workerVars
  <2> QED BY <1>a, <2>1 DEF InboxOK
<1>3. CASE Refuse \/ RejectInput \/ PostFails \/ EnterWait \/ TimeOut
  BY <1>a, <1>3
  DEF Refuse, RejectInput, PostFails, EnterWait, TimeOut, Return, InboxOK, sharedVars, workerVars
<1>4. CASE Post
  <2>1. \A i \in 1..Len(inbox) : inbox[i].kind = "end-scope"
    BY <1>a, <1>4, Quiet DEF Post, Life, InboxOK, TypeOK, Message
  <2>2. /\ job = NoJob /\ ~Storing /\ control.state = "pending"
        /\ control.sequence = call.sequence /\ call.requests # <<>>
    BY <1>a, <1>4, Quiet DEF Post, Life, ControlOK, InCall
  <2>3. InvokeMessage(call) \in Message
    BY <1>a, Constructed DEF TypeOK
  <2>4. UNCHANGED <<call, fault, closed, control, job, writing>> /\ pc' = "entering"
    BY <1>4 DEF Post, sharedVars, workerVars
  <2>5. InvokeMessage(call).kind = "invoke" /\ InvokeMessage(call).call = call
    BY DEF InvokeMessage
  <2>6. CASE worker = "exited"
    BY <1>a, <1>4, <2>6 DEF Post, Deliver, Life, InboxOK
  <2>7. CASE worker # "exited"
    <3>1. /\ Len(inbox) \in Nat /\ Len(inbox') = Len(inbox) + 1
          /\ \A i \in 1..Len(inbox) : inbox'[i] = inbox[i]
          /\ inbox'[Len(inbox) + 1] = InvokeMessage(call)
      BY <1>a, <1>4, <2>3, <2>7, Delivered DEF Post
    <3>2. \A i \in 1..Len(inbox') :
            \/ i < Len(inbox') /\ inbox'[i].kind = "end-scope"
            \/ i = Len(inbox') /\ inbox'[i] = InvokeMessage(call)
      BY <2>1, <3>1
    <3> QED BY <2>2, <2>4, <2>5, <3>1, <3>2 DEF InboxOK
  <2> QED BY <2>6, <2>7
<1>5. CASE Observe
  BY <1>a, <1>5 DEF Observe, Answered, Return, InboxOK, sharedVars, workerVars
<1>6. CASE Read
  <2>1. /\ \A i \in 1..Len(inbox) : inbox[i].kind # "invoke"
        /\ UNCHANGED <<inbox, job, closed>>
    BY <1>a, <1>6, Quiet DEF Read, Return, Life, workerVars
  <2> QED BY <1>a, <2>1 DEF InboxOK
<1>7. ASSUME NEW s \in Scope, OpenScope(s) PROVE InboxOK'
  BY <1>a, <1>7 DEF OpenScope, InboxOK, mainVars, sharedVars, workerVars
<1>8. ASSUME NEW m \in Message, m.kind # "invoke", Deliver(m), ~closed,
             pc = "ready",
             m.kind = "end-scope" => ~fault /\ closed' = closed,
             m.kind = "shutdown" => closed',
             UNCHANGED <<pc, call, fault, control, job, writing>>
      PROVE  InboxOK'
  <2>1. \A i \in 1..Len(inbox) : inbox[i].kind # "shutdown"
    BY <1>a, <1>8 DEF InboxOK
  <2>2. CASE worker = "exited"
    BY <1>a, <1>8, <2>2 DEF Deliver, Life, InboxOK
  <2>3. CASE worker # "exited"
    <3>1. /\ Len(inbox) \in Nat /\ Len(inbox') = Len(inbox) + 1
          /\ \A i \in 1..Len(inbox) : inbox'[i] = inbox[i]
          /\ inbox'[Len(inbox) + 1] = m
      BY <1>a, <1>8, <2>3, Delivered
    <3>2. m.kind = "shutdown" \/ (m.kind = "end-scope" /\ job = NoJob
            /\ \A i \in 1..Len(inbox) : inbox[i].kind # "invoke")
      BY <1>8, Quiet DEF Message
    <3>3. \A i \in 1..Len(inbox') :
            \/ i \in 1..Len(inbox) /\ inbox'[i] = inbox[i]
            \/ i = Len(inbox') /\ inbox'[i] = m
      BY <3>1
    <3> QED BY <1>a, <1>8, <2>1, <3>1, <3>2, <3>3 DEF InboxOK
  <2> QED BY <2>2, <2>3
<1>9. ASSUME NEW s \in Scope, SettleScope(s) PROVE InboxOK'
  <2>1. UNCHANGED <<pc, call, fault, closed, control, job, writing>>
    BY <1>9 DEF SettleScope, mainVars, sharedVars, workerVars
  <2>2. CASE inbox' = inbox
    BY <1>a, <2>1, <2>2 DEF InboxOK
  <2>3. CASE inbox' # inbox
    <3>1. ~closed /\ ~fault /\ pc = "ready" /\ Deliver(EndScopeMessage(s))
      BY <1>9, <2>3 DEF SettleScope, EndScope
    <3>2. EndScopeMessage(s) \in Message /\ EndScopeMessage(s).kind = "end-scope"
      BY Constructed DEF EndScopeMessage
    <3> QED BY <1>8, <2>1, <3>1, <3>2
  <2> QED BY <2>2, <2>3
<1>10. CASE Close
  <2>1. ShutdownMessage \in Message /\ ShutdownMessage.kind = "shutdown"
    BY Constructed DEF ShutdownMessage
  <2> QED BY <1>8, <1>10, <2>1 DEF Close, sharedVars, workerVars
<1>11. CASE Terminate \/ NoticeExit \/ WorkerExits
  BY <1>a, <1>11
  DEF Terminate, NoticeExit, WorkerExits, StopWorker, Life, InboxOK, mainVars, sharedVars, workerVars
<1>12. ASSUME inbox # <<>>, inbox' = Tail(inbox)
       PROVE  /\ Len(inbox') \in Nat /\ Len(inbox') = Len(inbox) - 1
              /\ \A i \in 1..Len(inbox') :
                   i + 1 \in 1..Len(inbox) /\ inbox'[i] = inbox[i + 1]
  BY <1>a, <1>12, InboxHead
<1>13. CASE TakeInvoke
  <2>1. \A i \in 1..Len(inbox') : inbox'[i].kind = "shutdown" /\ i = Len(inbox') /\ closed
    <3>1. \A i \in 1..Len(inbox) : i > 1 => inbox[i].kind = "shutdown"
      BY <1>13, InboxFirst DEF TakeInvoke
    <3>2. \A i \in 1..Len(inbox) : i > 1 => closed /\ i = Len(inbox)
      BY <1>a, <3>1 DEF InboxOK
    <3> QED BY <1>12, <1>13, <3>1, <3>2 DEF TakeInvoke
  <2>2. closed' = closed
    BY <1>13 DEF TakeInvoke, mainVars
  <2> QED BY <2>1, <2>2 DEF InboxOK
<1>14. CASE Encoded \/ Adapted \/ Evaluated \/ InvocationFails
  <2>1. job # NoJob /\ UNCHANGED <<inbox, closed>>
    BY <1>14 DEF Encoded, Adapted, Evaluated, InvocationFails, NoJob, mainVars
  <2> QED BY <1>a, <2>1 DEF InboxOK
<1>15. CASE WriteBytes \/ WritePayload \/ WriteState
  <2>1. Storing /\ UNCHANGED <<inbox, closed, job>>
    BY <1>15 DEF WriteBytes, WritePayload, WriteState, mainVars
  <2> QED BY <1>a, <2>1 DEF InboxOK
<1>16. CASE Notify
  <2>1. /\ UNCHANGED <<call, fault, closed, control, inbox, job>>
        /\ AwaitsAnswer => AwaitsAnswer'
        /\ ~Storing'
    BY <1>16 DEF Notify, NoWriting, sharedVars
  <2> QED BY <1>a, <2>1 DEF InboxOK
<1>17. CASE TakeEndScope
  <2>1. UNCHANGED <<pc, call, fault, closed, control, job, writing>>
    BY <1>17 DEF TakeEndScope, mainVars, sharedVars
  <2>2. inbox # <<>> /\ inbox' = Tail(inbox)
    BY <1>17 DEF TakeEndScope
  <2> QED BY <1>a, <1>12, <2>1, <2>2 DEF InboxOK
<1>18. CASE TakeShutdown
  <2>1. Len(inbox) = 1
    BY <1>18, InboxFirst DEF TakeShutdown
  <2>2. Len(inbox') = 0
    BY <1>12, <1>18, <2>1 DEF TakeShutdown
  <2> QED BY <2>2 DEF InboxOK
<1>19. CASE UNCHANGED vars
  BY <1>a, <1>19 DEF vars, mainVars, sharedVars, workerVars, InboxOK
<1> QED
  BY <1>1, <1>2, <1>3, <1>4, <1>5, <1>6, <1>7, <1>9, <1>10, <1>11, <1>13, <1>14, <1>15,
     <1>16, <1>17, <1>18, <1>19
  DEF Next, CallStep, WorkerStep, Completion

\* completeBytes stores the bytes before their length, and the state last.
LEMMA WritingStep == ASSUME IInv, [Next]_vars PROVE WritingOK'
<1>a. TypeOK /\ WritingOK /\ Life /\ ControlOK /\ JobOK
  BY DEF IInv
<1> USE DEF AwaitsAnswer, Storing, WritingOK
<1>1. CASE Initialized \/ InitializationFails
  BY <1>a, <1>1 DEF Initialized, InitializationFails, Life, sharedVars
<1>2. CASE BeginCall \/ BeginStage
  BY <1>a, <1>2, Quiet DEF BeginCall, BeginStage, Prepare, Usable, workerVars
<1>3. CASE Refuse \/ RejectInput
  BY <1>a, <1>3 DEF Refuse, RejectInput, sharedVars, workerVars
<1>4. CASE Post \/ PostFails \/ EnterWait \/ TimeOut
  BY <1>a, <1>4 DEF Post, PostFails, EnterWait, TimeOut, Return, sharedVars, workerVars
<1>5. CASE Observe
  BY <1>a, <1>5 DEF Observe, Answered, Return, sharedVars, workerVars
<1>6. CASE Read
  BY <1>a, <1>6, Quiet DEF Read, Life, workerVars
<1>7. ASSUME NEW s \in Scope, OpenScope(s) \/ SettleScope(s) PROVE WritingOK'
  BY <1>a, <1>7 DEF OpenScope, SettleScope, mainVars, sharedVars, workerVars
<1>8. CASE Close \/ NoticeExit
  BY <1>a, <1>8 DEF Close, NoticeExit, sharedVars, workerVars
<1>9. CASE Terminate \/ WorkerExits
  BY <1>a, <1>9 DEF Terminate, WorkerExits, StopWorker, NoWriting
<1>10. CASE TakeInvoke
  <2>1. UNCHANGED <<writing, mainVars, sharedVars>>
    BY <1>10, NotRefused DEF TakeInvoke
  <2> QED BY <1>a, <2>1 DEF mainVars, sharedVars
<1>11. CASE Encoded \/ Adapted \/ TakeEndScope \/ TakeShutdown
  BY <1>a, <1>11 DEF Encoded, Adapted, TakeEndScope, TakeShutdown, mainVars, sharedVars
<1>12. CASE Evaluated \/ InvocationFails
  <2>1. /\ control.state = "pending"
        /\ fault \/ (AwaitsAnswer /\ job.call = call)
    BY <1>a, <1>12 DEF Evaluated, InvocationFails, JobOK, NoJob
  <2> QED
    BY <1>a, <1>12, <2>1 DEF Evaluated, InvocationFails, Completing, mainVars, sharedVars
<1>13. CASE WriteBytes
  BY <1>a, <1>13 DEF WriteBytes, TypeOK, Writing, mainVars
<1>14. CASE WritePayload
  BY <1>a, <1>14 DEF WritePayload, TypeOK, Writing, Control, mainVars
<1>15. CASE WriteState
  BY <1>a, <1>15 DEF WriteState, TypeOK, Writing, mainVars
<1>16. CASE Notify
  BY <1>a, <1>16 DEF Notify, NoWriting, sharedVars
<1>17. CASE UNCHANGED vars
  BY <1>a, <1>17 DEF vars, mainVars, sharedVars, workerVars
<1> QED
  BY <1>1, <1>2, <1>3, <1>4, <1>5, <1>6, <1>7, <1>8, <1>9, <1>10, <1>11, <1>12, <1>13,
     <1>14, <1>15, <1>16, <1>17
  DEF Next, CallStep, WorkerStep, Completion

-----------------------------------------------------------------------------
(* What the call in progress sees                                          *)

\* While a call waits, nobody but its own invocation touches the control block.
LEMMA ControlStep == ASSUME IInv, [Next]_vars PROVE ControlOK'
<1>a. TypeOK /\ WritingOK /\ Life /\ ControlOK
  BY DEF IInv
<1> USE DEF AwaitsAnswer, InCall, ControlOK
<1>1. CASE Initialized \/ InitializationFails
  BY <1>a, <1>1 DEF Initialized, InitializationFails
<1>2. ASSUME NEW requests, NEW s, requests # <<>>, Prepare(requests, s)
      PROVE  ControlOK'
  BY <1>2 DEF Prepare
<1>3. CASE BeginCall
  BY <1>2, <1>3 DEF BeginCall
<1>4. CASE BeginStage
  <2>1. \A n \in 1..MaxStage : \A requests \in [1..n -> Request] : requests # <<>>
    BY ConstantsAssumption
  <2> QED BY <1>2, <1>4, <2>1 DEF BeginStage
<1>5. CASE Refuse \/ RejectInput
  BY <1>a, <1>5 DEF Refuse, RejectInput, sharedVars
<1>6. CASE Post \/ PostFails \/ EnterWait \/ TimeOut
  BY <1>a, <1>6 DEF Post, PostFails, EnterWait, TimeOut, Return, sharedVars
<1>7. CASE Observe \/ Read
  BY <1>a, <1>7 DEF Observe, Answered, Read, Return, sharedVars
<1>8. ASSUME NEW s \in Scope, OpenScope(s) \/ SettleScope(s) PROVE ControlOK'
  BY <1>a, <1>8 DEF OpenScope, SettleScope, mainVars, sharedVars
<1>9. CASE Close \/ Terminate \/ NoticeExit \/ WorkerExits
  BY <1>a, <1>9 DEF Close, Terminate, NoticeExit, WorkerExits, mainVars, sharedVars
<1>10. CASE \/ TakeInvoke \/ TakeEndScope \/ TakeShutdown
            \/ Encoded \/ Adapted \/ Evaluated \/ InvocationFails
  <2>1. UNCHANGED <<mainVars, sharedVars>>
    BY <1>10
    DEF TakeInvoke, TakeEndScope, TakeShutdown, Encoded, Adapted, Evaluated, InvocationFails
  <2> QED BY <1>a, <2>1 DEF mainVars, sharedVars
<1>11. CASE WriteBytes
  <2>1. control.state = "pending" /\ pc # "reading"
    BY <1>a, <1>11 DEF WriteBytes, WritingOK, Storing
  <2> QED BY <1>a, <1>11, <2>1 DEF WriteBytes, mainVars
<1>12. CASE WritePayload
  <2>1. control.state = "pending" /\ pc # "reading"
    BY <1>a, <1>12 DEF WritePayload, WritingOK, Storing
  <2> QED BY <1>a, <1>12, <2>1 DEF WritePayload, TypeOK, Control, mainVars
<1>13. CASE WriteState
  <2>1. /\ writing.state \in {"success", "error"}
        /\ writing.state = "error" => control.errorCode = "failed"
        /\ response = writing.bytes /\ control.payloadLength = Len(writing.bytes)
        /\ fault \/ (AwaitsAnswer /\ (writing.state = "success" =>
                                        writing.bytes = call.requests))
    BY <1>a, <1>13 DEF WriteState, WritingOK, Storing
  <2>2. /\ control' = [control EXCEPT !.state = writing.state]
        /\ UNCHANGED <<mainVars, response>>
    BY <1>13 DEF WriteState
  <2> QED BY <1>a, <2>1, <2>2 DEF TypeOK, Control, Life, mainVars
<1>14. CASE Notify
  BY <1>a, <1>14 DEF Notify, sharedVars
<1>15. CASE UNCHANGED vars
  BY <1>a, <1>15 DEF vars, mainVars, sharedVars
<1> QED
  BY <1>1, <1>3, <1>4, <1>5, <1>6, <1>7, <1>8, <1>9, <1>10, <1>11, <1>12, <1>13, <1>14,
     <1>15
  DEF Next, CallStep, WorkerStep, Completion

\* The bytes a call reads are those its own invocation stored.
LEMMA AnswerStep == ASSUME IInv, [Next]_vars PROVE OwnAnswer'
<1>a. OwnAnswer
  BY DEF IInv
<1> USE DEF OwnAnswer
<1>1. CASE result' = result
  BY <1>a, <1>1
<1>2. CASE Refuse \/ RejectInput
  BY <1>2 DEF Refuse, RejectInput
<1>3. CASE PostFails \/ TimeOut \/ Observe
  BY <1>a, <1>3 DEF PostFails, TimeOut, Observe, Return
<1>4. CASE Read
  BY <1>4, ReadsAnswer DEF Read, Return
<1>5. Refuse \/ RejectInput \/ PostFails \/ TimeOut \/ Observe \/ Read \/ result' = result
  BY DEF Next, CallStep, WorkerStep, Completion, vars, mainVars, Initialized,
         InitializationFails, BeginCall, BeginStage, Prepare, Post, EnterWait, OpenScope,
         SettleScope, Close, Terminate, NoticeExit, WorkerExits, TakeInvoke, Encoded,
         Adapted, Evaluated, InvocationFails, WriteBytes, WritePayload, WriteState, Notify,
         TakeEndScope, TakeShutdown
<1> QED BY <1>1, <1>2, <1>3, <1>4, <1>5

-----------------------------------------------------------------------------
(* The embeddings of a scope                                               *)

\* Embeddings are dropped only between invocations, and evicted only for others.
LEMMA EmbeddingsStep == ASSUME IInv, [Next]_vars PROVE EmbeddingsLive'
<1>a. TypeOK /\ JobOK /\ Life /\ EmbeddingsLive
  BY DEF IInv
<1>1. CASE job' = NoJob
  BY <1>1 DEF EmbeddingsLive, NoJob
<1>2. CASE TakeInvoke
  BY <1>2, NotRefused
  DEF TakeInvoke, AfterEncoder, EmbeddingsLive, SentenceKept, FunctionKept
<1>3. ASSUME job.phase # "none", job.call.scope # NoScope
      PROVE  job.call.scope \in Scope
  BY <1>a, <1>3, JobCall DEF Call, ScopeId
<1>4. CASE Encoded
  <2>1. job.call.scope # NoScope =>
          Text[job.call.requests[1]] \in Range(keptSentence'[job.call.scope])
    BY <1>a, <1>3, <1>4, JobCall, Kept DEF Encoded, TypeOK
  <2> QED
    BY <1>a, <1>4, <2>1
    DEF Encoded, AfterEncoder, EmbeddingsLive, SentenceKept, FunctionKept, TypeOK, Job
<1>5. CASE Adapted
  <2>1. job.call.scope # NoScope =>
          job.call.requests[1] \in Range(keptFunction'[job.call.scope])
    BY <1>a, <1>3, <1>5, JobCall, Kept DEF Adapted, TypeOK
  <2> QED BY <1>a, <1>5, <2>1 DEF Adapted, EmbeddingsLive, FunctionKept, TypeOK, Job
<1>6. CASE TakeEndScope
  <2>1. 1 \in 1..Len(inbox) /\ Head(inbox) = inbox[1]
    BY <1>a, <1>6, InboxHead DEF TakeEndScope
  <2>2. job' = NoJob
    BY <1>6, <2>1 DEF TakeEndScope, IInv, InboxOK
  <2> QED BY <1>1, <2>2
<1>7. CASE TakeShutdown
  BY <1>7 DEF TakeShutdown, EmbeddingsLive
<1>8. CASE UNCHANGED <<worker, job, keptSentence, keptFunction>>
  BY <1>a, <1>8 DEF EmbeddingsLive, SentenceKept, FunctionKept
<1>9. \/ TakeInvoke \/ Encoded \/ Adapted \/ TakeEndScope \/ TakeShutdown \/ job' = NoJob
      \/ UNCHANGED <<worker, job, keptSentence, keptFunction>>
  BY <1>a
  DEF Life, Next, CallStep, WorkerStep, Completion, vars, workerVars, Initialized,
      InitializationFails, BeginCall, BeginStage, Prepare, Refuse, RejectInput, Post,
      PostFails, EnterWait, TimeOut, Observe, Read, OpenScope, SettleScope, Close,
      Terminate, NoticeExit, WorkerExits, StopWorker, Evaluated, InvocationFails,
      WriteBytes, WritePayload, WriteState, Notify
<1> QED BY <1>1, <1>2, <1>4, <1>5, <1>6, <1>7, <1>8, <1>9

-----------------------------------------------------------------------------
(* The theorems                                                            *)

\* The inductive invariant holds before the worker has started.
LEMMA InitInvariant == ASSUME Init PROVE IInv
<1>1. TypeOK
  BY TypeInit
<1>2. Life /\ InboxOK
  BY DEF Init, Life, InboxOK, NoJob, NoWriting
<1>3. JobOK /\ WritingOK
  BY DEF Init, JobOK, WritingOK, Storing, NoJob, NoWriting
<1>4. ControlOK /\ OwnAnswer /\ EmbeddingsLive
  BY DEF Init, ControlOK, InCall, AwaitsAnswer, OwnAnswer, EmbeddingsLive
<1> QED BY <1>1, <1>2, <1>3, <1>4 DEF IInv

\* The inductive invariant: at most one invocation is under way, and it is the
\* one of the call in progress unless the runtime has faulted.
THEOREM Invariance == Spec => []IInv
<1>1. Init => IInv
  BY InitInvariant
<1>2. IInv /\ [Next]_vars => IInv'
  BY TypeStep, LifeStep, InboxStep, JobStep, WritingStep, ControlStep, AnswerStep,
     EmbeddingsStep
  DEF IInv
<1> QED BY <1>1, <1>2, PTL DEF Spec

\* Every variable of the bridge holds a value of its kind.
THEOREM TypeCorrect == Spec => []TypeOK
<1>1. IInv => TypeOK
  BY DEF IInv
<1> QED BY <1>1, Invariance, PTL

\* A call that succeeds returns the answers to its own requests (call and
\* callStage), however late, however interleaved the worker's stores are.
THEOREM AnswersAreOwn == Spec => []OwnAnswer
<1>1. IInv => OwnAnswer
  BY DEF IInv
<1> QED BY <1>1, Invariance, PTL

\* Between calls of a usable runtime the worker holds no invocation, so the
\* next call may reset the shared buffers.
THEOREM BetweenCallsQuiet == Spec => []QuietBetweenCalls
<1>1. IInv => QuietBetweenCalls
  BY Quiet DEF IInv, QuietBetweenCalls, AwaitsAnswer, Storing, TypeOK, Writing
<1> QED BY <1>1, Invariance, PTL

\* The three refusals at the head of the worker's invoke never happen.
THEOREM WorkerNeverRefuses == Spec => []NeverTurnedAway
<1>1. IInv => NeverTurnedAway
  BY DEF IInv, WritingOK, NeverTurnedAway
<1> QED BY <1>1, Invariance, PTL

\* The embeddings a running invocation uses outlive its use of them.
THEOREM EmbeddingsOutliveUse == Spec => []EmbeddingsLive
<1>1. IInv => EmbeddingsLive
  BY DEF IInv
<1> QED BY <1>1, Invariance, PTL

\* A fault is never forgotten, and nothing succeeds after it (#assertUsable).
THEOREM FaultPersists == Spec => FaultIsFinal
<1> DEFINE Final == fault => /\ fault'
                             /\ result' # result => result'.kind = "refused"
                             /\ control'.sequence = control.sequence
<1>1. IInv /\ [Next]_vars => [Final]_vars
  <2> SUFFICES ASSUME IInv, Next, fault PROVE Final
    BY DEF vars
  <2>1. pc = "ready" /\ ~Usable
    BY DEF IInv, Life, Usable
  <2>2. CASE Refuse
    BY <2>2 DEF Refuse, sharedVars
  <2>3. CASE NoticeExit
    BY <2>3 DEF NoticeExit, sharedVars
  <2>4. CASE WritePayload \/ WriteState
    BY <2>4 DEF IInv, TypeOK, Control, WritePayload, WriteState, mainVars
  <2>5. CASE UNCHANGED <<fault, result, control>>
    BY <2>5
  <2>6. \/ Refuse \/ NoticeExit \/ WritePayload \/ WriteState
        \/ UNCHANGED <<fault, result, control>>
    BY <2>1
    DEF IInv, Life, Next, CallStep, WorkerStep, Completion, mainVars, sharedVars,
        Initialized, InitializationFails, BeginCall, BeginStage, Prepare, RejectInput, Post,
        PostFails, EnterWait, TimeOut, Observe, Read, OpenScope, SettleScope, Close,
        Terminate, WorkerExits, TakeInvoke, Encoded, Adapted, Evaluated, InvocationFails,
        WriteBytes, Notify, TakeEndScope, TakeShutdown
  <2> QED BY <2>2, <2>3, <2>4, <2>5, <2>6
<1> QED BY <1>1, Invariance, PTL DEF Spec, FaultIsFinal

-----------------------------------------------------------------------------
(* The refinement of the call service, step by step                        *)

\* Between calls nothing is asked.
Asking == ~InCall => call = NoCall

\* It stays so.
LEMMA AskingHolds == Spec => []Asking
<1>1. Init => Asking
  BY DEF Init, Asking
<1>2. Asking /\ [Next]_vars => Asking'
  <2> SUFFICES ASSUME Asking, [Next]_vars PROVE Asking'
    OBVIOUS
  <2>1. CASE BeginCall \/ BeginStage
    BY <2>1 DEF BeginCall, BeginStage, Prepare, Asking, InCall
  <2>2. CASE PostFails \/ TimeOut \/ Observe \/ Read
    BY <2>2 DEF PostFails, TimeOut, Observe, Read, Return, Asking, InCall, AwaitsAnswer
  <2>3. CASE Post \/ EnterWait \/ Notify
    BY <2>3 DEF Post, EnterWait, Notify, Asking, InCall, AwaitsAnswer
  <2>4. CASE Initialized \/ InitializationFails
    BY <2>4 DEF Initialized, InitializationFails, Asking, InCall, AwaitsAnswer
  <2>5. CASE UNCHANGED <<pc, call>>
    BY <2>5 DEF Asking, InCall, AwaitsAnswer
  <2>6. \/ BeginCall \/ BeginStage \/ PostFails \/ TimeOut \/ Observe \/ Read
        \/ Post \/ EnterWait \/ Notify \/ Initialized \/ InitializationFails
        \/ UNCHANGED <<pc, call>>
    BY DEF Next, CallStep, WorkerStep, Completion, vars, mainVars, Refuse, RejectInput,
           OpenScope, SettleScope, Close, Terminate, NoticeExit, WorkerExits, TakeInvoke,
           Encoded, Adapted, Evaluated, InvocationFails, WriteBytes, WritePayload,
           WriteState, TakeEndScope, TakeShutdown
  <2> QED BY <2>1, <2>2, <2>3, <2>4, <2>5, <2>6
<1> QED BY <1>1, <1>2, PTL DEF Spec

\* What the invariant says of a call in progress and of a bridge without one.
LEMMA Seen ==
  ASSUME IInv, Asking
  PROVE  /\ InCall => Asked # <<>> /\ Asked \in Seq(Request) /\ Status = "up" /\ ~closed /\ ~fault
         /\ ~InCall => Asked = <<>>
<1>1. ASSUME InCall PROVE Asked # <<>> /\ Asked \in Seq(Request)
  BY <1>1 DEF IInv, ControlOK, TypeOK, Call, Asked
<1>2. ASSUME InCall PROVE Status = "up" /\ ~closed /\ ~fault
  BY <1>2 DEF IInv, Life, Status, InCall, AwaitsAnswer
<1>3. ASSUME ~InCall PROVE Asked = <<>>
  BY <1>3 DEF Asking, Asked, NoCall
<1> QED BY <1>1, <1>2, <1>3

\* Starting the worker starts the service, or closes it.
LEMMA StartsService ==
  ASSUME Initialized \/ InitializationFails, IInv PROVE Service!Start \/ Service!StartFails
<1>1. CASE Initialized
  <2>1. Status = "starting" /\ Status' = "up" /\ Asked' = Asked /\ Ended' = Ended
    BY <1>1 DEF Initialized, Status, Asked, Ended, IInv, Life
  <2> QED BY <2>1 DEF Service!Start
<1>2. CASE InitializationFails
  <2>1. pc = "starting" /\ pc' = "failed" /\ call' = call /\ result' = result
    BY <1>2 DEF InitializationFails
  <2>2. Status = "starting"
    BY <2>1 DEF Status, IInv, Life
  <2>3. Status' = "closed"
    BY <2>1 DEF Status
  <2>4. Asked' = Asked /\ Ended' = Ended
    BY <2>1 DEF Asked, Ended
  <2> QED BY <2>2, <2>3, <2>4 DEF Service!StartFails
<1> QED BY <1>1, <1>2

\* A call that is prepared is asked.
LEMMA AsksService ==
  ASSUME IInv, Asking, IInv', Asking', BeginCall \/ BeginStage PROVE Service!Ask
<1>1. /\ Usable /\ pc' = "posting" /\ UNCHANGED <<fault, closed, result>>
  BY DEF BeginCall, BeginStage, Prepare
<1>2. Status = "up" /\ Asked = <<>>
  BY <1>1, Seen DEF Usable, Status, InCall, AwaitsAnswer
<1>3. Status' = "up" /\ Ended' = Ended
  BY <1>1 DEF Usable, Status, Ended
<1>4. Asked' \in Seq(Request) /\ Asked' # <<>>
  <2>1. InCall'
    BY <1>1 DEF InCall
  <2> QED BY <2>1 DEF IInv, ControlOK, TypeOK, Call, Asked
<1> QED BY <1>2, <1>3, <1>4 DEF Service!Ask

\* A call that fails for good latches the fault.
LEMMA BreaksService ==
  ASSUME IInv, Asking, InCall, fault', closed' = closed,
         NEW kind \in {"timeout", "worker-failed", "invalid-response"}, Return(kind, <<>>)
  PROVE  Service!FailForGood
<1>1. Asked # <<>> /\ ~closed
  BY Seen
<1>2. Status' = "broken" /\ Asked' = <<>> /\ Ended' = [kind |-> kind, value |-> <<>>]
  BY <1>1 DEF Return, Status, Asked, Ended, NoCall
<1> QED BY <1>1, <1>2 DEF Service!FailForGood, Service!Outcome

\* Reading the response ends the call with its own answer, its own error, or for good.
LEMMA ReadsService ==
  ASSUME IInv, Asking, Read PROVE Service!Answer \/ Service!Fail \/ Service!FailForGood
<1> DEFINE payload == SubSeq(response, 1, control.payloadLength)
           kind == ReadKind(payload)
<1>1. /\ kind \in {"failed", "value", "invalid-response"}
      /\ kind = "value" => payload = call.requests
  BY ReadsAnswer DEF Read
<1>2. /\ Return(kind, IF kind = "value" THEN payload ELSE <<>>)
      /\ fault' = (fault \/ kind = "invalid-response") /\ closed' = closed /\ InCall
  BY DEF Read, InCall
<1> HIDE DEF payload, kind
<1>3. Asked # <<>> /\ Status = "up" /\ ~closed /\ ~fault
  BY <1>2, Seen
<1>4. Asked' = <<>>
  BY <1>2 DEF Return, Asked, NoCall
<1>5. CASE kind = "value"
  <2>1. Ended' = [kind |-> "value", value |-> Asked] /\ Status' = Status
    BY <1>1, <1>2, <1>3, <1>5 DEF Return, Asked, Ended, Status
  <2> QED BY <1>3, <1>4, <2>1 DEF Service!Answer, Service!Outcome
<1>6. CASE kind = "failed"
  <2>1. Ended' = [kind |-> "failed", value |-> <<>>] /\ Status' = Status
    BY <1>1, <1>2, <1>3, <1>6 DEF Return, Ended, Status
  <2> QED BY <1>3, <1>4, <2>1 DEF Service!Fail, Service!Outcome
<1>7. CASE kind = "invalid-response"
  <2>1. fault' /\ Return(kind, <<>>)
    BY <1>2, <1>7
  <2> QED BY <1>2, <1>7, <2>1, BreaksService
<1> QED BY <1>1, <1>5, <1>6, <1>7

\* Between calls a call may be refused, the service may break or be closed.
LEMMA RestsService ==
  ASSUME IInv, Asking, Refuse \/ RejectInput \/ Close \/ NoticeExit
  PROVE  \/ Service!Refuse \/ Service!Shut \/ Service!Break
         \/ UNCHANGED <<Status, Asked, Ended>>
<1>1. pc = "ready" /\ pc' = pc /\ Asked' = Asked /\ Asked = <<>>
  <2>1. pc = "ready" /\ pc' = pc /\ call' = call
    BY DEF Refuse, RejectInput, Close, NoticeExit, Usable
  <2> QED BY <2>1, Seen DEF InCall, AwaitsAnswer, Asked
<1>2. CASE Refuse
  <2>1. Status \in {"broken", "closed"} /\ Status' = Status
        /\ Ended' = [kind |-> "refused", value |-> <<>>]
    BY <1>1, <1>2 DEF Refuse, Status, Ended
  <2> QED BY <1>1, <2>1 DEF Service!Refuse, Service!Outcome
<1>3. CASE RejectInput
  <2>1. Status = "up" /\ Status' = Status /\ Ended' = [kind |-> "invalid-input", value |-> <<>>]
    BY <1>1, <1>3 DEF RejectInput, Usable, Status, Ended
  <2> QED BY <1>1, <2>1 DEF Service!Refuse, Service!Outcome
<1>4. CASE Close
  <2>1. Status \in {"up", "broken"} /\ Status' = "closed" /\ Ended' = Ended
    BY <1>1, <1>4 DEF Close, Status, Ended, IInv, TypeOK
  <2> QED BY <1>1, <2>1 DEF Service!Shut
<1>5. CASE NoticeExit
  <2>1. closed' = closed /\ Ended' = Ended /\ fault' = (fault \/ ~closed)
    BY <1>5 DEF NoticeExit, Ended
  <2>2. CASE closed \/ fault
    <3>1. Status' = Status
      BY <1>1, <2>1, <2>2 DEF Status, IInv, TypeOK
    <3> QED BY <1>1, <2>1, <3>1
  <2>3. CASE ~closed /\ ~fault
    <3>1. Status = "up" /\ Status' = "broken"
      BY <1>1, <2>1, <2>3 DEF Status
    <3> QED BY <1>1, <2>1, <3>1 DEF Service!Break
  <2> QED BY <2>2, <2>3
<1> QED BY <1>2, <1>3, <1>4, <1>5

\* Every other step is the bridge's own business.
LEMMA HiddenSteps ==
  ASSUME IInv, Asking, [Next]_vars,
         ~(Initialized \/ InitializationFails \/ BeginCall \/ BeginStage \/ PostFails \/ TimeOut
           \/ Observe \/ Read \/ Refuse \/ RejectInput \/ Close \/ NoticeExit)
  PROVE  UNCHANGED <<Status, Asked, Ended>>
<1>1. CASE Post \/ EnterWait \/ Notify
  <2>1. /\ call' = call /\ result' = result /\ fault' = fault /\ closed' = closed
        /\ pc' = pc \/ (InCall /\ pc' \notin {"starting", "failed"})
    BY <1>1 DEF Post, EnterWait, Notify, InCall, AwaitsAnswer
  <2>2. Status' = Status
    BY <2>1 DEF Status, InCall, AwaitsAnswer
  <2> QED BY <2>1, <2>2 DEF Asked, Ended
<1>2. CASE UNCHANGED mainVars
  BY <1>2 DEF mainVars, Status, Asked, Ended
<1>3. Post \/ EnterWait \/ Notify \/ UNCHANGED mainVars
  BY DEF Next, CallStep, WorkerStep, Completion, vars, OpenScope, SettleScope, Terminate,
         WorkerExits, TakeInvoke, Encoded, Adapted, Evaluated, InvocationFails, WriteBytes,
         WritePayload, WriteState, TakeEndScope, TakeShutdown
<1> QED BY <1>1, <1>2, <1>3

\* Every step of the bridge is a step of the call service, or shows nothing of itself.
LEMMA StepsOfService ==
  ASSUME IInv, Asking, IInv', Asking', [Next]_vars PROVE [Service!Next]_(Service!vars)
<1>1. CASE Initialized \/ InitializationFails
  BY <1>1, StartsService DEF Service!Next
<1>2. CASE BeginCall \/ BeginStage
  BY <1>2, AsksService DEF Service!Next
<1>3. CASE PostFails \/ TimeOut
  <2>1. /\ InCall /\ fault' /\ closed' = closed
        /\ Return("timeout", <<>>) \/ Return("worker-failed", <<>>)
    BY <1>3 DEF PostFails, TimeOut, InCall, AwaitsAnswer
  <2> QED BY <2>1, BreaksService DEF Service!Next
<1>4. CASE Observe
  <2>1. CASE Answered /\ pc' = "reading" /\ UNCHANGED <<call, result, fault>>
    <3>1. Asked' = Asked /\ Ended' = Ended
      BY <2>1 DEF Asked, Ended
    <3>2. Status' = Status
      BY <1>4, <2>1 DEF Observe, Status
    <3> QED BY <3>1, <3>2 DEF Service!vars
  <2>2. CASE fault' = TRUE /\ Return("invalid-response", <<>>)
    <3>1. InCall /\ closed' = closed
      BY <1>4 DEF Observe, InCall, AwaitsAnswer
    <3> QED BY <2>2, <3>1, BreaksService DEF Service!Next
  <2> QED BY <1>4, <2>1, <2>2 DEF Observe
<1>5. CASE Read
  BY <1>5, ReadsService DEF Service!Next
<1>6. CASE Refuse \/ RejectInput \/ Close \/ NoticeExit
  BY <1>6, RestsService DEF Service!Next, Service!vars
<1> QED BY <1>1, <1>2, <1>3, <1>4, <1>5, <1>6, HiddenSteps DEF Service!vars

\* The safety part of ImplementsCallService, for every set of requests and scopes and every
\* limit: the bridge starts as the call service starts, and each of its steps is one of the
\* service's or shows nothing (call, callStage, close and the worker's events).
THEOREM StepsAsCallService == Spec => Service!Init /\ [][Service!Next]_(Service!vars)
<1>1. Init => Service!Init
  BY DEF Init, Status, Asked, Ended, NoCall, Service!Init, Service!Outcome
<1> QED BY <1>1, StepsOfService, AskingHolds, Invariance, PTL DEF Spec
=============================================================================
