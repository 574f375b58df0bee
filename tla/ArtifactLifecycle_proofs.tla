---------------------- MODULE ArtifactLifecycle_proofs ----------------------
(***************************************************************************)
(* Safety of the artifact lifecycle for every number of loads, closes and  *)
(* pointer changes and every set of roots and releases.                    *)
(***************************************************************************)
EXTENDS ArtifactLifecycle, TLAPS

\* What a chain q of operations keeps when `last` loads were asked for, the
\* artifacts with a runtime in `rt` were activated, and the load at its head
\* has activated its own or not: loads wait in the order of their numbers,
\* behind those that ran, and only activated artifacts have handles to close.
Chain(q, last, rt, swapped) ==
  /\ \A i \in 1..Len(q) : q[i].kind = "load" => q[i].number <= last
  /\ \A i, j \in 1..Len(q) :
       i < j /\ q[i].kind = "load" /\ q[j].kind = "load" => q[i].number < q[j].number
  /\ \A n \in Number, i \in 1..Len(q) :
       rt[n] # "none" /\ q[i].kind = "load" =>
         n < q[i].number \/ (swapped /\ i = 1 /\ n = q[i].number)
  /\ \A i \in 1..Len(q) : q[i].kind = "close-handle" => rt[q[i].number] # "none"
  /\ \A n \in Number : rt[n] # "none" => n <= last

InOrder == Chain(queue, loads, runtime, step = "swapped")

\* The operation in progress is at a step of its own kind.
StepOK ==
  /\ step \in {"read", "swapped"} => queue # <<>> /\ queue[1].kind = "load"
  /\ step = "closing" => queue # <<>> /\ queue[1].kind # "load"

IInv == TypeOK /\ OnlyTheActiveRuns /\ NoStrayWatcher /\ InOrder /\ StepOK

-----------------------------------------------------------------------------
(* The chain                                                               *)

\* The operations the code enqueues are operations.
LEMMA OperationTypes ==
  /\ \A n \in Number, root \in Root, watching \in BOOLEAN, by \in 0..MaxLoads :
       Load(n, root, watching, by) \in Operations
  /\ CloseActive \in Operations
  /\ \A n \in Number : CloseHandle(n) \in Operations
<1>1. AnyRoot \in Root
  BY LifecycleAssumption DEF AnyRoot
<1> QED
  BY <1>1 DEF Load, CloseActive, CloseHandle, Operations

\* What the fields of an operation range over.
LEMMA OperationFields ==
  ASSUME NEW op \in Operations
  PROVE  /\ op.kind \in {"load", "close-active", "close-handle"}
         /\ op.kind # "close-active" => op.number \in Number
         /\ op.root \in Root
         /\ op.by \in 0..MaxLoads
<1> USE LifecycleAssumption DEF Number
<1>1. CASE op \in [kind : {"load"}, number : Number, root : Root,
                   watching : BOOLEAN, by : 0..MaxLoads]
  BY <1>1
<1>2. CASE op \in [kind : {"close-active"}, number : {0}, root : Root,
                   watching : {FALSE}, by : {0}]
  BY <1>2
<1>3. CASE op \in [kind : {"close-handle"}, number : Number, root : Root,
                   watching : {FALSE}, by : {0}]
  BY <1>3
<1> QED BY <1>1, <1>2, <1>3 DEF Operations

\* The record of a load without watcher.
LEMMA NoWatchType == NoWatch \in Watch /\ NoWatch.state = "none"
BY LifecycleAssumption DEF NoWatch, AnyRoot, Watch

\* A watcher's record keeps its type when a field is set.
LEMMA WatchFields ==
  ASSUME NEW w \in Watch, NEW b \in BOOLEAN, NEW c \in BOOLEAN
  PROVE  /\ [w EXCEPT !.due = b] \in Watch
         /\ [w EXCEPT !.reloading = b] \in Watch
         /\ [w EXCEPT !.reloading = b].state = w.state
         /\ [w EXCEPT !.pending = b] \in Watch
         /\ [w EXCEPT !.pending = b].state = w.state
         /\ [w EXCEPT !.due = b, !.pending = c] \in Watch
         /\ [w EXCEPT !.due = b, !.pending = c].state = w.state
         /\ [w EXCEPT !.due = b, !.reloading = c] \in Watch
         /\ [w EXCEPT !.due = b, !.reloading = c].state = w.state
         /\ w.root \in Root
BY DEF Watch

\* stopWatching keeps the watchers' type and leaves none open, if none is stray.
LEMMA StoppedType ==
  ASSUME TypeOK
  PROVE  /\ Stopped \in [Number -> Watch]
         /\ NoStrayWatcher => \A n \in Number : Stopped[n].state # "open"
<1>1. CASE watcher = 0
  BY <1>1 DEF TypeOK, Stopped, NoStrayWatcher, Number
<1>2. CASE watcher # 0
  <2>1. watcher \in Number
    BY <1>2 DEF TypeOK, Number
  <2>2. Stopped = [n \in Number |->
          IF n = watcher THEN [watch[n] EXCEPT !.state = "closed", !.due = FALSE]
          ELSE watch[n]]
    BY <1>2, <2>1 DEF TypeOK, Stopped
  <2>3. \A n \in Number : watch[n] \in Watch
    BY DEF TypeOK
  <2>4. [watch[watcher] EXCEPT !.state = "closed", !.due = FALSE] \in Watch
    BY <2>1, <2>3 DEF Watch
  <2>5. [watch[watcher] EXCEPT !.state = "closed", !.due = FALSE].state = "closed"
    BY <2>1, <2>3 DEF Watch
  <2>6. Stopped \in [Number -> Watch]
    BY <2>2, <2>3, <2>4
  <2>7. ASSUME NoStrayWatcher, NEW n \in Number PROVE Stopped[n].state # "open"
    BY <2>2, <2>5, <2>7 DEF NoStrayWatcher
  <2> QED BY <2>6, <2>7
<1> QED BY <1>1, <1>2

\* The record of one watcher changes, and not its state.
LEMMA WatchUpdate ==
  ASSUME TypeOK, NEW n \in Number, NEW w \in Watch, w.state = watch[n].state,
         watch' = [watch EXCEPT ![n] = w]
  PROVE  /\ watch' \in [Number -> Watch]
         /\ \A m \in Number : watch'[m].state = watch[m].state
BY DEF TypeOK

\* A timer that fires opens and closes no watcher.
LEMMA TimerUpdate ==
  ASSUME TypeOK, NEW n \in Number, ReloadTimer(n)
  PROVE  /\ watch' \in [Number -> Watch]
         /\ \A m \in Number : watch'[m].state = watch[m].state
<1> DEFINE v == watch[n]
<1>1. v \in Watch
  BY DEF TypeOK
<1>2. CASE v.reloading
  <2> DEFINE w == [v EXCEPT !.due = FALSE, !.pending = TRUE]
  <2>1. watch' = [watch EXCEPT ![n] = w]
    BY <1>2 DEF ReloadTimer, TypeOK
  <2>2. w \in Watch /\ w.state = v.state
    BY <1>1 DEF Watch
  <2> HIDE DEF w
  <2> QED BY <2>1, <2>2, WatchUpdate
<1>3. CASE ~v.reloading
  <2> DEFINE w == [v EXCEPT !.due = FALSE, !.reloading = TRUE]
  <2>1. watch' = [watch EXCEPT ![n] = w]
    BY <1>3 DEF ReloadTimer, TypeOK
  <2>2. w \in Watch /\ w.state = v.state
    BY <1>1 DEF Watch
  <2> HIDE DEF w
  <2> QED BY <2>1, <2>2, WatchUpdate
<1> QED BY <1>2, <1>3

\* What the continuation of a reload does to the watchers.
LEMMA ReloadUpdate ==
  ASSUME TypeOK, NEW op, op.by \in Number, NEW failed \in BOOLEAN, Continue(op, failed)
  PROVE  /\ watch' \in [Number -> Watch]
         /\ \A m \in Number : watch'[m].state = watch[m].state
         /\ watcher' = watcher
<1> DEFINE n == op.by
           v == watch[n]
<1>1. v \in Watch /\ n # 0
  BY DEF TypeOK, Number
<1>2. CASE v.pending /\ loads < MaxLoads
  <2> DEFINE w == [v EXCEPT !.pending = FALSE]
  <2>1. watch' = [watch EXCEPT ![n] = w] /\ watcher' = watcher
    BY <1>1, <1>2 DEF Continue
  <2>2. w \in Watch /\ w.state = v.state
    BY <1>1 DEF Watch
  <2> HIDE DEF w
  <2> QED BY <2>1, <2>2, WatchUpdate
<1>3. CASE ~(v.pending /\ loads < MaxLoads)
  <2> DEFINE w == [v EXCEPT !.reloading = FALSE]
  <2>1. watch' = [watch EXCEPT ![n] = w] /\ watcher' = watcher
    BY <1>1, <1>3 DEF Continue
  <2>2. w \in Watch /\ w.state = v.state
    BY <1>1 DEF Watch
  <2> HIDE DEF w
  <2> QED BY <2>1, <2>2, WatchUpdate
<1> QED BY <1>2, <1>3

\* Arithmetic of the bounds.
LEMMA Bounds ==
  /\ MaxLoads \in Nat /\ MaxCloses \in Nat /\ MaxChanges \in Nat
  /\ Number \subseteq 0..MaxLoads /\ 0 \in 0..MaxLoads
  /\ loads \in 0..MaxLoads /\ loads < MaxLoads =>
       loads + 1 \in Number /\ loads + 1 \in 0..MaxLoads
BY LifecycleAssumption DEF Number

\* The operation at the head is done.
LEMMA TailChain ==
  ASSUME NEW q \in Seq(Operations), q # <<>>, NEW last, NEW rt, NEW swapped \in BOOLEAN,
         Chain(q, last, rt, swapped)
  PROVE  Chain(Tail(q), last, rt, FALSE)
<1>1. /\ Len(q) \in Nat /\ Len(Tail(q)) = Len(q) - 1
      /\ \A i \in 1..Len(Tail(q)) :
           i + 1 \in 1..Len(q) /\ i + 1 # 1 /\ Tail(q)[i] = q[i + 1]
  OBVIOUS
<1> DEFINE t == Tail(q)
<1>2. \A i \in 1..Len(t) : /\ t[i].kind = "load" => t[i].number <= last
                           /\ t[i].kind = "close-handle" => rt[t[i].number] # "none"
  BY <1>1 DEF Chain
<1>3. ASSUME NEW i \in 1..Len(t), NEW j \in 1..Len(t), i < j,
             t[i].kind = "load", t[j].kind = "load"
      PROVE  t[i].number < t[j].number
  <2>1. i + 1 < j + 1
    BY <1>1, <1>3
  <2> QED BY <1>1, <1>3, <2>1 DEF Chain
<1>4. ASSUME NEW n \in Number, NEW i \in 1..Len(t), rt[n] # "none", t[i].kind = "load"
      PROVE  n < t[i].number
  BY <1>1, <1>4 DEF Chain
<1> HIDE DEF t
<1>5. \A n \in Number : rt[n] # "none" => n <= last
  BY DEF Chain
<1>6. Chain(t, last, rt, FALSE)
  BY <1>2, <1>3, <1>4, <1>5 DEF Chain
<1> QED BY <1>6 DEF t

\* A load is asked for.
LEMMA LoadChain ==
  ASSUME NEW q \in Seq(Operations), NEW last \in Nat, NEW rt, NEW swapped \in BOOLEAN,
         Chain(q, last, rt, swapped), NEW op \in Operations,
         op.kind = "load", op.number = last + 1, swapped => q # <<>>
  PROVE  Chain(Append(q, op), last + 1, rt, swapped)
<1> DEFINE a == Append(q, op)
<1>1. /\ Len(q) \in Nat /\ Len(a) = Len(q) + 1 /\ a[Len(q) + 1] = op
      /\ \A i \in 1..Len(a) : (i \in 1..Len(q) /\ a[i] = q[i]) \/ i = Len(q) + 1
  OBVIOUS
<1>2. \A i \in 1..Len(q) : q[i].kind = "load" => q[i].number \in Number
  <2>1. \A i \in 1..Len(q) : q[i] \in Operations
    OBVIOUS
  <2> QED BY <2>1, OperationFields
<1> HIDE DEF a
<1>3. \A n \in Number : n \in Nat
  BY LifecycleAssumption DEF Number
<1>4. \A i \in 1..Len(a) : a[i].kind = "load" => a[i].number <= last + 1
  BY <1>1, <1>2, <1>3 DEF Chain
<1>5. ASSUME NEW i \in 1..Len(a), NEW j \in 1..Len(a), i < j,
             a[i].kind = "load", a[j].kind = "load"
      PROVE  a[i].number < a[j].number
  <2>1. i \in 1..Len(q) /\ a[i] = q[i]
    BY <1>1, <1>5
  <2>2. a[i].number <= last /\ a[i].number \in Nat
    BY <1>2, <1>3, <1>5, <2>1 DEF Chain
  <2>3. CASE j = Len(q) + 1
    BY <1>1, <2>2, <2>3
  <2>4. CASE j \in 1..Len(q) /\ a[j] = q[j]
    BY <1>5, <2>1, <2>4 DEF Chain
  <2> QED BY <1>1, <2>3, <2>4
<1>6. ASSUME NEW n \in Number, NEW i \in 1..Len(a), rt[n] # "none", a[i].kind = "load"
      PROVE  n < a[i].number \/ (swapped /\ i = 1 /\ n = a[i].number)
  <2>1. CASE i = Len(q) + 1
    BY <1>1, <1>3, <1>6, <2>1 DEF Chain
  <2>2. CASE i \in 1..Len(q) /\ a[i] = q[i]
    BY <1>6, <2>2 DEF Chain
  <2> QED BY <1>1, <2>1, <2>2
<1>7. \A i \in 1..Len(a) : a[i].kind = "close-handle" => rt[a[i].number] # "none"
  BY <1>1 DEF Chain
<1>8. \A n \in Number : rt[n] # "none" => n <= last + 1
  BY <1>3 DEF Chain
<1>9. Chain(a, last + 1, rt, swapped)
  BY <1>4, <1>5, <1>6, <1>7, <1>8 DEF Chain
<1> QED BY <1>9 DEF a

\* A close is asked for.
LEMMA CloseChain ==
  ASSUME NEW q \in Seq(Operations), NEW last, NEW rt, NEW swapped \in BOOLEAN,
         Chain(q, last, rt, swapped), NEW op \in Operations, op.kind # "load",
         op.kind = "close-handle" => rt[op.number] # "none"
  PROVE  Chain(Append(q, op), last, rt, swapped)
<1> DEFINE a == Append(q, op)
<1>1. /\ Len(q) \in Nat /\ Len(a) = Len(q) + 1 /\ a[Len(q) + 1] = op
      /\ \A i \in 1..Len(a) : (i \in 1..Len(q) /\ a[i] = q[i]) \/ i = Len(q) + 1
  OBVIOUS
<1> HIDE DEF a
<1>2. \A i \in 1..Len(a) : a[i].kind = "load" => i \in 1..Len(q) /\ a[i] = q[i]
  BY <1>1
<1>3. \A i \in 1..Len(a) : a[i].kind = "close-handle" => rt[a[i].number] # "none"
  BY <1>1 DEF Chain
<1>4. Chain(a, last, rt, swapped)
  BY <1>2, <1>3 DEF Chain
<1> QED BY <1>4 DEF a

-----------------------------------------------------------------------------
(* Initial states                                                          *)

\* The inductive invariant holds before the first load.
THEOREM Initially == Init => IInv
<1> SUFFICES ASSUME Init PROVE IInv OBVIOUS
<1>1. TypeOK
  <2>1. watch \in [Number -> Watch]
    BY NoWatchType DEF Init
  <2>2. queue \in Seq(Operations)
    BY DEF Init
  <2>3. loads \in 0..MaxLoads /\ closes \in 0..MaxCloses /\ changes \in 0..MaxChanges
    BY LifecycleAssumption DEF Init
  <2> QED BY <2>1, <2>2, <2>3, Bounds DEF Init, TypeOK
<1>2. OnlyTheActiveRuns /\ NoStrayWatcher
  BY DEF Init, OnlyTheActiveRuns, NoStrayWatcher, NoWatch, Number
<1>3. InOrder /\ StepOK
  BY DEF Init, InOrder, Chain, StepOK
<1> QED BY <1>1, <1>2, <1>3 DEF IInv

-----------------------------------------------------------------------------
(* Type correctness                                                        *)

\* Every step keeps every variable's type.
LEMMA TypeStep == TypeOK /\ [Next]_vars => TypeOK'
<1> SUFFICES ASSUME TypeOK, [Next]_vars PROVE TypeOK' OBVIOUS
<1> USE LifecycleAssumption
<1>1. CASE LoadArtifact
  <2>1. loads + 1 \in Number /\ loads + 1 \in 0..MaxLoads /\ 0 \in 0..MaxLoads
    BY <1>1, Bounds DEF LoadArtifact, TypeOK
  <2>2. queue' \in Seq(Operations)
    BY <1>1, <2>1, OperationTypes DEF LoadArtifact, Enqueue, TypeOK
  <2> QED BY <1>1, <2>1, <2>2 DEF LoadArtifact, TypeOK
<1>2. CASE CloseArtifact
  BY <1>2, OperationTypes, StoppedType DEF CloseArtifact, Enqueue, TypeOK
<1>3. ASSUME NEW n \in Number, CloseHandleOf(n) PROVE TypeOK'
  BY <1>3, OperationTypes, StoppedType DEF CloseHandleOf, Enqueue, TypeOK
<1>4. ASSUME NEW n \in Number, ReloadTimer(n) PROVE TypeOK'
  <2>1. loads + 1 \in Number /\ loads + 1 \in 0..MaxLoads /\ n \in 0..MaxLoads
    BY <1>4, Bounds DEF ReloadTimer, TypeOK
  <2>2. watch[n].root \in Root
    BY DEF TypeOK, Watch
  <2>3. Load(loads + 1, watch[n].root, FALSE, n) \in Operations
    BY <2>1, <2>2, OperationTypes
  <2>4. queue' \in Seq(Operations) /\ loads' \in 0..MaxLoads
    <3> DEFINE op == Load(loads + 1, watch[n].root, FALSE, n)
    <3>1. CASE watch[n].reloading
      BY <1>4, <3>1 DEF ReloadTimer, TypeOK
    <3>2. CASE ~watch[n].reloading
      <4>1. queue' = Append(queue, op) /\ loads' = loads + 1
        BY <1>4, <3>2 DEF ReloadTimer, Enqueue
      <4>2. op \in Operations
        BY <2>3
      <4> HIDE DEF op
      <4> QED BY <4>1, <4>2, <2>1 DEF TypeOK
    <3> QED BY <3>1, <3>2
  <2>5. watch' \in [Number -> Watch]
    BY <1>4, TimerUpdate
  <2> QED BY <1>4, <2>4, <2>5 DEF ReloadTimer, TypeOK
<1>5. ASSUME NEW root \in Root, ChangePointer(root) PROVE TypeOK'
  <2>1. watch' \in [Number -> Watch]
    <3>1. \A n \in Number : watch[n] \in Watch /\ [watch[n] EXCEPT !.due = TRUE] \in Watch
      BY WatchFields DEF TypeOK
    <3> QED BY <1>5, <3>1 DEF ChangePointer
  <2>2. changes' \in 0..MaxChanges
    BY <1>5, LifecycleAssumption DEF ChangePointer, TypeOK
  <2>3. current' \in [Root -> Release]
    BY <1>5 DEF ChangePointer, TypeOK
  <2> QED BY <1>5, <2>1, <2>2, <2>3 DEF ChangePointer, TypeOK
<1>6. ASSUME NEW at, NEW failed \in BOOLEAN, InProgress("load", at), Continue(Head(queue), failed)
      PROVE  /\ (queue \in Seq(Operations))'
             /\ (watcher \in 0..MaxLoads)'
             /\ (loads \in 0..MaxLoads)'
             /\ (watch \in [Number -> Watch])'
  <2> DEFINE op == Head(queue)
  <2>1. op \in Operations /\ op.kind = "load" /\ Tail(queue) \in Seq(Operations)
    BY <1>6 DEF TypeOK, InProgress
  <2>2. op.number \in Number /\ op.root \in Root /\ op.by \in 0..MaxLoads
    BY <2>1, OperationFields
  <2>3. CASE op.by = 0
    <3>1. watcher' \in 0..MaxLoads
      BY <1>6, <2>2, <2>3, Bounds DEF Continue, TypeOK
    <3>2. [NoWatch EXCEPT !.state = "open", !.root = op.root] \in Watch
      BY <2>2, NoWatchType DEF Watch
    <3>3. watch' \in [Number -> Watch]
      BY <1>6, <2>2, <2>3, <3>2, StoppedType DEF Continue, TypeOK
    <3> QED BY <1>6, <2>1, <2>3, <3>1, <3>3 DEF Continue, TypeOK
  <2>4. CASE op.by # 0
    <3>1. op.by \in Number
      BY <2>2, <2>4, LifecycleAssumption DEF Number
    <3>2. watch' \in [Number -> Watch]
      BY <1>6, <3>1, ReloadUpdate
    <3>3. queue' \in Seq(Operations) /\ loads' \in 0..MaxLoads
      <4>1. CASE watch[op.by].pending /\ loads < MaxLoads
        <5>1. loads + 1 \in Number /\ loads + 1 \in 0..MaxLoads
          BY <4>1, Bounds DEF TypeOK
        <5> DEFINE next == Load(loads + 1, op.root, FALSE, op.by)
        <5>2. next \in Operations
          BY <5>1, <2>2, OperationTypes
        <5>3. queue' = Append(Tail(queue), next) /\ loads' = loads + 1
          BY <1>6, <2>4, <4>1 DEF Continue, Enqueue
        <5> HIDE DEF next, op
        <5>4. queue' \in Seq(Operations)
          BY <2>1, <5>2, <5>3
        <5> QED BY <5>1, <5>3, <5>4
      <4>2. CASE ~(watch[op.by].pending /\ loads < MaxLoads)
        BY <1>6, <2>1, <2>4, <4>2 DEF Continue, TypeOK
      <4> QED BY <4>1, <4>2
    <3> QED BY <1>6, <2>4, <3>2, <3>3 DEF Continue, TypeOK
  <2> QED BY <2>3, <2>4
<1>7. CASE ReadPointer
  <2>1. Head(queue).root \in Root
    BY <1>7, OperationFields DEF ReadPointer, InProgress, TypeOK
  <2> QED BY <1>7, <2>1 DEF ReadPointer, TypeOK
<1>8. CASE LoadFails
  BY <1>6, <1>8 DEF LoadFails, TypeOK
<1>9. CASE LoadFinishes
  BY <1>6, <1>9 DEF LoadFinishes, TypeOK
<1>10. CASE Activate
  <2>1. Head(queue).number \in Number
    BY <1>10, OperationFields DEF Activate, InProgress, TypeOK
  <2> QED BY <1>10, <2>1 DEF Activate, TypeOK, Number
<1>11. CASE RunCloseActive
  BY <1>11 DEF RunCloseActive, TypeOK
<1>12. CASE RunCloseHandle
  <2>1. Head(queue).number \in Number
    BY <1>12, OperationFields DEF RunCloseHandle, InProgress, TypeOK
  <2> QED BY <1>12, <2>1, Bounds DEF RunCloseHandle, TypeOK
<1>13. CASE CloseFinishes
  BY <1>13 DEF CloseFinishes, TypeOK
<1>14. CASE UNCHANGED vars
  BY <1>14 DEF vars, TypeOK
<1> QED
  BY <1>1, <1>2, <1>3, <1>4, <1>5, <1>7, <1>8, <1>9, <1>10, <1>11, <1>12,
     <1>13, <1>14 DEF Next, Operation

-----------------------------------------------------------------------------
(* Runtimes and watchers                                                   *)

\* A swap closes the predecessor's worker, a close the one it names.
LEMMA RuntimesStep == TypeOK /\ OnlyTheActiveRuns /\ [Next]_vars => OnlyTheActiveRuns'
<1> SUFFICES ASSUME TypeOK, OnlyTheActiveRuns, [Next]_vars PROVE OnlyTheActiveRuns'
  OBVIOUS
<1>1. ASSUME UNCHANGED <<active, runtime>> PROVE OnlyTheActiveRuns'
  BY <1>1 DEF OnlyTheActiveRuns
<1>2. CASE Activate
  BY <1>2 DEF Activate, OnlyTheActiveRuns, TypeOK
<1>3. CASE RunCloseActive
  BY <1>3 DEF RunCloseActive, OnlyTheActiveRuns, TypeOK, Number
<1>4. CASE RunCloseHandle
  BY <1>4 DEF RunCloseHandle, OnlyTheActiveRuns, TypeOK, Number
<1> QED
  BY <1>1, <1>2, <1>3, <1>4
  DEF Next, Operation, vars, LoadArtifact, CloseArtifact, CloseHandleOf, ReloadTimer,
      ChangePointer, ReadPointer, LoadFails, LoadFinishes, CloseFinishes

\* A watcher is forgotten only where it is closed.
LEMMA WatchersStep == TypeOK /\ NoStrayWatcher /\ [Next]_vars => NoStrayWatcher'
<1> SUFFICES ASSUME TypeOK, NoStrayWatcher, [Next]_vars PROVE NoStrayWatcher'
  OBVIOUS
<1>1. ASSUME UNCHANGED <<watcher, watch>> PROVE NoStrayWatcher'
  BY <1>1 DEF NoStrayWatcher
<1>2. ASSUME watch' = Stopped PROVE NoStrayWatcher'
  BY <1>2, StoppedType DEF NoStrayWatcher
<1>4. CASE CloseArtifact
  BY <1>2, <1>4 DEF CloseArtifact
<1>5. ASSUME NEW n \in Number, CloseHandleOf(n) PROVE NoStrayWatcher'
  BY <1>1, <1>2, <1>5 DEF CloseHandleOf
<1>6. ASSUME NEW n \in Number, ReloadTimer(n) PROVE NoStrayWatcher'
  <2>1. \A m \in Number : watch'[m].state = watch[m].state
    BY <1>6, TimerUpdate
  <2> QED BY <1>6, <2>1 DEF ReloadTimer, NoStrayWatcher
<1>7. ASSUME NEW root \in Root, ChangePointer(root) PROVE NoStrayWatcher'
  BY <1>7 DEF ChangePointer, NoStrayWatcher, TypeOK
<1>8. ASSUME NEW at, NEW failed \in BOOLEAN, InProgress("load", at), Continue(Head(queue), failed)
      PROVE  NoStrayWatcher'
  <2> DEFINE op == Head(queue)
  <2>1. op.number \in Number /\ op.by \in 0..MaxLoads
    BY <1>8, OperationFields DEF TypeOK, InProgress
  <2>2. CASE op.by = 0
    <3>1. CASE failed
      BY <1>1, <1>8, <2>2, <3>1 DEF Continue
    <3>2. CASE ~failed /\ ~op.watching
      BY <1>2, <1>8, <2>2, <3>2 DEF Continue
    <3>3. CASE ~failed /\ op.watching
      BY <1>8, <2>1, <2>2, <3>3, StoppedType DEF Continue, NoStrayWatcher
    <3> QED BY <3>1, <3>2, <3>3
  <2>3. CASE op.by # 0
    <3>1. op.by \in Number
      BY <2>1, <2>3, LifecycleAssumption DEF Number
    <3>2. \A m \in Number : watch'[m].state = watch[m].state
      BY <1>8, <3>1, ReloadUpdate
    <3> QED BY <1>8, <2>3, <3>2 DEF Continue, NoStrayWatcher
  <2> QED BY <2>2, <2>3
<1> QED
  BY <1>1, <1>4, <1>5, <1>6, <1>7, <1>8
  DEF Next, Operation, vars, LoadArtifact, ReadPointer, LoadFails, Activate,
      LoadFinishes, RunCloseActive, RunCloseHandle, CloseFinishes

-----------------------------------------------------------------------------
(* The chain keeps its order                                               *)

\* The chain depends on the runtimes only through which were started.
LEMMA SameRuntimes ==
  ASSUME NEW q, NEW last, NEW rt, NEW other, NEW swapped,
         Chain(q, last, rt, swapped),
         \A n \in Number : rt[n] = "none" <=> other[n] = "none",
         \A i \in 1..Len(q) : q[i].kind = "close-handle" => q[i].number \in Number
  PROVE  Chain(q, last, other, swapped)
BY DEF Chain

\* Asking for an operation leaves the operation in progress where it is.
LEMMA StepKept ==
  ASSUME TypeOK, StepOK, NEW op \in Operations, queue' = Append(queue, op), step' = step
  PROVE  StepOK'
<1>1. queue # <<>> => queue' # <<>> /\ queue'[1] = queue[1]
  BY DEF TypeOK
<1> QED BY <1>1 DEF StepOK

\* Every step keeps the order of the chain and of the runtimes it started.
LEMMA OrderStep ==
  TypeOK /\ OnlyTheActiveRuns /\ InOrder /\ StepOK /\ [Next]_vars => InOrder' /\ StepOK'
<1> SUFFICES ASSUME TypeOK, OnlyTheActiveRuns, InOrder, StepOK, [Next]_vars
             PROVE  InOrder' /\ StepOK'
  OBVIOUS
<1>q. queue \in Seq(Operations) /\ loads \in Nat /\ \A n \in Number : n \in Nat
  BY LifecycleAssumption DEF TypeOK, Number
<1>f. \A i \in 1..Len(queue) : queue[i].kind # "close-active" => queue[i].number \in Number
  <2>1. \A i \in 1..Len(queue) : queue[i] \in Operations
    BY <1>q
  <2> QED BY <2>1, OperationFields
<1>h. queue # <<>> => Head(queue) = queue[1] /\ 1 \in 1..Len(queue)
  BY <1>q
<1>s. step = "swapped" => queue # <<>>
  BY DEF StepOK
<1>1. ASSUME UNCHANGED <<queue, step, runtime, loads>> PROVE InOrder' /\ StepOK'
  BY <1>1 DEF InOrder, StepOK
<1>2. ASSUME NEW root \in Root, NEW watching \in BOOLEAN, NEW by \in 0..MaxLoads,
             loads < MaxLoads, queue' = Append(queue, Load(loads + 1, root, watching, by)),
             loads' = loads + 1, UNCHANGED <<step, runtime>>
      PROVE  InOrder' /\ StepOK'
  <2> DEFINE op == Load(loads + 1, root, watching, by)
  <2>1. op \in Operations /\ op.kind = "load" /\ op.number = loads + 1
    BY <1>2, OperationTypes, Bounds DEF Load, TypeOK
  <2>2. queue' = Append(queue, op)
    BY <1>2
  <2> HIDE DEF op
  <2>3. StepOK'
    BY <1>2, <2>1, <2>2, StepKept
  <2>4. Chain(Append(queue, op), loads + 1, runtime, step = "swapped")
    BY <1>q, <1>s, <2>1, LoadChain DEF InOrder
  <2> QED BY <1>2, <2>2, <2>3, <2>4 DEF InOrder
<1>3. ASSUME NEW op \in Operations, op.kind # "load",
             op.kind = "close-handle" => runtime[op.number] # "none",
             queue' = Append(queue, op), UNCHANGED <<step, runtime, loads>>
      PROVE  InOrder' /\ StepOK'
  <2>1. StepOK'
    BY <1>3, StepKept
  <2>2. Chain(Append(queue, op), loads, runtime, step = "swapped")
    BY <1>q, <1>3, CloseChain DEF InOrder
  <2> QED BY <1>3, <2>1, <2>2 DEF InOrder
<1>4. CASE LoadArtifact
  <2>1. PICK root \in Root, watching \in BOOLEAN :
          queue' = Append(queue, Load(loads + 1, root, watching, 0))
    BY <1>4 DEF LoadArtifact, Enqueue
  <2> QED BY <1>2, <1>4, <2>1, Bounds DEF LoadArtifact
<1>5. CASE CloseArtifact
  <2>1. CloseActive \in Operations /\ CloseActive.kind = "close-active"
    BY OperationTypes DEF CloseActive
  <2>2. queue' = Append(queue, CloseActive) /\ UNCHANGED <<step, runtime, loads>>
    BY <1>5 DEF CloseArtifact, Enqueue
  <2> QED BY <1>3, <2>1, <2>2
<1>6. ASSUME NEW n \in Number, CloseHandleOf(n) PROVE InOrder' /\ StepOK'
  <2>1. /\ CloseHandle(n) \in Operations /\ CloseHandle(n).kind = "close-handle"
        /\ CloseHandle(n).number = n
    BY OperationTypes DEF CloseHandle
  <2>2. /\ queue' = Append(queue, CloseHandle(n)) /\ UNCHANGED <<step, runtime, loads>>
        /\ runtime[n] # "none"
    BY <1>6 DEF CloseHandleOf, Enqueue
  <2> QED BY <1>3, <2>1, <2>2
<1>7. ASSUME NEW n \in Number, ReloadTimer(n) PROVE InOrder' /\ StepOK'
  <2>1. CASE watch[n].reloading
    BY <1>1, <1>7, <2>1 DEF ReloadTimer
  <2>2. CASE ~watch[n].reloading
    <3>1. /\ queue' = Append(queue, Load(loads + 1, watch[n].root, FALSE, n))
          /\ loads < MaxLoads /\ loads' = loads + 1 /\ UNCHANGED <<step, runtime>>
      BY <1>7, <2>2 DEF ReloadTimer, Enqueue
    <3>2. watch[n].root \in Root /\ n \in 0..MaxLoads
      BY Bounds DEF TypeOK, Watch
    <3> QED BY <1>2, <3>1, <3>2
  <2> QED BY <2>1, <2>2
<1>8. ASSUME NEW root \in Root, ChangePointer(root) PROVE InOrder' /\ StepOK'
  BY <1>1, <1>8 DEF ChangePointer
<1>9. CASE ReadPointer
  <2>1. queue # <<>> /\ queue[1].kind = "load" /\ step = "idle" /\ step' = "read"
    BY <1>9, <1>h DEF ReadPointer, InProgress
  <2>2. StepOK'
    BY <1>9, <2>1 DEF ReadPointer, StepOK
  <2>3. InOrder'
    BY <1>9, <2>1 DEF ReadPointer, InOrder
  <2> QED BY <2>2, <2>3
<1>10. queue # <<>> => Chain(Tail(queue), loads, runtime, FALSE)
  BY <1>q, TailChain DEF InOrder
<1>11. ASSUME queue # <<>>, queue' = Tail(queue), step' = "idle", UNCHANGED <<runtime, loads>>
       PROVE  InOrder' /\ StepOK'
  BY <1>10, <1>11 DEF InOrder, StepOK
<1>12. ASSUME NEW at, NEW failed \in BOOLEAN, InProgress("load", at),
              Continue(Head(queue), failed), step' = "idle", runtime' = runtime
       PROVE  InOrder' /\ StepOK'
  <2> DEFINE op == Head(queue)
  <2>1. queue # <<>> /\ op \in Operations /\ Tail(queue) \in Seq(Operations)
    BY <1>q, <1>12 DEF InProgress
  <2>2. op.root \in Root /\ op.by \in 0..MaxLoads
    BY <2>1, OperationFields
  <2>3. CASE op.by # 0 /\ watch[op.by].pending /\ loads < MaxLoads
    <3> DEFINE next == Load(loads + 1, op.root, FALSE, op.by)
    <3>1. next \in Operations /\ next.kind = "load" /\ next.number = loads + 1
      BY <2>2, <2>3, OperationTypes, Bounds DEF Load, TypeOK
    <3>2. queue' = Append(Tail(queue), next) /\ loads' = loads + 1
      BY <1>12, <2>3 DEF Continue, Enqueue
    <3> HIDE DEF next, op
    <3>3. Chain(Append(Tail(queue), next), loads + 1, runtime, FALSE)
      BY <1>q, <1>10, <2>1, <3>1, LoadChain
    <3> QED BY <1>12, <3>2, <3>3 DEF InOrder, StepOK
  <2>4. CASE ~(op.by # 0 /\ watch[op.by].pending /\ loads < MaxLoads)
    BY <1>11, <1>12, <2>1, <2>4 DEF Continue
  <2> QED BY <2>3, <2>4
<1>13. CASE Activate
  <2> DEFINE m == Head(queue).number
  <2>1. queue # <<>> /\ queue[1].kind = "load" /\ m = queue[1].number /\ m \in Number
    BY <1>13, <1>f, <1>h DEF Activate, InProgress
  <2>2. UNCHANGED <<queue, loads>> /\ step = "read" /\ step' = "swapped"
    BY <1>13 DEF Activate, InProgress
  <2>3. \A n \in Number : runtime'[n] # "none" <=> runtime[n] # "none" \/ n = m
    <3>1. runtime' = [n \in Number |-> IF n = m THEN "open"
                                       ELSE IF n = active THEN "closed" ELSE runtime[n]]
      BY <1>13 DEF Activate
    <3>2. active \in Number => runtime[active] = "open"
      BY DEF OnlyTheActiveRuns
    <3> QED BY <3>1, <3>2
  <2> HIDE DEF m
  <2>4. Chain(queue, loads, runtime, FALSE)
    BY <2>2 DEF InOrder
  <2>5. Chain(queue, loads, runtime', TRUE)
    <3>1. \A i \in 1..Len(queue) : i # 1 /\ queue[i].kind = "load" => m < queue[i].number
      BY <1>h, <2>1, <2>4 DEF Chain
    <3>2. \A n \in Number, i \in 1..Len(queue) :
            runtime'[n] # "none" /\ queue[i].kind = "load" =>
              n < queue[i].number \/ (i = 1 /\ n = queue[i].number)
      BY <2>1, <2>3, <2>4, <3>1 DEF Chain
    <3>3. \A n \in Number : runtime'[n] # "none" => n <= loads
      BY <1>h, <2>1, <2>3, <2>4 DEF Chain
    <3>4. \A i \in 1..Len(queue) :
            queue[i].kind = "close-handle" => runtime'[queue[i].number] # "none"
      BY <1>f, <2>3, <2>4 DEF Chain
    <3> QED BY <2>4, <3>2, <3>3, <3>4 DEF Chain
  <2>6. (step = "swapped")' = TRUE
    BY <2>2
  <2> QED BY <2>1, <2>2, <2>5, <2>6 DEF InOrder, StepOK
<1>14. ASSUME UNCHANGED <<queue, loads>>, queue # <<>>, queue[1].kind # "load",
              step = "idle", step' = "closing",
              \A n \in Number : runtime[n] = "none" <=> runtime'[n] = "none"
       PROVE  InOrder' /\ StepOK'
  <2>1. Chain(queue, loads, runtime', FALSE)
    BY <1>f, <1>14, SameRuntimes DEF InOrder
  <2> QED BY <1>14, <2>1 DEF InOrder, StepOK
<1>15. CASE RunCloseActive
  <2>1. \A n \in Number : runtime[n] = "none" <=> runtime'[n] = "none"
    BY <1>15 DEF RunCloseActive, OnlyTheActiveRuns
  <2> QED BY <1>14, <1>15, <1>h, <2>1 DEF RunCloseActive, InProgress
<1>16. CASE RunCloseHandle
  <2>1. queue # <<>> /\ queue[1].kind = "close-handle" /\ Head(queue) = queue[1]
    BY <1>16, <1>h DEF RunCloseHandle, InProgress
  <2>2. queue[1].number \in Number /\ runtime[queue[1].number] # "none"
    BY <1>f, <1>h, <2>1 DEF InOrder, Chain
  <2>3. \A n \in Number : runtime[n] = "none" <=> runtime'[n] = "none"
    BY <1>16, <2>1, <2>2 DEF RunCloseHandle, TypeOK
  <2> QED BY <1>14, <1>16, <2>1, <2>3 DEF RunCloseHandle, InProgress
<1>17. CASE LoadFails
  BY <1>12, <1>17 DEF LoadFails
<1>18. CASE LoadFinishes
  BY <1>12, <1>18 DEF LoadFinishes
<1>19. CASE CloseFinishes
  BY <1>11, <1>19 DEF CloseFinishes
<1>20. CASE UNCHANGED vars
  BY <1>1, <1>20 DEF vars
<1> QED
  BY <1>4, <1>5, <1>6, <1>7, <1>8, <1>9, <1>13, <1>15, <1>16, <1>17, <1>18, <1>19,
     <1>20 DEF Next, Operation

-----------------------------------------------------------------------------
(* Theorems                                                                *)

\* Every reachable state of the lifecycle satisfies the inductive invariant.
THEOREM Invariance == Spec => []IInv
<1>1. Init => IInv
  BY Initially
<1>2. IInv /\ [Next]_vars => IInv'
  BY TypeStep, RuntimesStep, WatchersStep, OrderStep DEF IInv
<1> QED BY <1>1, <1>2, PTL DEF Spec

\* Every variable holds a value of its kind, for every number of loads, closes
\* and pointer changes and every set of roots and releases.
THEOREM TypeCorrect == Spec => []TypeOK
<1>1. IInv => TypeOK
  BY DEF IInv
<1> QED BY <1>1, Invariance, PTL

\* The worker of the active artifact runs and no other one does, however loads,
\* reloads and closes interleave (activateArtifact, closeSemaArtifact).
THEOREM OneWorker == Spec => []OnlyTheActiveRuns
<1>1. IInv => OnlyTheActiveRuns
  BY DEF IInv
<1> QED BY <1>1, Invariance, PTL

\* Every open file watcher is the one stopWatching would close.
THEOREM WatchersReachable == Spec => []NoStrayWatcher
<1>1. IInv => NoStrayWatcher
  BY DEF IInv
<1> QED BY <1>1, Invariance, PTL

\* Loads activate in the order they were asked for (enqueueLifecycle).
THEOREM LoadsInOrder == Spec => LastLoadWins
<1> DEFINE Wins == \A n \in Number :
             active' # active /\ active' # 0 /\ runtime[n] # "none" => n < active'
<1>1. IInv /\ [Next]_vars => [Wins]_vars
  <2> SUFFICES ASSUME IInv, [Next]_vars PROVE Wins
    OBVIOUS
  <2>1. CASE Activate
    <3>1. /\ queue # <<>> /\ Head(queue) = queue[1] /\ 1 \in 1..Len(queue)
          /\ queue[1].kind = "load" /\ step = "read" /\ active' = queue[1].number
      BY <2>1 DEF Activate, InProgress, IInv, TypeOK
    <3> QED BY <3>1 DEF IInv, InOrder, Chain
  <2>2. ASSUME active' = active \/ active' = 0 PROVE Wins
    BY <2>2
  <2> HIDE DEF Wins
  <2> QED
    BY <2>1, <2>2
    DEF Next, Operation, vars, LoadArtifact, CloseArtifact, CloseHandleOf, ReloadTimer,
        ChangePointer, ReadPointer, LoadFails, LoadFinishes, RunCloseActive,
        RunCloseHandle, CloseFinishes
<1> QED BY <1>1, Invariance, PTL DEF Spec, LastLoadWins
=============================================================================
