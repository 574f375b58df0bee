------------------------- MODULE ArtifactLifecycle -------------------------
(***************************************************************************)
(* The life of the active artifact in one application process: loads,      *)
(* watched reloads, closes of a handle and of the active artifact.  Every  *)
(* load and close is an asynchronous operation on one promise chain        *)
(* (enqueueLifecycle), while timers, file events and the application's     *)
(* calls run between their awaits.                                         *)
(*                                                                         *)
(* An operation has a number; the artifact a load activates, its handle,   *)
(* its inference runtime and the watcher started for it bear that number.  *)
(* A release is a model value and current.json of a root is the release it *)
(* names.                                                                  *)
(***************************************************************************)
EXTENDS Naturals, Sequences, FiniteSets

CONSTANTS
  Root,          \* artifact roots
  Release,       \* what current.json can name
  None,          \* no release
  MaxLoads,      \* bound: load operations, by the application or a watcher
  MaxCloses,     \* bound: closes asked for
  MaxChanges     \* bound: rewrites of current.json

ASSUME LifecycleAssumption ==
  /\ Root # {}
  /\ None \notin Release
  /\ MaxLoads \in Nat
  /\ MaxCloses \in Nat
  /\ MaxChanges \in Nat

VARIABLES
  current,       \* current[root]: the release its current.json names
  queue,         \* the lifecycle chain, first the operation in progress
  step,          \* how far the operation in progress is
  active,        \* activeArtifact, 0 when undefined
  runtime,       \* runtime[n]: "none", "open" or "closed"
  handleClosed,  \* handles whose close was called
  watcher,       \* the module's current watcher, 0 when undefined
  watch,         \* watch[n]: the closure startWatching made for load n
  tried,         \* tried[root]: the release the last load of root read
  shut,          \* closeSemaArtifact was called after the last loadSemaArtifact
  loads, closes, changes   \* counted against the bounds

vars == <<current, queue, step, active, runtime, handleClosed,
          watcher, watch, tried, shut, loads, closes, changes>>

Number == 1..MaxLoads
AnyRoot == CHOOSE r \in Root : TRUE
NoWatch == [state |-> "none", root |-> AnyRoot, due |-> FALSE,
            reloading |-> FALSE, pending |-> FALSE]

\* An operation: a load (by the application, by = 0, or by watcher `by`), the
\* close of the active artifact, or the close of handle `number`.
Load(number, root, watching, by) ==
  [kind |-> "load", number |-> number, root |-> root, watching |-> watching,
   by |-> by]
CloseActive ==
  [kind |-> "close-active", number |-> 0, root |-> AnyRoot,
   watching |-> FALSE, by |-> 0]
CloseHandle(number) ==
  [kind |-> "close-handle", number |-> number, root |-> AnyRoot,
   watching |-> FALSE, by |-> 0]

\* A bug: an operation overtakes those that wait.
EnqueueFirst(chain, op) ==
  IF chain = <<>> THEN <<op>> ELSE <<Head(chain), op>> \o Tail(chain)

\* enqueueLifecycle: an operation starts when the one before it settled.
Enqueue(chain, op) == Append(chain, op)

Init ==
  /\ current \in [Root -> Release]
  /\ queue = <<>>
  /\ step = "idle"
  /\ active = 0
  /\ runtime = [n \in Number |-> "none"]
  /\ handleClosed = {}
  /\ watcher = 0
  /\ watch = [n \in Number |-> NoWatch]
  /\ tried = [r \in Root |-> None]
  /\ shut = FALSE
  /\ loads = 0
  /\ closes = 0
  /\ changes = 0

-----------------------------------------------------------------------------
(* The application and the file system                                     *)

\* loadSemaArtifact up to its first await: activateArtifact enqueues the load.
LoadArtifact ==
  /\ loads < MaxLoads
  /\ \E root \in Root, watching \in BOOLEAN :
       queue' = Enqueue(queue, Load(loads + 1, root, watching, 0))
  /\ loads' = loads + 1
  /\ shut' = FALSE
  /\ UNCHANGED <<current, step, active, runtime, handleClosed,
                 watcher, watch, tried, closes, changes>>

\* A bug: stopWatching forgets the watcher without closing it.
NotStopped == watch

\* stopWatching: the file watcher and its debounce timer go; the closure's
\* `reloading` and `pending` stay as they are.
Stopped ==
  IF watcher = 0 THEN watch
  ELSE [watch EXCEPT ![watcher].state = "closed", ![watcher].due = FALSE]

\* closeSemaArtifact.
CloseArtifact ==
  /\ closes < MaxCloses
  /\ watch' = Stopped
  /\ watcher' = 0
  /\ queue' = Enqueue(queue, CloseActive)
  /\ closes' = closes + 1
  /\ shut' = TRUE
  /\ UNCHANGED <<current, step, active, runtime, handleClosed,
                 tried, loads, changes>>

\* close of a handle, the one of a watched reload included.
CloseHandleOf(n) ==
  /\ closes < MaxCloses
  /\ runtime[n] # "none"
  /\ n \notin handleClosed
  /\ queue # <<>> => Head(queue).number # n
  /\ handleClosed' = handleClosed \cup {n}
  /\ IF active = n THEN watch' = Stopped /\ watcher' = 0
                   ELSE UNCHANGED <<watch, watcher>>
  /\ queue' = Enqueue(queue, CloseHandle(n))
  /\ closes' = closes + 1
  /\ UNCHANGED <<current, step, active, runtime, tried, shut,
                 loads, changes>>

\* A publish, promote or rollback rewrites current.json; an open watcher of the
\* root gets the event, and its debounce timer is set.
ChangePointer(root) ==
  /\ changes < MaxChanges
  /\ changes' = changes + 1
  /\ \E release \in Release \ {current[root]} :
       current' = [current EXCEPT ![root] = release]
  /\ watch' = [n \in Number |->
       IF watch[n].state = "open" /\ watch[n].root = root
       THEN [watch[n] EXCEPT !.due = TRUE] ELSE watch[n]]
  /\ UNCHANGED <<queue, step, active, runtime, handleClosed,
                 watcher, tried, shut, loads, closes>>

\* A bug: a change during a reload is dropped.
ReloadTimerForgetting(n) ==
  /\ watch[n].due
  /\ loads < MaxLoads
  /\ IF watch[n].reloading
     THEN /\ watch' = [watch EXCEPT ![n].due = FALSE]
          /\ UNCHANGED <<queue, loads>>
     ELSE /\ watch' = [watch EXCEPT ![n].due = FALSE, ![n].reloading = TRUE]
          /\ queue' = Enqueue(queue, Load(loads + 1, watch[n].root, FALSE, n))
          /\ loads' = loads + 1
  /\ UNCHANGED <<current, step, active, runtime, handleClosed,
                 watcher, tried, shut, closes, changes>>

\* The timer of watcher n fires: reload.
ReloadTimer(n) ==
  /\ watch[n].due
  /\ loads < MaxLoads
  /\ IF watch[n].reloading
     THEN /\ watch' = [watch EXCEPT ![n].due = FALSE, ![n].pending = TRUE]
          /\ UNCHANGED <<queue, loads>>
     ELSE /\ watch' = [watch EXCEPT ![n].due = FALSE, ![n].reloading = TRUE]
          /\ queue' = Enqueue(queue, Load(loads + 1, watch[n].root, FALSE, n))
          /\ loads' = loads + 1
  /\ UNCHANGED <<current, step, active, runtime, handleClosed,
                 watcher, tried, shut, closes, changes>>

-----------------------------------------------------------------------------
(* The operation in progress                                               *)

\* What follows the promise of load `op`, before the next operation starts.
\* The application's load stops the old watcher and starts its own; a reload
\* runs again when a change came meanwhile.  A failed load of the application
\* touches no watcher.
Continue(op, failed) ==
  IF op.by = 0
  THEN /\ queue' = Tail(queue)
       /\ UNCHANGED loads
       /\ IF failed
          THEN UNCHANGED <<watcher, watch>>
          ELSE IF op.watching
          THEN /\ watcher' = op.number
               /\ watch' = [Stopped EXCEPT ![op.number] =
                              [NoWatch EXCEPT !.state = "open", !.root = op.root]]
          ELSE watcher' = 0 /\ watch' = Stopped
  ELSE /\ UNCHANGED watcher
       /\ IF watch[op.by].pending /\ loads < MaxLoads
          THEN /\ watch' = [watch EXCEPT ![op.by].pending = FALSE]
               /\ queue' = Enqueue(Tail(queue),
                                   Load(loads + 1, op.root, FALSE, op.by))
               /\ loads' = loads + 1
          ELSE /\ watch' = [watch EXCEPT ![op.by].reloading = FALSE]
               /\ queue' = Tail(queue)
               /\ UNCHANGED loads

InProgress(kind, at) == queue # <<>> /\ Head(queue).kind = kind /\ step = at

\* loadArtifact selects the release current.json names.
ReadPointer ==
  /\ InProgress("load", "idle")
  /\ LET root == Head(queue).root IN
     tried' = [tried EXCEPT ![root] = current[root]]
  /\ step' = "read"
  /\ UNCHANGED <<current, queue, active, runtime, handleClosed, watcher,
                 watch, shut, loads, closes, changes>>

\* A bug: a rejected operation breaks the chain.
LoadFailsBreakingTheChain ==
  /\ InProgress("load", "read")
  /\ step' = "rejected"
  /\ UNCHANGED <<current, queue, active, runtime, handleClosed,
                 watcher, watch, tried, shut, loads, closes, changes>>

\* The release does not load, a fallback is missing or the worker does not start.
LoadFails ==
  /\ InProgress("load", "read")
  /\ step' = "idle"
  /\ Continue(Head(queue), TRUE)
  /\ UNCHANGED <<current, active, runtime, handleClosed, tried, shut,
                 closes, changes>>

\* A bug: the predecessor's runtime is left running.
ActivateLeavingPrevious ==
  LET op == Head(queue) IN
  /\ InProgress("load", "read")
  /\ active' = op.number
  /\ runtime' = [runtime EXCEPT ![op.number] = "open"]
  /\ step' = "swapped"
  /\ UNCHANGED <<current, queue, handleClosed, watcher, watch, tried, shut,
                 loads, closes, changes>>

\* The runtime is up: the artifact becomes the active one and the close of its
\* predecessor's runtime begins, in one turn.
Activate ==
  LET op == Head(queue) IN
  /\ InProgress("load", "read")
  /\ active' = op.number
  /\ runtime' = [n \in Number |-> IF n = op.number THEN "open"
                                  ELSE IF n = active THEN "closed" ELSE runtime[n]]
  /\ step' = "swapped"
  /\ UNCHANGED <<current, queue, handleClosed, watcher, watch, tried, shut,
                 loads, closes, changes>>

\* The predecessor's runtime is closed and the load resolves to a handle.
LoadFinishes ==
  /\ InProgress("load", "swapped")
  /\ step' = "idle"
  /\ Continue(Head(queue), FALSE)
  /\ UNCHANGED <<current, active, runtime, handleClosed, tried, shut,
                 closes, changes>>

\* closeSemaArtifact's operation clears the active artifact and closes its
\* runtime.
RunCloseActive ==
  /\ InProgress("close-active", "idle")
  /\ active' = 0
  /\ runtime' = [n \in Number |-> IF n = active THEN "closed" ELSE runtime[n]]
  /\ step' = "closing"
  /\ UNCHANGED <<current, queue, handleClosed, watcher, watch,
                 tried, shut, loads, closes, changes>>

\* A handle's operation clears the active artifact only if it is its own.
RunCloseHandle ==
  /\ InProgress("close-handle", "idle")
  /\ active' = IF active = Head(queue).number THEN 0 ELSE active
  /\ runtime' = [runtime EXCEPT ![Head(queue).number] = "closed"]
  /\ step' = "closing"
  /\ UNCHANGED <<current, queue, handleClosed, watcher, watch,
                 tried, shut, loads, closes, changes>>

CloseFinishes ==
  /\ queue # <<>>
  /\ step = "closing"
  /\ step' = "idle"
  /\ queue' = Tail(queue)
  /\ UNCHANGED <<current, active, runtime, handleClosed, watcher,
                 watch, tried, shut, loads, closes, changes>>

-----------------------------------------------------------------------------
Operation ==
  \/ ReadPointer \/ LoadFails \/ Activate \/ LoadFinishes
  \/ RunCloseActive \/ RunCloseHandle \/ CloseFinishes

Next ==
  \/ LoadArtifact \/ CloseArtifact
  \/ \E n \in Number : CloseHandleOf(n) \/ ReloadTimer(n)
  \/ \E root \in Root : ChangePointer(root)
  \/ Operation

\* An operation ends: loading is bounded work, a worker starts or fails within
\* its initialization timeout and closes within five seconds.  Timers fire.
Fairness ==
  /\ WF_vars(Operation)
  /\ \A n \in Number : WF_vars(ReloadTimer(n))

Spec == Init /\ [][Next]_vars /\ Fairness

-----------------------------------------------------------------------------
(* Properties                                                              *)

Operations ==
  [kind : {"load"}, number : Number, root : Root, watching : BOOLEAN,
   by : 0..MaxLoads]
  \cup [kind : {"close-active"}, number : {0}, root : Root, watching : {FALSE},
        by : {0}]
  \cup [kind : {"close-handle"}, number : Number, root : Root,
        watching : {FALSE}, by : {0}]

Watch ==
  [state : {"none", "open", "closed"}, root : Root, due : BOOLEAN,
   reloading : BOOLEAN, pending : BOOLEAN]

\* Every variable holds a value of its kind.
TypeOK ==
  /\ current \in [Root -> Release]
  /\ queue \in Seq(Operations)
  /\ step \in {"idle", "read", "swapped", "closing"}
  /\ active \in 0..MaxLoads
  /\ runtime \in [Number -> {"none", "open", "closed"}]
  /\ handleClosed \subseteq Number
  /\ watcher \in 0..MaxLoads
  /\ watch \in [Number -> Watch]
  /\ tried \in [Root -> Release \cup {None}]
  /\ shut \in BOOLEAN
  /\ loads \in 0..MaxLoads /\ closes \in 0..MaxCloses
  /\ changes \in 0..MaxChanges

\* However loads, reloads and closes interleave, the active artifact's worker
\* is running, and no other worker is left running behind it (activateArtifact
\* and the two closes).
OnlyTheActiveRuns == \A n \in Number : runtime[n] = "open" <=> n = active

\* No file watcher is left open that stopWatching can no longer reach.
NoStrayWatcher == \A n \in Number : watch[n].state = "open" => watcher = n

\* Loads take effect in the order they were asked for, by the application or
\* by a watcher: a slow load never replaces the artifact of a later one
\* (enqueueLifecycle).
LastLoadWins ==
  [][\A n \in Number : active' # active /\ active' # 0 /\ runtime[n] # "none"
       => n < active']_vars

\* A pointer change an open watcher saw, also during a reload, ends in a load
\* of what the pointer then names, unless the watcher is stopped (startWatching;
\* no reload starts past MaxLoads).
ChangeIsLoaded ==
  \A n \in Number :
    watch[n].state = "open" /\ (watch[n].due \/ watch[n].pending) ~>
      \/ tried[watch[n].root] = current[watch[n].root]
      \/ watch[n].state = "closed"
      \/ loads = MaxLoads /\ queue = <<>>

\* The worker of a closed handle ends, whatever was queued before the close and
\* whether or not it failed.
HandleCloseEnds == \A n \in Number : n \in handleClosed ~> runtime[n] = "closed"

\* What the documentation says, and the code does not do.

\* runtime/README.md:41 "`closeSemaArtifact()` stops the watcher.": when the
\* application closed the artifact, loaded nothing since, and the close is
\* done, no artifact is active.
ClosedStaysClosed ==
  shut /\ (\A i \in 1..Len(queue) : queue[i].kind # "close-active") => active = 0
=============================================================================
