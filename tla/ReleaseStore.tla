---------------------------- MODULE ReleaseStore ----------------------------
(***************************************************************************)
(* The artifact root on disk, <root>/current.json and <root>/releases/, as *)
(* separate processes change it without a lock: trainers that export and   *)
(* publish a release, `releases rollback` and `releases promote` that      *)
(* switch the pointer, and `releases prune` that deletes releases.  Each   *)
(* system call a process makes on the root is one step, and a process may  *)
(* be killed between any two of them.                                      *)
(*                                                                         *)
(* A digest is a number and a larger one is a newer release               *)
(* (compareNewestFirst).  A directory is "absent", "part" of a release     *)
(* (being written or being deleted) or a "whole" release.                  *)
(***************************************************************************)
EXTENDS Naturals, FiniteSets

CONSTANTS
  Trainer, Switcher, Pruner,   \* the processes, each runs one command
  Newest,        \* digests are 1..Newest
  Present,       \* the releases on disk at first
  Target,        \* Target[t]: the digest trainer t exports
  Keep           \* --keep of every prune, 0 for one with --older-than only

Digest == 1..Newest
NoDigest == 0
Process == Trainer \cup Switcher \cup Pruner

ASSUME StoreAssumption ==
  /\ Newest \in Nat
  /\ Present \subseteq Digest
  /\ Target \in [Trainer -> Digest]
  /\ Keep \in Nat
  /\ Trainer \cap Switcher = {}
  /\ (Trainer \cup Switcher) \cap Pruner = {}

VARIABLES
  pointer,       \* the digest current.json names, or NoDigest
  release,       \* release[d]: the directory releases/sha256-d
  staging,       \* staging[t]: the directory .staging-* of trainer t
  pruning,       \* pruning[p]: the directory .pruning-* of prune p
  pc,            \* where each process is
  goal,          \* the digest a switch or prune is at, or the pointer it read
  todo,          \* a prune's candidates still to remove
  found,         \* leftovers of prunes a prune has listed and not deleted
  overlapped     \* history: kinds of command that ran while a prune ran

disk == <<pointer, release, staging, pruning>>
vars == <<disk, pc, goal, todo, found, overlapped>>

Directory == {"absent", "part", "whole"}
Ended == {"done", "failed", "killed"}
Running(p) == pc[p] \notin Ended \cup {"idle"}

Init ==
  /\ pointer \in Present \cup {NoDigest}
  /\ release = [d \in Digest |-> IF d \in Present THEN "whole" ELSE "absent"]
  /\ staging = [t \in Trainer |-> "absent"]
  /\ pruning = [p \in Pruner |-> "absent"]
  /\ pc = [p \in Process |-> "idle"]
  /\ goal = [p \in Switcher \cup Pruner |-> NoDigest]
  /\ todo = [p \in Pruner |-> {}]
  /\ found = [p \in Pruner |-> {}]
  /\ overlapped = {}

Goto(p, label) == pc' = [pc EXCEPT ![p] = label]

-----------------------------------------------------------------------------
(* A trainer: export_multi_function_artifact                               *)

ExportStages(t) ==
  /\ pc[t] = "idle"
  /\ staging' = [staging EXCEPT ![t] = "part"]
  /\ Goto(t, "staged")
  /\ UNCHANGED <<pointer, release, pruning, goal, todo, found, overlapped>>

\* Every resource and manifest.json is written and fsynced.
ExportWrites(t) ==
  /\ pc[t] = "staged"
  /\ staging' = [staging EXCEPT ![t] = "whole"]
  /\ Goto(t, "written")
  /\ UNCHANGED <<pointer, release, pruning, goal, todo, found, overlapped>>

\* A bug: the release is published before it is written.
ExportPublishesEarly(t) ==
  /\ pc[t] \in {"staged", "written"}
  /\ release[Target[t]] = "absent"
  /\ release' = [release EXCEPT ![Target[t]] = staging[t]]
  /\ staging' = [staging EXCEPT ![t] = "absent"]
  /\ Goto(t, "published")
  /\ UNCHANGED <<pointer, pruning, goal, todo, found, overlapped>>

\* _publish_release renames without replacing.
ExportPublishes(t) ==
  /\ pc[t] = "written"
  /\ IF release[Target[t]] = "absent"
     THEN /\ release' = [release EXCEPT ![Target[t]] = staging[t]]
          /\ staging' = [staging EXCEPT ![t] = "absent"]
          /\ Goto(t, "published")
     ELSE /\ Goto(t, "exists")
          /\ UNCHANGED <<release, staging>>
  /\ UNCHANGED <<pointer, pruning, goal, todo, found, overlapped>>

\* A bug: the staging directory stays when the release is already there.
ExportVerifiesOnly(t) ==
  /\ pc[t] = "exists"
  /\ Goto(t, IF release[Target[t]] = "whole" THEN "published" ELSE "failed")
  /\ UNCHANGED <<disk, goal, todo, found, overlapped>>

\* _verify_existing_release, then _remove_owned_staging in either case.
ExportVerifies(t) ==
  /\ pc[t] = "exists"
  /\ staging' = [staging EXCEPT ![t] = "absent"]
  /\ Goto(t, IF release[Target[t]] = "whole" THEN "published" ELSE "failed")
  /\ UNCHANGED <<pointer, release, pruning, goal, todo, found, overlapped>>

\* A bug: the pointer is written before the release is published.
ExportPointsEarly(t) ==
  /\ pc[t] \in {"written", "published"}
  /\ pointer' = Target[t]
  /\ UNCHANGED <<release, staging, pruning, pc, goal, todo, found, overlapped>>

\* _publish_pointer, unless the configuration says not to.
ExportPoints(t) ==
  /\ pc[t] = "published"
  /\ pointer' \in {Target[t], pointer}
  /\ Goto(t, "done")
  /\ UNCHANGED <<release, staging, pruning, goal, todo, found, overlapped>>

\* Any error; the exporter removes the staging directory it still owns.
ExportFails(t) ==
  /\ Running(t)
  /\ staging' = [staging EXCEPT ![t] = "absent"]
  /\ Goto(t, "failed")
  /\ UNCHANGED <<pointer, release, pruning, goal, todo, found, overlapped>>

-----------------------------------------------------------------------------
(* releases rollback and releases promote: switchRelease                   *)

SwitchReads(s) ==
  /\ pc[s] = "idle"
  /\ goal' = [goal EXCEPT ![s] = pointer]
  /\ Goto(s, "read")
  /\ overlapped' =
       IF \E p \in Pruner : Running(p) THEN overlapped \cup {"switch"}
       ELSE overlapped
  /\ UNCHANGED <<disk, todo, found>>

\* scanReleases and the choice of a target other than the current release: a
\* named one, or the one an unnamed rollback finds, which is one of those.
SwitchChooses(s) ==
  /\ pc[s] = "read"
  /\ \E d \in Digest \ {goal[s]} :
       /\ release[d] # "absent"
       /\ goal' = [goal EXCEPT ![s] = d]
  /\ Goto(s, "chosen")
  /\ UNCHANGED <<disk, todo, found, overlapped>>

SwitchVerifies(s) ==
  /\ pc[s] = "chosen"
  /\ Goto(s, IF release[goal[s]] = "whole" THEN "verified" ELSE "failed")
  /\ UNCHANGED <<disk, goal, todo, found, overlapped>>

\* A bug: the release after the verified one is pointed at.
SwitchPointsAstray(s) ==
  /\ pc[s] = "verified"
  /\ pointer' = goal[s] + 1
  /\ Goto(s, "done")
  /\ UNCHANGED <<release, staging, pruning, goal, todo, found, overlapped>>

\* writePointer: a temporary file is renamed over current.json.
SwitchPoints(s) ==
  /\ pc[s] = "verified"
  /\ pointer' = goal[s]
  /\ Goto(s, "done")
  /\ UNCHANGED <<release, staging, pruning, goal, todo, found, overlapped>>

-----------------------------------------------------------------------------
(* releases prune: pruneReleases                                           *)

PruneReads(p) ==
  /\ pc[p] = "idle"
  /\ goal' = [goal EXCEPT ![p] = pointer]
  /\ Goto(p, IF pointer = NoDigest THEN "failed" ELSE "read")
  /\ overlapped' = overlapped
       \cup (IF \E s \in Switcher : Running(s) THEN {"switch"} ELSE {})
       \cup (IF \E q \in Pruner : Running(q) THEN {"prune"} ELSE {})
  /\ UNCHANGED <<disk, todo, found>>

\* A bug: the oldest releases are taken for the newest.
OldestOf(valid) == {d \in valid : Cardinality({e \in valid : e < d}) < Keep}

\* The --keep newest of the valid releases.
NewestOf(valid) == {d \in valid : Cardinality({e \in valid : e > d}) < Keep}

\* scanReleases and the candidates: valid, not current, not among the newest
\* and older than the cutoff of --older-than.  A partly deleted directory is
\* valid as long as its manifest is there.
PruneScans(p) ==
  /\ pc[p] = "read"
  /\ \E broken \in SUBSET {d \in Digest : release[d] = "part"}, cutoff \in 1..Newest + 1 :
       LET valid == {d \in Digest : release[d] # "absent"} \ broken IN
       IF goal[p] \in valid
       THEN /\ Goto(p, "next")
            /\ todo' = [todo EXCEPT ![p] =
                 {d \in valid \ (NewestOf(valid) \cup {goal[p]}) : d < cutoff}]
       ELSE Goto(p, "failed") /\ UNCHANGED todo
  /\ UNCHANGED <<disk, goal, found, overlapped>>

\* The pointer is read again before the next candidate, newest first.
PruneChecks(p) ==
  /\ pc[p] = "next"
  /\ \E d \in todo[p] :
       /\ \A e \in todo[p] : e <= d
       /\ goal' = [goal EXCEPT ![p] = d]
       /\ IF pointer = NoDigest THEN Goto(p, "failed") /\ UNCHANGED todo
          ELSE IF pointer = d
          THEN todo' = [todo EXCEPT ![p] = @ \ {d}] /\ UNCHANGED pc
          ELSE Goto(p, "checked") /\ UNCHANGED todo
  /\ UNCHANGED <<disk, found, overlapped>>

PruneRenames(p) ==
  /\ pc[p] = "checked"
  /\ IF release[goal[p]] = "absent" THEN Goto(p, "failed") /\ UNCHANGED disk
     ELSE /\ pruning' = [pruning EXCEPT ![p] = release[goal[p]]]
          /\ release' = [release EXCEPT ![goal[p]] = "absent"]
          /\ Goto(p, "renamed")
          /\ UNCHANGED <<pointer, staging>>
  /\ UNCHANGED <<goal, todo, found, overlapped>>

\* The pointer is read once more after the rename.
PruneRechecks(p) ==
  /\ pc[p] = "renamed"
  /\ Goto(p, IF pointer \in {goal[p], NoDigest} THEN "restoring" ELSE "removing")
  /\ UNCHANGED <<disk, goal, todo, found, overlapped>>

\* The release is renamed back, unless it was published again or its directory
\* is gone.
PruneRestores(p) ==
  /\ pc[p] = "restoring"
  /\ IF pruning[p] # "absent" /\ release[goal[p]] = "absent"
     THEN /\ release' = [release EXCEPT ![goal[p]] = pruning[p]]
          /\ pruning' = [pruning EXCEPT ![p] = "absent"]
          /\ todo' = [todo EXCEPT ![p] = @ \ {goal[p]}]
          /\ Goto(p, "next")
          /\ UNCHANGED <<pointer, staging>>
     ELSE Goto(p, "failed") /\ UNCHANGED <<disk, todo>>
  /\ UNCHANGED <<goal, found, overlapped>>

\* rm -r: first some of the directory's files are gone, then all of it.
PruneRemoves(p) ==
  /\ pc[p] = "removing"
  /\ IF pruning[p] = "whole"
     THEN /\ pruning' = [pruning EXCEPT ![p] = "part"]
          /\ UNCHANGED <<pc, todo>>
     ELSE /\ pruning' = [pruning EXCEPT ![p] = "absent"]
          /\ todo' = [todo EXCEPT ![p] = @ \ {goal[p]}]
          /\ Goto(p, "next")
  /\ UNCHANGED <<pointer, release, staging, goal, found, overlapped>>

\* A bug: a prune looks for its own leftovers only.
PruneListsItsOwn(p) ==
  /\ pc[p] = "next"
  /\ todo[p] = {}
  /\ found' = [found EXCEPT ![p] = {q \in {p} : pruning[q] # "absent"}]
  /\ Goto(p, "sweeping")
  /\ UNCHANGED <<disk, goal, todo, overlapped>>

\* pruningLeftovers: whatever bears the prefix, the directories of prunes that
\* are still running included.
PruneLists(p) ==
  /\ pc[p] = "next"
  /\ todo[p] = {}
  /\ found' = [found EXCEPT ![p] = {q \in Pruner : pruning[q] # "absent"}]
  /\ Goto(p, "sweeping")
  /\ UNCHANGED <<disk, goal, todo, overlapped>>

\* A leftover that vanished fails treeSize, or is passed over once rm is at it.
PruneSweeps(p) ==
  /\ pc[p] = "sweeping"
  /\ \E q \in found[p] :
       /\ pruning' = [pruning EXCEPT ![q] = IF @ = "whole" THEN "part" ELSE "absent"]
       /\ found' = [found EXCEPT ![p] = IF pruning[q] = "whole" THEN @ ELSE @ \ {q}]
       /\ pruning[q] # "absent" => UNCHANGED pc
       /\ pruning[q] = "absent" => \E label \in {"sweeping", "failed"} : Goto(p, label)
  /\ UNCHANGED <<pointer, release, staging, goal, todo, overlapped>>

PruneEnds(p) ==
  /\ pc[p] = "sweeping"
  /\ found[p] = {}
  /\ Goto(p, "done")
  /\ UNCHANGED <<disk, goal, todo, found, overlapped>>

-----------------------------------------------------------------------------
\* A process is killed between two system calls, its directories stay.
Killed(p) ==
  /\ Running(p)
  /\ Goto(p, "killed")
  /\ UNCHANGED <<disk, goal, todo, found, overlapped>>

Export(t) ==
  \/ ExportStages(t) \/ ExportWrites(t) \/ ExportPublishes(t)
  \/ ExportVerifies(t) \/ ExportPoints(t) \/ ExportFails(t)

Switch(s) ==
  SwitchReads(s) \/ SwitchChooses(s) \/ SwitchVerifies(s) \/ SwitchPoints(s)

Prune(p) ==
  \/ PruneReads(p) \/ PruneScans(p) \/ PruneChecks(p) \/ PruneRenames(p)
  \/ PruneRechecks(p) \/ PruneRestores(p) \/ PruneRemoves(p) \/ PruneLists(p)
  \/ PruneSweeps(p) \/ PruneEnds(p)

Next ==
  \/ \E t \in Trainer : Export(t)
  \/ \E s \in Switcher : Switch(s)
  \/ \E p \in Pruner : Prune(p)
  \/ \E p \in Process : Killed(p)

Spec == Init /\ [][Next]_vars

-----------------------------------------------------------------------------
(* Properties                                                              *)

\* Every variable holds a value of its kind.
TypeOK ==
  /\ pointer \in Digest \cup {NoDigest}
  /\ release \in [Digest -> Directory]
  /\ staging \in [Trainer -> Directory]
  /\ pruning \in [Pruner -> Directory]
  /\ pc \in [Process -> Ended \cup
       {"idle", "staged", "written", "exists", "published", "read", "chosen",
        "verified", "next", "checked", "renamed", "restoring", "removing",
        "sweeping"}]
  /\ goal \in [Switcher \cup Pruner -> Digest \cup {NoDigest}]
  /\ todo \in [Pruner -> SUBSET Digest]
  /\ found \in [Pruner -> SUBSET Pruner]
  /\ overlapped \subseteq {"switch", "prune"}

\* Whenever a process is killed, a directory with a release's name is a whole
\* release, never half written and never half deleted, as long as prunes run
\* one at a time (staging, rename without replacing, rename before deletion).
ReleasesWhole ==
  "prune" \notin overlapped => \A d \in Digest : release[d] # "part"

\* As long as no switch and no other prune runs during a prune, and the releases
\* being trained are newer than any on disk, current.json names a whole release,
\* also while trainers publish and point during the prune (the order of
\* _publish_release and _publish_pointer, verifyRelease, --keep).
PointerNeverDangles ==
  overlapped = {} /\ Keep > 0 /\ (\A t \in Trainer : Target[t] = Newest) =>
    pointer = NoDigest \/ release[pointer] = "whole"

\* A prune that keeps any never takes the newest release away, not even for the
\* moment between its rename and its second look at the pointer, however stale
\* its scan is.
NewestKept ==
  [][\A d \in Digest :
       Keep > 0 /\ release[d] = "whole" /\ (\A e \in Digest : e > d => release[e] = "absent")
         => release'[d] = "whole"]_vars

\* An export that ended by itself leaves no staging directory behind.
StagingGone ==
  \A t \in Trainer : pc[t] \in {"done", "failed"} => staging[t] = "absent"

\* A prune that completes leaves no half-deleted directory behind, its own or
\* one of a prune that was killed, unless another prune ran meanwhile.
SweptClean ==
  [][\A p \in Pruner :
       pc[p] # "done" /\ pc'[p] = "done" /\ "prune" \notin overlapped
         => \A q \in Pruner : pruning'[q] = "absent"]_vars

\* What the documentation says, and the code does not do.

\* docs/cli-reference.md:541 "`prune` never removes the release `current.json`
\* names": while prunes run one at a time, no prune is deleting the release the
\* pointer names.
PruneSparesCurrent ==
  \A p \in Pruner :
    pc[p] = "removing" /\ pruning[p] = "part" /\ "prune" \notin overlapped
      => goal[p] # pointer
=============================================================================
