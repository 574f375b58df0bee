------------------------ MODULE ReleaseStore_proofs ------------------------
(***************************************************************************)
(* Safety of the release store for every number of trainers, switches and  *)
(* prunes, every set of releases and every --keep.                         *)
(***************************************************************************)
EXTENDS ReleaseStore, FiniteSetTheorems, TLAPS

\* A trainer's staging directory is whole when it is renamed, and gone when the
\* trainer is past it.
Staged ==
  \A t \in Trainer :
    /\ pc[t] = "written" => staging[t] = "whole"
    /\ pc[t] \in {"published", "done", "failed"} => staging[t] = "absent"

\* What a prune is about to take away is older than a release that stays.
Spares ==
  Keep > 0 => \A p \in Pruner : \A d \in todo[p] :
                \E e \in Digest : e > d /\ release[e] # "absent"

\* The release a prune is at is one of its candidates, and a switch has chosen
\* a release.
Candidate ==
  /\ \A p \in Pruner :
       pc[p] \in {"checked", "renamed", "restoring", "removing"} => goal[p] \in todo[p]
  /\ \A s \in Switcher : pc[s] \in {"chosen", "verified"} => goal[s] \in Digest

\* `overlapped` records every two prunes that run at once,
OneAtATime ==
  "prune" \notin overlapped =>
    \A p, q \in Pruner : Running(p) /\ Running(q) => p = q

\* and every switch that runs while a prune does.
Apart ==
  overlapped = {} =>
    \A s \in Switcher, p \in Pruner : ~(Running(s) /\ Running(p))

\* A prune that is alone can only take whole releases away and put them back.
Intact ==
  "prune" \notin overlapped =>
    /\ \A d \in Digest : release[d] # "part"
    /\ \A p \in Pruner : pc[p] \in {"renamed", "restoring"} => pruning[p] = "whole"

\* A prune that is alone has listed every leftover it has not deleted yet.
Listed ==
  "prune" \notin overlapped =>
    \A p \in Pruner : pc[p] = "sweeping" =>
      \A q \in Pruner : pruning[q] # "absent" => q \in found[p]

Scanned == {"next", "checked", "renamed", "restoring", "removing", "sweeping"}

\* The pointer names a whole release, whoever is about to change it will point
\* at one, and no prune takes the release it names for a candidate.
Pointed ==
  overlapped = {} /\ Keep > 0 /\ (\A t \in Trainer : Target[t] = Newest) =>
    /\ pointer = NoDigest \/ release[pointer] = "whole"
    /\ \A t \in Trainer : pc[t] = "published" => release[Newest] = "whole"
    /\ \A s \in Switcher : pc[s] = "verified" => release[goal[s]] = "whole"
    /\ \A p \in Pruner : pc[p] = "read" => pointer \in {goal[p], Newest}
    /\ \A p \in Pruner : pc[p] \in Scanned => pointer \notin todo[p]

IInv ==
  /\ TypeOK
  /\ Staged
  /\ Spares
  /\ Candidate
  /\ OneAtATime
  /\ Apart
  /\ Intact
  /\ Listed
  /\ Pointed

-----------------------------------------------------------------------------
(* Type correctness                                                        *)

\* Every command starts with every variable in its type.
LEMMA TypeInit == Init => TypeOK
BY StoreAssumption DEF Init, TypeOK, Directory, NoDigest

\* Every step keeps every variable's type.
LEMMA TypeStep == TypeOK /\ Candidate /\ [Next]_vars => TypeOK'
<1> SUFFICES ASSUME TypeOK, Candidate, [Next]_vars PROVE TypeOK'
  OBVIOUS
<1> USE StoreAssumption
<1>1. ASSUME NEW t \in Trainer, ExportStages(t) PROVE TypeOK'
  BY <1>1 DEF ExportStages, Goto, disk, Running, Ended, Process, Directory, NoDigest,
     TypeOK
<1>2. ASSUME NEW t \in Trainer, ExportWrites(t) PROVE TypeOK'
  BY <1>2 DEF ExportWrites, Goto, disk, Running, Ended, Process, Directory, NoDigest,
     TypeOK
<1>3. ASSUME NEW t \in Trainer, ExportPublishes(t) PROVE TypeOK'
  BY <1>3 DEF ExportPublishes, Goto, disk, Running, Ended, Process, Directory, NoDigest,
     TypeOK
<1>4. ASSUME NEW t \in Trainer, ExportVerifies(t) PROVE TypeOK'
  BY <1>4 DEF ExportVerifies, Goto, disk, Running, Ended, Process, Directory, NoDigest,
     TypeOK
<1>5. ASSUME NEW t \in Trainer, ExportPoints(t) PROVE TypeOK'
  BY <1>5 DEF ExportPoints, Goto, disk, Running, Ended, Process, Directory, NoDigest,
     TypeOK
<1>6. ASSUME NEW t \in Trainer, ExportFails(t) PROVE TypeOK'
  BY <1>6 DEF ExportFails, Goto, disk, Running, Ended, Process, Directory, NoDigest,
     TypeOK
<1>7. ASSUME NEW s \in Switcher, SwitchReads(s) PROVE TypeOK'
  BY <1>7 DEF SwitchReads, Goto, disk, Running, Ended, Process, Directory, NoDigest,
     TypeOK
<1>8. ASSUME NEW s \in Switcher, SwitchChooses(s) PROVE TypeOK'
  BY <1>8 DEF SwitchChooses, Goto, disk, Running, Ended, Process, Directory, NoDigest,
     TypeOK
<1>9. ASSUME NEW s \in Switcher, SwitchVerifies(s) PROVE TypeOK'
  BY <1>9 DEF SwitchVerifies, Goto, disk, Running, Ended, Process, Directory, NoDigest,
     TypeOK
<1>10. ASSUME NEW s \in Switcher, SwitchPoints(s) PROVE TypeOK'
  BY <1>10 DEF SwitchPoints, Goto, disk, Running, Ended, Process, Directory, NoDigest,
     TypeOK
<1>11. ASSUME NEW p \in Pruner, PruneReads(p) PROVE TypeOK'
  BY <1>11 DEF PruneReads, Goto, disk, Running, Ended, Process, Directory, NoDigest,
     TypeOK
<1>12. ASSUME NEW p \in Pruner, PruneScans(p) PROVE TypeOK'
  <2>1. PICK label \in {"next", "failed"}, chosen \in SUBSET Digest :
          /\ pc' = [pc EXCEPT ![p] = label]
          /\ todo' = [todo EXCEPT ![p] = chosen] \/ todo' = todo
    <3>1. PICK broken \in SUBSET Digest, cutoff \in 1..Newest + 1 :
            LET valid == {d \in Digest : release[d] # "absent"} \ broken IN
            IF goal[p] \in valid
            THEN /\ pc' = [pc EXCEPT ![p] = "next"]
                 /\ todo' = [todo EXCEPT ![p] =
                      {d \in valid \ (NewestOf(valid) \cup {goal[p]}) : d < cutoff}]
            ELSE pc' = [pc EXCEPT ![p] = "failed"] /\ todo' = todo
      BY <1>12 DEF PruneScans, Goto
    <3> QED BY <3>1
  <2>2. todo' \in [Pruner -> SUBSET Digest]
    BY <2>1 DEF TypeOK
  <2> QED BY <1>12, <2>1, <2>2 DEF PruneScans, TypeOK, disk, Process, Ended
<1>13. ASSUME NEW p \in Pruner, PruneChecks(p) PROVE TypeOK'
  <2>1. PICK d \in todo[p] :
          /\ goal' = [goal EXCEPT ![p] = d]
          /\ todo' = todo \/ todo' = [todo EXCEPT ![p] = @ \ {d}]
          /\ \/ pc' = pc
             \/ pc' = [pc EXCEPT ![p] = "failed"]
             \/ pc' = [pc EXCEPT ![p] = "checked"]
    BY <1>13 DEF PruneChecks, Goto
  <2>2. d \in Digest /\ todo[p] \in SUBSET Digest /\ todo[p] \ {d} \in SUBSET Digest
    BY DEF TypeOK
  <2>3. goal' \in [Switcher \cup Pruner -> Digest \cup {NoDigest}]
    BY <2>1, <2>2 DEF TypeOK
  <2>4. todo' \in [Pruner -> SUBSET Digest]
    BY <2>1, <2>2 DEF TypeOK
  <2> QED BY <1>13, <2>1, <2>3, <2>4 DEF PruneChecks, TypeOK, disk, Process, Ended
<1>14. ASSUME NEW p \in Pruner, PruneRenames(p) PROVE TypeOK'
  <2>1. CASE release[goal[p]] = "absent"
    BY <1>14, <2>1 DEF PruneRenames, Goto, TypeOK, disk, Process, Ended
  <2>2. CASE release[goal[p]] # "absent"
    <3>1. goal[p] \in Digest
      BY <1>14 DEF PruneRenames, Candidate, TypeOK
    <3>2. release[goal[p]] \in Directory
      BY <3>1 DEF TypeOK
    <3>3. release' \in [Digest -> Directory] /\ pruning' \in [Pruner -> Directory]
      BY <1>14, <2>2, <3>2 DEF PruneRenames, TypeOK, Directory
    <3> QED BY <1>14, <2>2, <3>3 DEF PruneRenames, Goto, TypeOK, Process
  <2> QED BY <2>1, <2>2
<1>15. ASSUME NEW p \in Pruner, PruneRechecks(p) PROVE TypeOK'
  BY <1>15 DEF PruneRechecks, Goto, disk, Running, Ended, Process, Directory, NoDigest,
     TypeOK
<1>16. ASSUME NEW p \in Pruner, PruneRestores(p) PROVE TypeOK'
  <2>1. todo[p] \ {goal[p]} \in SUBSET Digest
    BY DEF TypeOK
  <2>2. todo' \in [Pruner -> SUBSET Digest]
    BY <1>16, <2>1 DEF PruneRestores, TypeOK
  <2>3. release' \in [Digest -> Directory] /\ pruning' \in [Pruner -> Directory]
    BY <1>16 DEF PruneRestores, TypeOK, disk, Directory
  <2> QED BY <1>16, <2>2, <2>3 DEF PruneRestores, Goto, TypeOK, disk, Process, Ended
<1>17. ASSUME NEW p \in Pruner, PruneRemoves(p) PROVE TypeOK'
  <2>1. todo[p] \ {goal[p]} \in SUBSET Digest
    BY DEF TypeOK
  <2>2. todo' \in [Pruner -> SUBSET Digest]
    BY <1>17, <2>1 DEF PruneRemoves, TypeOK
  <2>3. pruning' \in [Pruner -> Directory]
    BY <1>17 DEF PruneRemoves, TypeOK, Directory
  <2> QED BY <1>17, <2>2, <2>3 DEF PruneRemoves, Goto, TypeOK, Process
<1>18. ASSUME NEW p \in Pruner, PruneLists(p) PROVE TypeOK'
  BY <1>18 DEF PruneLists, Goto, disk, Running, Ended, Process, Directory, NoDigest,
     TypeOK
<1>19. ASSUME NEW p \in Pruner, PruneSweeps(p) PROVE TypeOK'
  <2>1. PICK q \in found[p] :
          /\ pruning' = [pruning EXCEPT ![q] = IF @ = "whole" THEN "part" ELSE "absent"]
          /\ found' = [found EXCEPT ![p] = IF pruning[q] = "whole" THEN @ ELSE @ \ {q}]
          /\ pc' = pc \/ \E label \in {"sweeping", "failed"} : Goto(p, label)
    <3>1. PICK q \in found[p] :
            /\ pruning' = [pruning EXCEPT ![q] = IF @ = "whole" THEN "part" ELSE "absent"]
            /\ found' = [found EXCEPT ![p] = IF pruning[q] = "whole" THEN @ ELSE @ \ {q}]
            /\ pruning[q] # "absent" => UNCHANGED pc
            /\ pruning[q] = "absent" => \E label \in {"sweeping", "failed"} : Goto(p, label)
      BY <1>19 DEF PruneSweeps
    <3> QED BY <3>1
  <2>2. found[p] \ {q} \in SUBSET Pruner
    BY DEF TypeOK
  <2>3. found' \in [Pruner -> SUBSET Pruner] /\ pruning' \in [Pruner -> Directory]
    BY <2>1, <2>2 DEF TypeOK, Directory
  <2>4. pc' = pc \/ \E label \in {"sweeping", "failed"} : pc' = [pc EXCEPT ![p] = label]
    BY <2>1 DEF Goto
  <2> QED BY <1>19, <2>3, <2>4 DEF PruneSweeps, TypeOK, Process, Ended
<1>20. ASSUME NEW p \in Pruner, PruneEnds(p) PROVE TypeOK'
  BY <1>20 DEF PruneEnds, Goto, disk, Running, Ended, Process, Directory, NoDigest,
     TypeOK
<1>21. ASSUME NEW p \in Process, Killed(p) PROVE TypeOK'
  BY <1>21 DEF Killed, Goto, disk, Running, Ended, Process, Directory, NoDigest,
     TypeOK
<1>22. CASE UNCHANGED vars
  BY <1>22 DEF vars, disk, TypeOK
<1> QED
  BY <1>1, <1>2, <1>3, <1>4, <1>5, <1>6, <1>7, <1>8, <1>9, <1>10, <1>11,
     <1>12, <1>13, <1>14, <1>15, <1>16, <1>17, <1>18, <1>19, <1>20, <1>21,
     <1>22
  DEF Next, Export, Switch, Prune

-----------------------------------------------------------------------------
(* What a command leaves alone                                             *)

\* A trainer replaces no release and touches no prune.
LEMMA ExportFrame ==
  ASSUME TypeOK, NEW t \in Trainer, Export(t)
  PROVE  /\ UNCHANGED <<pruning, goal, todo, found, overlapped>>
         /\ \A p \in Process : p # t => pc'[p] = pc[p]
         /\ \A d \in Digest : release[d] # "absent" => release'[d] = release[d]
<1> USE DEF Goto, disk, TypeOK, Process
<1>1. CASE ExportStages(t)
  BY <1>1 DEF ExportStages
<1>2. CASE ExportWrites(t)
  BY <1>2 DEF ExportWrites
<1>3. CASE ExportPublishes(t)
  BY <1>3 DEF ExportPublishes
<1>4. CASE ExportVerifies(t)
  BY <1>4 DEF ExportVerifies
<1>5. CASE ExportPoints(t)
  BY <1>5 DEF ExportPoints
<1>6. CASE ExportFails(t)
  BY <1>6 DEF ExportFails
<1> QED BY <1>1, <1>2, <1>3, <1>4, <1>5, <1>6 DEF Export

\* A switch changes the pointer at most.
LEMMA SwitchFrame ==
  ASSUME TypeOK, NEW s \in Switcher, Switch(s)
  PROVE  /\ UNCHANGED <<release, staging, pruning, todo, found>>
         /\ \A p \in Process : p # s => pc'[p] = pc[p]
         /\ \A p \in Switcher \cup Pruner : p # s => goal'[p] = goal[p]
         /\ overlapped \subseteq overlapped'
         /\ pc'[s] # "idle"
<1> USE DEF Goto, disk, TypeOK, Process
<1>1. CASE SwitchReads(s)
  BY <1>1 DEF SwitchReads
<1>2. CASE SwitchChooses(s)
  BY <1>2 DEF SwitchChooses
<1>3. CASE SwitchVerifies(s)
  BY <1>3 DEF SwitchVerifies
<1>4. CASE SwitchPoints(s)
  BY <1>4 DEF SwitchPoints
<1> QED BY <1>1, <1>2, <1>3, <1>4 DEF Switch

\* A prune changes neither the pointer nor a staging directory.
LEMMA PruneFrame ==
  ASSUME TypeOK, NEW p \in Pruner, Prune(p)
  PROVE  /\ UNCHANGED <<pointer, staging>>
         /\ \A q \in Process : q # p => pc'[q] = pc[q]
         /\ \A q \in Switcher \cup Pruner : q # p => goal'[q] = goal[q]
         /\ \A q \in Pruner : q # p => todo'[q] = todo[q] /\ found'[q] = found[q]
         /\ overlapped \subseteq overlapped'
         /\ ~PruneReads(p) => Running(p) /\ overlapped' = overlapped
<1> USE DEF Goto, disk, TypeOK, Process, Running, Ended
<1>1. CASE PruneReads(p)
  BY <1>1 DEF PruneReads
<1>2. CASE PruneScans(p)
  BY <1>2 DEF PruneScans
<1>3. CASE PruneChecks(p)
  BY <1>3 DEF PruneChecks
<1>4. CASE PruneRenames(p)
  BY <1>4 DEF PruneRenames
<1>5. CASE PruneRechecks(p)
  BY <1>5 DEF PruneRechecks
<1>6. CASE PruneRestores(p)
  BY <1>6 DEF PruneRestores
<1>7. CASE PruneRemoves(p)
  BY <1>7 DEF PruneRemoves
<1>8. CASE PruneLists(p)
  BY <1>8 DEF PruneLists
<1>9. CASE PruneSweeps(p)
  BY <1>9 DEF PruneSweeps
<1>10. CASE PruneEnds(p)
  BY <1>10 DEF PruneEnds
<1> QED
  BY <1>1, <1>2, <1>3, <1>4, <1>5, <1>6, <1>7, <1>8, <1>9, <1>10 DEF Prune

\* A kill ends the process and changes nothing else.
LEMMA KilledFrame ==
  ASSUME TypeOK, NEW p \in Process, Killed(p)
  PROVE  /\ UNCHANGED <<disk, goal, todo, found, overlapped>>
         /\ \A q \in Process : pc'[q] = pc[q] \/ pc'[q] = "killed"
BY DEF Killed, Goto, TypeOK

-----------------------------------------------------------------------------
(* The parts of the invariant                                              *)

\* A trainer writes its staging directory whole before it renames it.
LEMMA StagedStep == TypeOK /\ Staged /\ [Next]_vars => Staged'
<1> SUFFICES ASSUME TypeOK, Staged, [Next]_vars PROVE Staged'
  OBVIOUS
<1>1. ASSUME NEW t \in Trainer, Export(t) PROVE Staged'
  <2> USE DEF Goto, TypeOK, Process, Staged
  <2>1. CASE ExportStages(t)
    BY <2>1 DEF ExportStages
  <2>2. CASE ExportWrites(t)
    BY <2>2 DEF ExportWrites
  <2>3. CASE ExportPublishes(t)
    BY <2>3 DEF ExportPublishes
  <2>4. CASE ExportVerifies(t)
    BY <2>4 DEF ExportVerifies
  <2>5. CASE ExportPoints(t)
    BY <2>5 DEF ExportPoints
  <2>6. CASE ExportFails(t)
    BY <2>6 DEF ExportFails
  <2> QED BY <1>1, <2>1, <2>2, <2>3, <2>4, <2>5, <2>6 DEF Export
<1>2. ASSUME NEW s \in Switcher, Switch(s) PROVE Staged'
  BY <1>2, SwitchFrame, StoreAssumption DEF Staged, Process
<1>3. ASSUME NEW p \in Pruner, Prune(p) PROVE Staged'
  BY <1>3, PruneFrame, StoreAssumption DEF Staged, Process
<1>4. ASSUME NEW p \in Process, Killed(p) PROVE Staged'
  BY <1>4, KilledFrame DEF Staged, Process, disk
<1>5. CASE UNCHANGED vars
  BY <1>5 DEF vars, disk, Staged
<1> QED BY <1>1, <1>2, <1>3, <1>4, <1>5 DEF Next

\* A prune leaves a checked candidate only when it is done with it.
LEMMA CandidateStep == TypeOK /\ Candidate /\ [Next]_vars => Candidate'
<1> SUFFICES ASSUME TypeOK, Candidate, [Next]_vars PROVE Candidate'
  OBVIOUS
<1>1. ASSUME NEW t \in Trainer, Export(t) PROVE Candidate'
  BY <1>1, ExportFrame, StoreAssumption DEF Candidate, Process
<1>2. ASSUME NEW s \in Switcher, Switch(s) PROVE Candidate'
  <2>1. pc'[s] \in {"chosen", "verified"} => goal'[s] \in Digest
    BY <1>2
    DEF Switch, SwitchReads, SwitchChooses, SwitchVerifies, SwitchPoints, Goto, TypeOK,
        Process, Candidate
  <2> QED BY <1>2, <2>1, SwitchFrame, StoreAssumption DEF Candidate, Process
<1>3. ASSUME NEW p \in Pruner, Prune(p) PROVE Candidate'
  <2>1. pc'[p] \in {"checked", "renamed", "restoring", "removing"} => goal'[p] \in todo'[p]
    <3> USE DEF Goto, disk, TypeOK, Process, Candidate
    <3>1. CASE PruneReads(p)
      BY <3>1 DEF PruneReads
    <3>2. CASE PruneScans(p)
      BY <3>2 DEF PruneScans
    <3>3. CASE PruneChecks(p)
      BY <3>3 DEF PruneChecks
    <3>4. CASE PruneRenames(p)
      BY <3>4 DEF PruneRenames
    <3>5. CASE PruneRechecks(p)
      BY <3>5 DEF PruneRechecks
    <3>6. CASE PruneRestores(p)
      BY <3>6 DEF PruneRestores
    <3>7. CASE PruneRemoves(p)
      BY <3>7 DEF PruneRemoves
    <3>8. CASE PruneLists(p)
      BY <3>8 DEF PruneLists
    <3>9. CASE PruneSweeps(p)
      BY <3>9 DEF PruneSweeps
    <3>10. CASE PruneEnds(p)
      BY <3>10 DEF PruneEnds
    <3> QED
      BY <1>3, <3>1, <3>2, <3>3, <3>4, <3>5, <3>6, <3>7, <3>8, <3>9, <3>10 DEF Prune
  <2> QED BY <1>3, <2>1, PruneFrame, StoreAssumption DEF Candidate, Process
<1>4. ASSUME NEW p \in Process, Killed(p) PROVE Candidate'
  BY <1>4, KilledFrame DEF Candidate, Process
<1>5. CASE UNCHANGED vars
  BY <1>5 DEF vars, Candidate
<1> QED BY <1>1, <1>2, <1>3, <1>4, <1>5 DEF Next

\* The candidates of a scan that keeps any are older than a release it keeps.
LEMMA ScanSpares ==
  ASSUME StoreAssumption, TypeOK, NEW p \in Pruner, PruneScans(p), Keep > 0
  PROVE  \A d \in todo'[p] : d \in todo[p] \/ \E e \in Digest : e > d /\ release[e] # "absent"
<1>1. PICK broken \in SUBSET Digest, cutoff \in 1..Newest + 1 :
        LET valid == {d \in Digest : release[d] # "absent"} \ broken IN
        \/ todo' = todo
        \/ todo' = [todo EXCEPT ![p] =
             {d \in valid \ (NewestOf(valid) \cup {goal[p]}) : d < cutoff}]
  BY DEF PruneScans
<1> DEFINE valid == {d \in Digest : release[d] # "absent"} \ broken
<1>2. ASSUME NEW d \in valid, d \notin NewestOf(valid)
      PROVE  \E e \in Digest : e > d /\ release[e] # "absent"
  <2>1. Keep \in Nat /\ Cardinality({}) = 0
    BY FS_EmptySet, StoreAssumption
  <2>2. {e \in valid : e > d} # {}
    BY <1>2, <2>1 DEF NewestOf
  <2> QED BY <2>2
<1>3. CASE todo' = todo
  BY <1>3
<1>4. CASE todo' = [todo EXCEPT ![p] =
             {d \in valid \ (NewestOf(valid) \cup {goal[p]}) : d < cutoff}]
  <2> HIDE DEF valid
  <2>1. todo'[p] = {d \in valid \ (NewestOf(valid) \cup {goal[p]}) : d < cutoff}
    BY <1>4 DEF TypeOK
  <2> QED BY <1>2, <2>1
<1> QED BY <1>1, <1>3, <1>4

\* A release that is taken away leaves a newer one, so what is older than the
\* one taken is older than the one that stays.
LEMMA SparesStep == TypeOK /\ Candidate /\ Spares /\ [Next]_vars => Spares'
<1> SUFFICES ASSUME TypeOK, Candidate, Spares, [Next]_vars, Keep > 0
             PROVE  \A p \in Pruner : \A d \in todo'[p] :
                      \E e \in Digest : e > d /\ release'[e] # "absent"
  BY DEF Spares
<1> DEFINE Newer(d) == \E e \in Digest : e > d /\ release[e] # "absent"
<1>1. \A p \in Pruner : \A d \in todo[p] : Newer(d)
  BY DEF Spares
<1>2. ASSUME \A d \in Digest : release[d] # "absent" => release'[d] # "absent",
             \A p \in Pruner : \A d \in todo'[p] : d \in todo[p] \/ Newer(d)
      PROVE  \A p \in Pruner : \A d \in todo'[p] :
               \E e \in Digest : e > d /\ release'[e] # "absent"
  BY <1>1, <1>2
<1> DEFINE Goal == \A p \in Pruner : \A d \in todo'[p] :
                     \E e \in Digest : e > d /\ release'[e] # "absent"
<1>3. ASSUME NEW t \in Trainer, Export(t) PROVE Goal
  BY <1>2, <1>3, ExportFrame
<1>4. ASSUME NEW s \in Switcher, Switch(s) PROVE Goal
  BY <1>2, <1>4, SwitchFrame
<1>5. ASSUME NEW p \in Pruner, PruneRenames(p) PROVE Goal
  <2>1. CASE release[goal[p]] = "absent"
    BY <1>2, <1>5, <2>1 DEF PruneRenames, disk
  <2>2. CASE release[goal[p]] # "absent"
    <3>1. goal[p] \in todo[p] /\ todo' = todo
      BY <1>5 DEF PruneRenames, Candidate
    <3>2. goal[p] \in Digest /\ \A d \in Digest : d \in Nat
      BY <3>1, StoreAssumption DEF TypeOK, Digest
    <3>3. PICK e \in Digest : e > goal[p] /\ release[e] # "absent"
      BY <1>1, <3>1
    <3>4. \A d \in Digest : release'[d] = IF d = goal[p] THEN "absent" ELSE release[d]
      BY <1>5, <2>2, <3>2 DEF PruneRenames, TypeOK
    <3>5. release'[e] # "absent"
      BY <3>2, <3>3, <3>4
    <3>6. ASSUME NEW q \in Pruner, NEW d \in todo'[q]
          PROVE  \E f \in Digest : f > d /\ release'[f] # "absent"
      <4>1. d \in Digest
        BY <3>1 DEF TypeOK
      <4>2. PICK f \in Digest : f > d /\ release[f] # "absent"
        BY <1>1, <3>1
      <4>3. CASE f = goal[p]
        BY <3>2, <3>3, <3>5, <4>1, <4>2, <4>3
      <4>4. CASE f # goal[p]
        BY <3>4, <4>2, <4>4
      <4> QED BY <4>3, <4>4
    <3> QED BY <3>6
  <2> QED BY <2>1, <2>2
<1>6. ASSUME NEW p \in Pruner, PruneScans(p) PROVE Goal
  <2>1. UNCHANGED release /\ \A q \in Pruner : q # p => todo'[q] = todo[q]
    BY <1>6 DEF PruneScans, disk, TypeOK
  <2>2. \A d \in todo'[p] : d \in todo[p] \/ Newer(d)
    BY <1>6, ScanSpares, StoreAssumption
  <2> QED BY <1>2, <2>1, <2>2
<1>7. ASSUME NEW p \in Pruner, Prune(p), ~PruneScans(p), ~PruneRenames(p) PROVE Goal
  <2>1. /\ \A d \in Digest : release[d] # "absent" => release'[d] # "absent"
        /\ \A q \in Pruner : \A d \in todo'[q] : d \in todo[q]
    <3> USE DEF disk, TypeOK
    <3>1. CASE PruneReads(p)
      BY <3>1 DEF PruneReads
    <3>2. CASE PruneChecks(p)
      BY <3>2 DEF PruneChecks
    <3>3. CASE PruneRechecks(p)
      BY <3>3 DEF PruneRechecks
    <3>4. CASE PruneRestores(p)
      BY <3>4 DEF PruneRestores
    <3>5. CASE PruneRemoves(p)
      BY <3>5 DEF PruneRemoves
    <3>6. CASE PruneLists(p)
      BY <3>6 DEF PruneLists
    <3>7. CASE PruneSweeps(p)
      BY <3>7 DEF PruneSweeps
    <3>8. CASE PruneEnds(p)
      BY <3>8 DEF PruneEnds
    <3> QED
      BY <1>7, <3>1, <3>2, <3>3, <3>4, <3>5, <3>6, <3>7, <3>8 DEF Prune
  <2> QED BY <1>2, <2>1
<1>8. ASSUME NEW p \in Process, Killed(p) PROVE Goal
  BY <1>2, <1>8, KilledFrame DEF disk
<1>9. CASE UNCHANGED vars
  BY <1>2, <1>9 DEF vars, disk
<1> QED BY <1>3, <1>4, <1>5, <1>6, <1>7, <1>8, <1>9 DEF Next

\* A release disappears where a prune renames it, and stays what it is elsewhere.
LEMMA TakenAway ==
  ASSUME TypeOK, [Next]_vars, NEW d \in Digest, release[d] # "absent"
  PROVE  release'[d] = release[d] \/ \E p \in Pruner : PruneRenames(p) /\ goal[p] = d
<1> DEFINE Kept == release'[d] = release[d] \/ \E p \in Pruner : PruneRenames(p) /\ goal[p] = d
<1>1. ASSUME NEW t \in Trainer, Export(t) PROVE Kept
  BY <1>1, ExportFrame
<1>2. ASSUME NEW s \in Switcher, Switch(s) PROVE Kept
  BY <1>2, SwitchFrame
<1>3. ASSUME NEW p \in Pruner, Prune(p) PROVE Kept
  <2> USE DEF disk, TypeOK
  <2>1. CASE PruneRenames(p)
    BY <2>1 DEF PruneRenames
  <2>2. CASE PruneRestores(p)
    BY <2>2 DEF PruneRestores
  <2>3. CASE UNCHANGED release
    BY <2>3
  <2> QED
    BY <1>3, <2>1, <2>2, <2>3
    DEF Prune, PruneReads, PruneScans, PruneChecks, PruneRechecks, PruneRemoves,
        PruneLists, PruneSweeps, PruneEnds
<1>4. ASSUME NEW p \in Process, Killed(p) PROVE Kept
  BY <1>4, KilledFrame DEF disk
<1>5. CASE UNCHANGED vars
  BY <1>5 DEF vars, disk
<1> QED BY <1>1, <1>2, <1>3, <1>4, <1>5 DEF Next

\* A prune that starts while another one runs is recorded.
LEMMA OneAtATimeStep == TypeOK /\ OneAtATime /\ [Next]_vars => OneAtATime'
<1> SUFFICES ASSUME TypeOK, OneAtATime, [Next]_vars PROVE OneAtATime'
  OBVIOUS
<1>1. ASSUME NEW t \in Trainer, Export(t) PROVE OneAtATime'
  BY <1>1, ExportFrame, StoreAssumption DEF OneAtATime, Process, Running
<1>2. ASSUME NEW s \in Switcher, Switch(s) PROVE OneAtATime'
  BY <1>2, SwitchFrame, StoreAssumption DEF OneAtATime, Process, Running
<1>3. ASSUME NEW p \in Pruner, Prune(p) PROVE OneAtATime'
  <2>1. CASE PruneReads(p)
    <3>1. (\E q \in Pruner : Running(q)) => "prune" \in overlapped'
      BY <2>1 DEF PruneReads
    <3> QED BY <1>3, <3>1, PruneFrame DEF OneAtATime, Process, Running
  <2>2. CASE ~PruneReads(p)
    BY <1>3, <2>2, PruneFrame DEF OneAtATime, Process, Running
  <2> QED BY <2>1, <2>2
<1>4. ASSUME NEW p \in Process, Killed(p) PROVE OneAtATime'
  BY <1>4, KilledFrame DEF OneAtATime, Process, Running, Ended
<1>5. CASE UNCHANGED vars
  BY <1>5 DEF vars, OneAtATime, Running
<1> QED BY <1>1, <1>2, <1>3, <1>4, <1>5 DEF Next

\* A switch that starts while a prune runs is recorded, and the other way round.
LEMMA ApartStep == TypeOK /\ Apart /\ [Next]_vars => Apart'
<1> SUFFICES ASSUME TypeOK, Apart, [Next]_vars PROVE Apart'
  OBVIOUS
<1>1. ASSUME NEW t \in Trainer, Export(t) PROVE Apart'
  BY <1>1, ExportFrame, StoreAssumption DEF Apart, Process, Running
<1>2. ASSUME NEW s \in Switcher, Switch(s) PROVE Apart'
  <2>1. CASE SwitchReads(s)
    <3>1. (\E p \in Pruner : Running(p)) => overlapped' # {}
      BY <2>1 DEF SwitchReads
    <3> QED BY <1>2, <3>1, SwitchFrame, StoreAssumption DEF Apart, Process, Running
  <2>2. CASE ~SwitchReads(s)
    <3>1. Running(s)
      BY <1>2, <2>2 DEF Switch, SwitchChooses, SwitchVerifies, SwitchPoints, Running, Ended
    <3> QED BY <1>2, <3>1, SwitchFrame, StoreAssumption DEF Apart, Process, Running
  <2> QED BY <2>1, <2>2
<1>3. ASSUME NEW p \in Pruner, Prune(p) PROVE Apart'
  <2>1. CASE PruneReads(p)
    <3>1. (\E s \in Switcher : Running(s)) => overlapped' # {}
      BY <2>1 DEF PruneReads
    <3> QED BY <1>3, <3>1, PruneFrame, StoreAssumption DEF Apart, Process, Running
  <2>2. CASE ~PruneReads(p)
    BY <1>3, <2>2, PruneFrame, StoreAssumption DEF Apart, Process, Running
  <2> QED BY <2>1, <2>2
<1>4. ASSUME NEW p \in Process, Killed(p) PROVE Apart'
  BY <1>4, KilledFrame DEF Apart, Process, Running, Ended
<1>5. CASE UNCHANGED vars
  BY <1>5 DEF vars, Apart, Running
<1> QED BY <1>1, <1>2, <1>3, <1>4, <1>5 DEF Next

\* What is renamed was whole: a staging directory that is written, a release,
\* or the release a prune that is alone took.
LEMMA IntactStep ==
  TypeOK /\ Staged /\ Candidate /\ OneAtATime /\ Intact /\ [Next]_vars => Intact'
<1> SUFFICES ASSUME TypeOK, Staged, Candidate, OneAtATime, Intact, [Next]_vars,
                    "prune" \notin overlapped'
             PROVE  /\ \A d \in Digest : release'[d] # "part"
                    /\ \A p \in Pruner :
                         pc'[p] \in {"renamed", "restoring"} => pruning'[p] = "whole"
  BY DEF Intact
<1> DEFINE Goal == /\ \A d \in Digest : release'[d] # "part"
                   /\ \A p \in Pruner :
                        pc'[p] \in {"renamed", "restoring"} => pruning'[p] = "whole"
<1>1. ASSUME NEW t \in Trainer, Export(t) PROVE Goal
  <2>1. /\ \A d \in Digest : release[d] # "part"
        /\ \A p \in Pruner : pc[p] \in {"renamed", "restoring"} => pruning[p] = "whole"
    BY <1>1, ExportFrame DEF Intact
  <2>2. \A d \in Digest : release'[d] # "part"
    <3>1. CASE ExportPublishes(t)
      BY <2>1, <3>1 DEF ExportPublishes, Staged, TypeOK
    <3>2. CASE UNCHANGED release
      BY <2>1, <3>2
    <3> QED
      BY <1>1, <3>1, <3>2
      DEF Export, ExportStages, ExportWrites, ExportVerifies, ExportPoints, ExportFails, disk
  <2> QED BY <1>1, <2>1, <2>2, ExportFrame, StoreAssumption DEF Process
<1>2. ASSUME NEW s \in Switcher, Switch(s) PROVE Goal
  BY <1>2, SwitchFrame, StoreAssumption DEF Intact, Process
<1>3. ASSUME NEW p \in Pruner, Prune(p) PROVE Goal
  <2>1. /\ \A d \in Digest : release[d] # "part"
        /\ \A q \in Pruner : pc[q] \in {"renamed", "restoring"} => pruning[q] = "whole"
    BY <1>3, PruneFrame DEF Intact
  <2>2. CASE PruneReads(p)
    BY <2>1, <2>2 DEF PruneReads, Goto, TypeOK, Process, disk
  <2>3. CASE ~PruneReads(p)
    <3>1. /\ Running(p) /\ "prune" \notin overlapped
          /\ \A q \in Pruner : q # p => pc'[q] = pc[q]
      BY <1>3, <2>3, PruneFrame DEF Process
    <3>2. \A q \in Pruner : q # p => pc'[q] \notin {"renamed", "restoring"}
      BY <3>1 DEF OneAtATime, Running, Ended
    <3>3. /\ \A d \in Digest : release'[d] # "part"
          /\ pc'[p] \in {"renamed", "restoring"} => pruning'[p] = "whole"
      <4> USE DEF Goto, disk, TypeOK, Process
      <4>1. CASE PruneScans(p)
        BY <2>1, <4>1 DEF PruneScans
      <4>2. CASE PruneChecks(p)
        BY <2>1, <4>2 DEF PruneChecks
      <4>3. CASE PruneRenames(p)
        <5>1. goal[p] \in Digest
          BY <4>3 DEF PruneRenames, Candidate
        <5>2. release[goal[p]] \in {"absent", "whole"}
          BY <2>1, <5>1 DEF Directory
        <5> QED BY <2>1, <4>3, <5>1, <5>2 DEF PruneRenames
      <4>4. CASE PruneRechecks(p)
        BY <2>1, <4>4 DEF PruneRechecks
      <4>5. CASE PruneRestores(p)
        BY <2>1, <4>5 DEF PruneRestores
      <4>6. CASE PruneRemoves(p)
        BY <2>1, <4>6 DEF PruneRemoves
      <4>7. CASE PruneLists(p)
        BY <2>1, <4>7 DEF PruneLists
      <4>8. CASE PruneSweeps(p)
        BY <2>1, <4>8 DEF PruneSweeps
      <4>9. CASE PruneEnds(p)
        BY <2>1, <4>9 DEF PruneEnds
      <4> QED
        BY <1>3, <2>3, <4>1, <4>2, <4>3, <4>4, <4>5, <4>6, <4>7, <4>8, <4>9 DEF Prune
    <3> QED BY <3>2, <3>3
  <2> QED BY <2>2, <2>3
<1>4. ASSUME NEW p \in Process, Killed(p) PROVE Goal
  BY <1>4, KilledFrame DEF Intact, Process, disk
<1>5. CASE UNCHANGED vars
  BY <1>5 DEF vars, disk, Intact
<1> QED BY <1>1, <1>2, <1>3, <1>4, <1>5 DEF Next

\* While a prune that is alone sweeps, nobody makes leftovers.
LEMMA ListedStep == TypeOK /\ OneAtATime /\ Listed /\ [Next]_vars => Listed'
<1> SUFFICES ASSUME TypeOK, OneAtATime, Listed, [Next]_vars PROVE Listed'
  OBVIOUS
<1>1. ASSUME NEW t \in Trainer, Export(t) PROVE Listed'
  BY <1>1, ExportFrame, StoreAssumption DEF Listed, Process
<1>2. ASSUME NEW s \in Switcher, Switch(s) PROVE Listed'
  BY <1>2, SwitchFrame, StoreAssumption DEF Listed, Process
<1>3. ASSUME NEW p \in Pruner, Prune(p) PROVE Listed'
  <2>1. CASE PruneReads(p)
    BY <1>3, <2>1, PruneFrame DEF PruneReads, Goto, TypeOK, Process, disk, Listed
  <2>2. CASE ~PruneReads(p)
    <3>1. /\ Running(p) /\ overlapped' = overlapped
          /\ \A q \in Pruner : q # p => pc'[q] = pc[q]
      BY <1>3, <2>2, PruneFrame DEF Process
    <3>2. ASSUME "prune" \notin overlapped PROVE \A q \in Pruner : q # p => pc'[q] # "sweeping"
      BY <3>1, <3>2 DEF OneAtATime, Running, Ended
    <3>3. ASSUME "prune" \notin overlapped, pc'[p] = "sweeping", NEW q \in Pruner,
                 pruning'[q] # "absent"
          PROVE  q \in found'[p]
      <4>1. CASE PruneLists(p)
        BY <3>3, <4>1 DEF PruneLists, TypeOK, disk
      <4>2. CASE PruneSweeps(p)
        BY <3>3, <4>2 DEF PruneSweeps, TypeOK, Listed
      <4>3. CASE ~PruneLists(p) /\ ~PruneSweeps(p)
        BY <1>3, <2>2, <3>3, <4>3
        DEF Prune, PruneScans, PruneChecks, PruneRenames, PruneRechecks, PruneRestores,
            PruneRemoves, PruneEnds, Goto, TypeOK, Process
      <4> QED BY <4>1, <4>2, <4>3
    <3> QED BY <3>1, <3>2, <3>3 DEF Listed
  <2> QED BY <2>1, <2>2
<1>4. ASSUME NEW p \in Process, Killed(p) PROVE Listed'
  BY <1>4, KilledFrame DEF Listed, Process, disk
<1>5. CASE UNCHANGED vars
  BY <1>5 DEF vars, disk, Listed
<1> QED BY <1>1, <1>2, <1>3, <1>4, <1>5 DEF Next

\* A trainer points at the newest release after it is published, a switch while
\* no prune runs, and a prune spares the newest release and the one it read.
LEMMA PointedStep ==
  /\ TypeOK /\ Staged /\ Candidate /\ Spares /\ Spares' /\ Apart /\ Pointed
  /\ [Next]_vars
  => Pointed'
<1> SUFFICES ASSUME TypeOK, Staged, Candidate, Spares, Spares', Apart, Pointed,
                    [Next]_vars, overlapped' = {}, Keep > 0,
                    \A t \in Trainer : Target[t] = Newest
             PROVE  /\ pointer' = NoDigest \/ release'[pointer'] = "whole"
                    /\ \A t \in Trainer : pc'[t] = "published" => release'[Newest] = "whole"
                    /\ \A s \in Switcher : pc'[s] = "verified" => release'[goal'[s]] = "whole"
                    /\ \A p \in Pruner : pc'[p] = "read" => pointer' \in {goal'[p], Newest}
                    /\ \A p \in Pruner : pc'[p] \in Scanned => pointer' \notin todo'[p]
  BY DEF Pointed
<1> DEFINE Names == pointer' = NoDigest \/ release'[pointer'] = "whole"
           Published == \A t \in Trainer : pc'[t] = "published" => release'[Newest] = "whole"
           Verified == \A s \in Switcher :
                         pc'[s] = "verified" => release'[goal'[s]] = "whole"
           Reading == \A p \in Pruner : pc'[p] = "read" => pointer' \in {goal'[p], Newest}
           Choosing == \A p \in Pruner : pc'[p] \in Scanned => pointer' \notin todo'[p]
           Goal == Names /\ Published /\ Verified /\ Reading /\ Choosing
<1>1. ASSUME overlapped = {}
      PROVE  /\ pointer = NoDigest \/ release[pointer] = "whole"
             /\ \A t \in Trainer : pc[t] = "published" => release[Newest] = "whole"
             /\ \A s \in Switcher : pc[s] = "verified" => release[goal[s]] = "whole"
             /\ \A p \in Pruner : pc[p] = "read" => pointer \in {goal[p], Newest}
             /\ \A p \in Pruner : pc[p] \in Scanned => pointer \notin todo[p]
  BY <1>1 DEF Pointed
<1>2. \A p \in Pruner : Newest \notin todo[p] /\ Newest \notin todo'[p]
  BY StoreAssumption DEF Spares, Digest
<1>3. ASSUME NEW t \in Trainer, Export(t) PROVE Goal
  <2>1. overlapped = {} /\ Newest \in Digest
    BY <1>3, ExportFrame, StoreAssumption
  <2>2. \A d \in Digest : release[d] = "whole" => release'[d] = "whole"
    BY <1>3, ExportFrame
  <2>3. pointer' \in {pointer, Newest} /\ (pointer' # pointer => release[Newest] = "whole")
    <3>1. CASE ExportPoints(t)
      BY <1>1, <2>1, <3>1 DEF ExportPoints
    <3>2. CASE UNCHANGED pointer
      BY <3>2
    <3> QED
      BY <1>3, <3>1, <3>2 DEF Export, ExportStages, ExportWrites, ExportPublishes,
         ExportVerifies, ExportFails, disk
  <2>4. Names
    BY <1>1, <2>1, <2>2, <2>3 DEF TypeOK
  <2>5. pc'[t] = "published" => release'[Newest] = "whole"
    <3> USE DEF Goto, TypeOK, Process
    <3>1. CASE ExportPublishes(t)
      BY <2>1, <3>1 DEF ExportPublishes, Staged
    <3>2. CASE ExportVerifies(t)
      BY <2>1, <2>2, <3>2 DEF ExportVerifies
    <3>3. CASE ~ExportPublishes(t) /\ ~ExportVerifies(t)
      BY <1>3, <3>3 DEF Export, ExportStages, ExportWrites, ExportPoints, ExportFails
    <3> QED BY <3>1, <3>2, <3>3
  <2>6. Published
    BY <1>1, <1>3, <2>1, <2>2, <2>5, ExportFrame DEF Process
  <2>7. Verified
    BY <1>1, <1>3, <2>1, <2>2, ExportFrame, StoreAssumption DEF Process, Candidate
  <2>8. Reading /\ Choosing
    BY <1>1, <1>2, <1>3, <2>1, <2>3, ExportFrame, StoreAssumption DEF Process
  <2> QED BY <2>4, <2>6, <2>7, <2>8
<1>4. ASSUME NEW s \in Switcher, Switch(s) PROVE Goal
  <2>1. overlapped = {}
    BY <1>4, SwitchFrame
  <2>2. UNCHANGED <<release, todo>> /\ \A p \in Process : p # s => pc'[p] = pc[p]
    BY <1>4, SwitchFrame
  <2>3. CASE SwitchPoints(s)
    <3>1. pointer' = goal[s] /\ goal' = goal /\ release[goal[s]] = "whole" /\ pc'[s] = "done"
      BY <1>1, <2>1, <2>3 DEF SwitchPoints, Goto, TypeOK, Process
    <3>2. \A p \in Pruner : pc'[p] \notin Scanned \cup {"read"}
      <4>1. Running(s)
        BY <2>3 DEF SwitchPoints, Running, Ended
      <4> QED
        BY <2>1, <2>2, <4>1, StoreAssumption DEF Apart, Running, Ended, Scanned, Process
    <3> QED BY <1>1, <2>1, <2>2, <3>1, <3>2, StoreAssumption DEF Process
  <2>4. CASE ~SwitchPoints(s)
    <3>1. pointer' = pointer /\ (pc'[s] = "verified" => release'[goal'[s]] = "whole")
      BY <1>4, <2>2, <2>4
      DEF Switch, SwitchReads, SwitchChooses, SwitchVerifies, disk, Goto, TypeOK, Process
    <3>2. \A p \in Switcher \cup Pruner : p # s => goal'[p] = goal[p]
      BY <1>4, SwitchFrame
    <3> QED BY <1>1, <2>1, <2>2, <3>1, <3>2, StoreAssumption DEF Process
  <2> QED BY <2>3, <2>4
<1>5. ASSUME NEW p \in Pruner, Prune(p) PROVE Goal
  <2>1. /\ overlapped = {} /\ pointer' = pointer
        /\ \A q \in Process : q # p => pc'[q] = pc[q]
        /\ \A q \in Pruner : q # p => goal'[q] = goal[q] /\ todo'[q] = todo[q]
    BY <1>5, PruneFrame
  <2>2. \A s \in Switcher : pc'[s] # "verified"
    <3>1. \A s \in Switcher : ~Running(s)
      <4>1. CASE PruneReads(p)
        BY <4>1 DEF PruneReads
      <4>2. CASE ~PruneReads(p)
        BY <1>5, <2>1, <4>2, PruneFrame DEF Apart
      <4> QED BY <4>1, <4>2
    <3> QED BY <2>1, <3>1, StoreAssumption DEF Running, Ended, Process
  <2>3. ASSUME PruneRenames(p)
        PROVE  goal[p] \in todo[p] /\ pc[p] \in Scanned
    BY <2>3 DEF PruneRenames, Candidate, Scanned
  <2>4. ASSUME NEW d \in Digest, release[d] = "whole", d = Newest \/ d = pointer
        PROVE  release'[d] = "whole"
    <3>1. CASE PruneRenames(p)
      <4>1. goal[p] # d
        BY <1>1, <1>2, <2>1, <2>3, <2>4, <3>1
      <4> QED BY <2>4, <3>1, <4>1 DEF PruneRenames, TypeOK, disk
    <3>2. CASE PruneRestores(p)
      BY <2>4, <3>2 DEF PruneRestores, TypeOK, disk
    <3>3. CASE UNCHANGED release
      BY <2>4, <3>3
    <3> QED
      BY <1>5, <3>1, <3>2, <3>3
      DEF Prune, PruneReads, PruneScans, PruneChecks, PruneRechecks, PruneRemoves,
          PruneLists, PruneSweeps, PruneEnds, disk
  <2>5. Names
    BY <1>1, <2>1, <2>4 DEF TypeOK
  <2>6. Published
    <3>1. \A t \in Trainer : pc'[t] = pc[t] /\ Newest \in Digest
      BY <2>1, StoreAssumption DEF Process
    <3> QED BY <1>1, <2>1, <2>4, <3>1
  <2>7. pc'[p] = "read" => pointer' \in {goal'[p], Newest}
    <3>1. CASE PruneReads(p)
      BY <3>1 DEF PruneReads, TypeOK, disk
    <3>2. CASE ~PruneReads(p)
      BY <1>5, <3>2
      DEF Prune, PruneScans, PruneChecks, PruneRenames, PruneRechecks, PruneRestores,
          PruneRemoves, PruneLists, PruneSweeps, PruneEnds, Goto, TypeOK, Process
    <3> QED BY <3>1, <3>2
  <2>8. pc'[p] \in Scanned => pointer' \notin todo'[p]
    <3> USE DEF Goto, TypeOK, Process, Scanned
    <3>1. CASE PruneReads(p)
      BY <3>1 DEF PruneReads
    <3>2. CASE PruneScans(p)
      <4>1. pc[p] = "read" /\ (pc'[p] \in Scanned => goal[p] \notin todo'[p])
        <5>1. \/ pc' = [pc EXCEPT ![p] = "failed"]
              \/ \E older : todo' = [todo EXCEPT ![p] = older \ {goal[p]}]
          <6>1. PICK broken \in SUBSET Digest, cutoff \in 1..Newest + 1 :
                  LET valid == {d \in Digest : release[d] # "absent"} \ broken IN
                  IF goal[p] \in valid
                  THEN /\ pc' = [pc EXCEPT ![p] = "next"]
                       /\ todo' = [todo EXCEPT ![p] =
                            {d \in valid \ (NewestOf(valid) \cup {goal[p]}) : d < cutoff}]
                  ELSE pc' = [pc EXCEPT ![p] = "failed"] /\ todo' = todo
            BY <3>2 DEF PruneScans
          <6> DEFINE valid == {d \in Digest : release[d] # "absent"} \ broken
                     older == {d \in valid \ (NewestOf(valid) \cup {goal[p]}) : d < cutoff}
          <6>2. older = older \ {goal[p]}
            OBVIOUS
          <6> QED BY <6>1, <6>2
        <5> QED BY <3>2, <5>1 DEF PruneScans
      <4> QED BY <1>1, <1>2, <2>1, <4>1
    <3>3. CASE ~PruneReads(p) /\ ~PruneScans(p)
      <4>1. todo'[p] \subseteq todo[p] /\ pc[p] \in Scanned
        BY <1>5, <3>3
        DEF Prune, PruneChecks, PruneRenames, PruneRechecks, PruneRestores,
            PruneRemoves, PruneLists, PruneSweeps, PruneEnds
      <4> QED BY <1>1, <2>1, <4>1
    <3> QED BY <3>1, <3>2, <3>3
  <2> QED BY <1>1, <2>1, <2>2, <2>5, <2>6, <2>7, <2>8 DEF Process
<1>6. ASSUME NEW p \in Process, Killed(p) PROVE Goal
  BY <1>1, <1>6, KilledFrame DEF disk, Process, Scanned
<1>7. CASE UNCHANGED vars
  BY <1>1, <1>7 DEF vars, disk
<1> QED BY <1>3, <1>4, <1>5, <1>6, <1>7 DEF Next

-----------------------------------------------------------------------------
(* Theorems                                                                *)

\* Before any command runs.
LEMMA Initially == Init => IInv
<1> SUFFICES ASSUME Init PROVE IInv
  OBVIOUS
<1>1. TypeOK
  BY TypeInit
<1>2. Staged /\ Spares /\ Candidate
  BY StoreAssumption DEF Init, Staged, Spares, Candidate, Process
<1>3. OneAtATime /\ Apart
  BY DEF Init, OneAtATime, Apart, Running, Process
<1>4. Intact /\ Listed
  BY DEF Init, Intact, Listed, Process
<1>5. Pointed
  BY StoreAssumption DEF Init, Pointed, Scanned, Process
<1> QED BY <1>1, <1>2, <1>3, <1>4, <1>5 DEF IInv

\* Every reachable state of the store satisfies the inductive invariant.
THEOREM Invariance == Spec => []IInv
<1>1. Init => IInv
  BY Initially
<1>2. IInv /\ [Next]_vars => IInv'
  BY TypeStep, StagedStep, SparesStep, CandidateStep, OneAtATimeStep, ApartStep,
     IntactStep, ListedStep, PointedStep DEF IInv
<1> QED BY <1>1, <1>2, PTL DEF Spec

\* Every variable holds a value of its kind, for every number of processes and
\* of releases.
THEOREM TypeCorrect == Spec => []TypeOK
<1>1. IInv => TypeOK
  BY DEF IInv
<1> QED BY <1>1, Invariance, PTL

\* A directory with a release's name is whole, whatever is killed, while prunes
\* run one at a time (staging, _publish_release, the rename before a deletion).
THEOREM NeverPartial == Spec => []ReleasesWhole
<1>1. IInv => ReleasesWhole
  BY DEF IInv, Intact, ReleasesWhole
<1> QED BY <1>1, Invariance, PTL

\* current.json names a whole release while trainers of the newest release
\* publish and point during a prune that keeps any.
THEOREM PointerValid == Spec => []PointerNeverDangles
<1>1. IInv => PointerNeverDangles
  BY DEF IInv, Pointed, PointerNeverDangles
<1> QED BY <1>1, Invariance, PTL

\* An export that ended by itself owns no staging directory.
THEOREM NoStagingLeft == Spec => []StagingGone
<1>1. IInv => StagingGone
  BY DEF IInv, Staged, StagingGone
<1> QED BY <1>1, Invariance, PTL

\* No prune that keeps any takes the newest release away, whatever other
\* prunes, switches and trainers do meanwhile.
THEOREM NewestStays == Spec => NewestKept
<1> DEFINE Kept == \A d \in Digest :
             Keep > 0 /\ release[d] = "whole" /\ (\A e \in Digest : e > d => release[e] = "absent")
               => release'[d] = "whole"
<1>1. IInv /\ [Next]_vars => Kept
  <2> SUFFICES ASSUME IInv, [Next]_vars, NEW d \in Digest, Keep > 0, release[d] = "whole",
                      \A e \in Digest : e > d => release[e] = "absent"
               PROVE  release'[d] = "whole"
    OBVIOUS
  <2>1. \A p \in Pruner : d \notin todo[p]
    BY DEF IInv, Spares
  <2>2. \A p \in Pruner : ~(PruneRenames(p) /\ goal[p] = d)
    BY <2>1 DEF IInv, Candidate, PruneRenames
  <2> QED BY <2>2, TakenAway DEF IInv
<1>2. IInv /\ [Next]_vars => [Kept]_vars
  BY <1>1
<1> HIDE DEF Kept
<1>3. Spec => [][Kept]_vars
  BY <1>2, Invariance, PTL DEF Spec
<1> QED BY <1>3 DEF Kept, NewestKept

\* A prune that completes alone has deleted every leftover (pruningLeftovers).
THEOREM SweepCompletes == Spec => SweptClean
<1> DEFINE Swept == \A p \in Pruner :
             pc[p] # "done" /\ pc'[p] = "done" /\ "prune" \notin overlapped
               => \A q \in Pruner : pruning'[q] = "absent"
<1>1. IInv /\ [Next]_vars => [Swept]_vars
  <2> SUFFICES ASSUME IInv, Next, NEW p \in Pruner, pc[p] # "done", pc'[p] = "done",
                      "prune" \notin overlapped
               PROVE  \A q \in Pruner : pruning'[q] = "absent"
    OBVIOUS
  <2>0. TypeOK
    BY DEF IInv
  <2>1. ~\E t \in Trainer : Export(t)
    BY <2>0, ExportFrame, StoreAssumption DEF Process
  <2>2. ~\E s \in Switcher : Switch(s)
    BY <2>0, SwitchFrame, StoreAssumption DEF Process
  <2>3. ~\E q \in Process : Killed(q)
    BY <2>0, KilledFrame DEF Process
  <2>4. PICK q \in Pruner : Prune(q)
    BY <2>1, <2>2, <2>3 DEF Next
  <2>5. q = p
    BY <2>0, <2>4, PruneFrame DEF Process
  <2>6. PruneEnds(p)
    BY <2>0, <2>4, <2>5
    DEF Prune, PruneReads, PruneScans, PruneChecks, PruneRenames, PruneRechecks,
        PruneRestores, PruneRemoves, PruneLists, PruneSweeps, Goto, TypeOK, Process
  <2> QED BY <2>6 DEF PruneEnds, IInv, Listed, disk
<1> HIDE DEF Swept
<1>2. Spec => [][Swept]_vars
  BY <1>1, Invariance, PTL DEF Spec
<1> QED BY <1>2 DEF Swept, SweptClean
=============================================================================
