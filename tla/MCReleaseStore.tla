--------------------------- MODULE MCReleaseStore ---------------------------
(* Small instances of ReleaseStore for TLC.                                 *)
EXTENDS ReleaseStore, TLC

\* Every trainer exports the newest release, racing to publish it.
MCTarget == [t \in Trainer |-> Newest]

\* Trainers differ by name only, and so do prunes.
MCSymmetry == Permutations(Trainer) \cup Permutations(Pruner)
=============================================================================
