------------------------ MODULE MCArtifactLifecycle ------------------------
(* Small instances of ArtifactLifecycle for TLC: two releases to tell apart. *)
EXTENDS ArtifactLifecycle

CONSTANTS A, B
=============================================================================
