-------------------------- MODULE MCTeacherJournal --------------------------
(* Model values for TeacherJournal: two cases in at most two rounds, one     *)
(* constraint, one twin out of two anchors.                                  *)
EXTENDS TeacherJournal
MCModes == {"direct", "auto", "ollama"}
MCOuts == {1, 3}
=============================================================================
