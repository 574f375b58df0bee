------------------------- MODULE MCInferenceRuntime -------------------------
(* Small instances of InferenceRuntime for TLC.                             *)
EXTENDS InferenceRuntime

CONSTANTS r1, r2, i1, i2

\* Both requests are over one canonical input, as sibling sites of a handler are.
MCOneText == [r \in {r1, r2} |-> i1]

\* Each request has a canonical input of its own, so a scope of one entry evicts.
MCTwoTexts == [r \in {r1, r2} |-> IF r = r1 THEN i1 ELSE i2]
=============================================================================
