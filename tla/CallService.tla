---------------------------- MODULE CallService ----------------------------
(***************************************************************************)
(* What the synchronous inference bridge promises its caller: one call at  *)
(* a time; each ends with the answers to its own requests, with an error   *)
(* of its own, or with a failure that breaks the service for good; and     *)
(* every call ends.                                                        *)
(***************************************************************************)
EXTENDS Naturals, Sequences

CONSTANTS
  Request,       \* what can be asked
  OwnError,      \* the kinds of error that leave the service usable
  FatalError     \* the kinds of error that break it for good

VARIABLES
  status,        \* "starting", "up", "broken" or "closed"
  asked,         \* the requests of the call in progress, <<>> between calls
  outcome        \* how the last call ended

vars == <<status, asked, outcome>>

Outcome(kind, value) == [kind |-> kind, value |-> value]

Init ==
  /\ status = "starting"
  /\ asked = <<>>
  /\ outcome = Outcome("none", <<>>)

Start ==
  /\ status = "starting"
  /\ status' = "up"
  /\ UNCHANGED <<asked, outcome>>

StartFails ==
  /\ status = "starting"
  /\ status' = "closed"
  /\ UNCHANGED <<asked, outcome>>

Ask ==
  /\ status = "up"
  /\ asked = <<>>
  /\ asked' \in Seq(Request) \ {<<>>}
  /\ UNCHANGED <<status, outcome>>

\* The only value a call may return is the answer to what it asked.
Answer ==
  /\ asked # <<>>
  /\ outcome' = Outcome("value", asked)
  /\ asked' = <<>>
  /\ UNCHANGED status

Fail ==
  /\ asked # <<>>
  /\ \E kind \in OwnError : outcome' = Outcome(kind, <<>>)
  /\ asked' = <<>>
  /\ UNCHANGED status

\* The call ends and the service breaks: no answer in time, no worker.
FailForGood ==
  /\ asked # <<>>
  /\ status' = "broken"
  /\ \E kind \in FatalError : outcome' = Outcome(kind, <<>>)
  /\ asked' = <<>>

\* The service breaks while nobody is calling.
Break ==
  /\ asked = <<>>
  /\ status = "up"
  /\ status' = "broken"
  /\ UNCHANGED <<asked, outcome>>

\* A call that does not reach the service: its input is invalid, or the
\* service is broken or closed.
Refuse ==
  /\ asked = <<>>
  /\ \/ status = "up" /\ outcome' = Outcome("invalid-input", <<>>)
     \/ status \in {"broken", "closed"} /\ outcome' = Outcome("refused", <<>>)
  /\ UNCHANGED <<status, asked>>

Shut ==
  /\ asked = <<>>
  /\ status \in {"up", "broken"}
  /\ status' = "closed"
  /\ UNCHANGED <<asked, outcome>>

Next ==
  \/ Start \/ StartFails
  \/ Ask \/ Answer \/ Fail \/ FailForGood
  \/ Break \/ Refuse \/ Shut

Spec == Init /\ [][Next]_vars /\ WF_vars(Answer \/ Fail \/ FailForGood)
=============================================================================
