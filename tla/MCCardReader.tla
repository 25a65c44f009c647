---------------------------- MODULE MCCardReader ----------------------------
(* Constants for model-checking CardReader. *)
EXTENDS CardReader

CONSTANTS c1, c2
TwoCards == {c1, c2}

AllFaults == FaultKinds
AnswersLate == {"late"}
=============================================================================
