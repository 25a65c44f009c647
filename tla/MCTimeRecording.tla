--------------------------- MODULE MCTimeRecording ---------------------------
(* Constants for model-checking TimeRecording. *)
EXTENDS TimeRecording, TLC

CONSTANTS r1, r2, c1, c2

OneRequest == {r1}
TwoRequests == {r1, r2}
OneCard == {c1}
TwoCards == {c1, c2}

AllFaults == FaultKinds
BookingRefused == {"refuse"}
ServerUnreachable == {"get"}

NameSymmetry == Permutations(Requests) \cup Permutations(Cards)
=============================================================================
