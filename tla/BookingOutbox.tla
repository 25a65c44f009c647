---------------------------- MODULE BookingOutbox ----------------------------
(***************************************************************************)
(* What the booking path promises, without files, requests or crashes: a   *)
(* queue whose head is recorded by the server at least once before it      *)
(* leaves the queue, and nothing leaves it in any other way.  The promise  *)
(* holds for as long as its surroundings keep theirs ("intact"), and ends  *)
(* with the first step at which they do not.  Implemented by TimeRecording.*)
(***************************************************************************)
EXTENDS Sequences

CONSTANT Event

VARIABLES
  pending,   \* events accepted and not discharged, oldest first
  recorded,  \* events the server has recorded
  intact     \* the surroundings have kept their side so far

Init == pending = <<>> /\ recorded = {} /\ intact = TRUE

\* A new event joins the end of the queue.
Accept(e) ==
  /\ e \notin recorded
  /\ \A i \in DOMAIN pending : pending[i] # e
  /\ pending' = Append(pending, e)
  /\ UNCHANGED recorded

\* The server records the oldest event, or one it has already.
Record ==
  /\ pending # <<>>
  /\ recorded' = recorded \cup {Head(pending)}
  /\ UNCHANGED pending

\* The oldest event is dropped once the server has it.
Discharge ==
  /\ pending # <<>>
  /\ Head(pending) \in recorded
  /\ pending' = Tail(pending)
  /\ UNCHANGED recorded

\* The surroundings fail: nothing is promised from here on.
Fail == intact' = FALSE

Next ==
  \/ intact /\ intact' /\ ((\E e \in Event : Accept(e)) \/ Record \/ Discharge)
  \/ Fail

Spec == Init /\ [][Next]_<<pending, recorded, intact>>
=============================================================================
