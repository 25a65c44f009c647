-------------------------- MODULE MCBPNSerialPort --------------------------
(* Constants for model-checking BPNSerialPort. *)
EXTENDS BPNSerialPort

TelegramFails == {"error"}
LinkLost == {"unplug", "timeout"}
AllFaults == FaultKinds
=============================================================================
