---------------------------- MODULE MCNtfyBridge ----------------------------
(* A small instance of the ntfy bridge for TLC. *)
EXTENDS NtfyBridge

TwoAlerts == <<"a1", "a2">>

AllFaults == FaultKinds
=============================================================================
