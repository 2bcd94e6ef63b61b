-------------------------- MODULE MCNfsSupervisor --------------------------
(* Small instances of the NFS supervisor for TLC. *)
EXTENDS NfsSupervisor

\* The two exports of the deployment, in the order of EXPORTS.
BothExports == <<"srv", "generated">>

AllFaults == FaultKinds
=============================================================================
