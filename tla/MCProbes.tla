------------------------------- MODULE MCProbes -------------------------------
(***************************************************************************)
(* The instances of MCSupervisor with the record of the probes.            *)
(***************************************************************************)
EXTENDS MCSupervisor, SupervisorProbes
=============================================================================
