---------------------------- MODULE MCSupervisor ----------------------------
(* Instances of Supervisor for TLC.                                        *)
EXTENDS SupervisorInvariant, TLC

Instances == Permutations(Inst)
=============================================================================
