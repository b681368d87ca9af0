---------------------------- MODULE MCMaintenance ----------------------------
(* Maintenance with three processes: a master and two that may succeed it.   *)
EXTENDS Maintenance, TLC

CONSTANTS p1, p2, p3

MCProcesses == {p1, p2, p3}

Symmetry == Permutations(MCProcesses)
=============================================================================
