----------------------------- MODULE MCTranscode -----------------------------
(* Transcode on two clients and two jobs; clients and jobs are symmetric.    *)
EXTENDS Transcode, TLC

CONSTANTS c1, c2, j1, j2

MCClients == {c1, c2}
MCJobs    == {j1, j2}
MCOneClient == {c1}
MCOneJob == {j1}
JobSymmetry == Permutations(MCJobs)
ClientSymmetry == Permutations(MCClients)
Symmetry  == Permutations(MCClients) \cup Permutations(MCJobs)
=============================================================================
