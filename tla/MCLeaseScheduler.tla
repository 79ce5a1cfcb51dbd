-------------------------- MODULE MCLeaseScheduler --------------------------
(* Instance of LeaseScheduler for TLC.                                     *)
EXTENDS LeaseScheduler, TLC

CONSTANTS a, b

MCWorkers == {a, b}
MCBatches == {1, 2}
Symmetry == Permutations(MCWorkers)
=============================================================================
