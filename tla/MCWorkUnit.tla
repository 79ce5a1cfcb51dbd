----------------------------- MODULE MCWorkUnit -----------------------------
(* An instance of WorkUnit for TLC: a replicated unit, and a canary.       *)
EXTENDS WorkUnit

MCReplication == [image |-> 3, canary |-> 1]
(* One late result of the replicated unit.                                 *)
MCMaxResults == [image |-> 4, canary |-> 1]
=============================================================================
