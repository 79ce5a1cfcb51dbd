------------------------------ MODULE WorkPool ------------------------------
(***************************************************************************)
(* What the docstring of src/tools/lease_scheduler.py (lines 4-16)         *)
(* promises of the dispatcher, with no leases, deadlines, lists or ids:    *)
(* a unit waits in the pool, is lent to one worker, or is finished for     *)
(* good; lending never exceeds the Limiter; a lent unit that is not        *)
(* returned goes back to the pool.                                         *)
(***************************************************************************)
EXTENDS Naturals

CONSTANTS Units,        \* indices of the Work Units
          Workers,
          MaxInFlight   \* the Limiter

VARIABLES pool,      \* units nobody works on
          lent,      \* <<unit, worker>>: who works on what
          finished   \* units with a result

vars == <<pool, lent, finished>>

UnitsOf(R) == {p[1] : p \in R}
HeldBy(R, w) == {p \in R : p[2] = w}

(* There are at most MaxInFlight of the loans H: each can have one of the  *)
(* Limiter's slots to itself.                                              *)
WithinLimit(H) ==
  \E slot \in [H -> 1..MaxInFlight] : \A p, q \in H : slot[p] = slot[q] => p = q

Init ==
  /\ pool = Units
  /\ lent = {}
  /\ finished = {}

(* The lent units R come back unfinished; the units S, all of them in the  *)
(* pool by then, go to worker w, within the Limiter.                       *)
Lend(w, R, S) ==
  /\ R \subseteq lent
  /\ S \subseteq pool \cup UnitsOf(R)
  /\ pool' = (pool \cup UnitsOf(R)) \ S
  /\ lent' = (lent \ R) \cup (S \X {w})
  /\ S # {} => WithinLimit(HeldBy(lent', w))
  /\ UNCHANGED finished

(* The worker of the pair p returns its result.                            *)
Finish(p) ==
  /\ p \in lent
  /\ lent' = lent \ {p}
  /\ finished' = finished \cup {p[1]}
  /\ UNCHANGED pool

Next ==
  \/ \E w \in Workers, R \in SUBSET lent, S \in SUBSET Units : Lend(w, R, S)
  \/ \E p \in lent : Finish(p)

Spec == Init /\ [][Next]_vars
=============================================================================
