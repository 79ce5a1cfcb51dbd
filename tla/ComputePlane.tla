---------------------------- MODULE ComputePlane ----------------------------
(***************************************************************************)
(* src/tools/compute_plane.py: place() as an operator, with the table of   *)
(* substrates it chooses from.                                             *)
(***************************************************************************)
EXTENDS Integers, Sequences, FiniteSets

(* BACKENDS, in the dict's order: max() and min() keep the first of equals. *)
Order == <<"local", "k3s-edge", "k8s", "hpc-slurm", "wasm-edge", "p2p-mesh",
           "volunteer-boinc", "blockchain-rlc", "connector">>
Backends == {Order[i] : i \in 1..Len(Order)}
Position(b) == CHOOSE i \in 1..Len(Order) : Order[i] = b

Elasticity(b) == <<1, 3, 6, 9, 7, 8, 10, 8, 9>>[Position(b)]
Untrusted == {"p2p-mesh", "volunteer-boinc", "blockchain-rlc", "connector"}
HasGpu == {"k8s", "hpc-slurm", "blockchain-rlc", "connector"}

(* BACKEND_CAPS: the capabilities a backend provably has, with their       *)
(* values; "yes" is True.                                                  *)
Caps ==
  {<<"local", "residency", "local">>, <<"local", "no_egress", "yes">>,
   <<"k3s-edge", "residency", "edge">>, <<"k3s-edge", "single_master", "yes">>,
   <<"k8s", "residency", "cluster">>, <<"k8s", "fips", "yes">>,
   <<"hpc-slurm", "residency", "cluster">>, <<"hpc-slurm", "fips", "yes">>,
   <<"hpc-slurm", "tee", "yes">>, <<"wasm-edge", "residency", "edge">>,
   <<"wasm-edge", "deterministic", "yes">>, <<"connector", "residency", "vendor">>}

(* _needs_met: a need is a capability and the values that satisfy it.      *)
NeedsMet(needs, b) ==
  \A n \in needs : \E v \in n.values : <<b, n.cap, v>> \in Caps

(* A policy is [allowed, forbidUntrusted, prefer]; an empty allowed list   *)
(* means all backends, as `policy.get("allowed_backends") or ...` does.    *)
Allowed(policy) == IF policy.allowed = {} THEN Backends ELSE policy.allowed

CandidatesOpen(w, policy, avail) ==
  {b \in Backends \cap Allowed(policy) :
     /\ avail[b] > 0
     /\ w.gpu => b \in HasGpu
     /\ NeedsMet(w.needs, b)}

Candidates(w, policy, avail) ==
  {b \in Backends \cap Allowed(policy) :
     /\ avail[b] > 0
     /\ w.gpu => b \in HasGpu
     /\ w.sensitive /\ policy.forbidUntrusted => b \notin Untrusted
     /\ NeedsMet(w.needs, b)}

Bigger(a, b, avail) ==
  \/ Elasticity(a) > Elasticity(b)
  \/ Elasticity(a) = Elasticity(b) /\ avail[a] > avail[b]
  \/ Elasticity(a) = Elasticity(b) /\ avail[a] = avail[b] /\ Position(a) < Position(b)

Smaller(a, b) ==
  \/ Elasticity(a) < Elasticity(b)
  \/ Elasticity(a) = Elasticity(b) /\ Position(a) < Position(b)

Choice(w, policy, avail, C) ==
  LET preferred == {i \in 1..Len(policy.prefer) : policy.prefer[i] \in C}
  IN  IF preferred # {}
        THEN policy.prefer[CHOOSE i \in preferred : \A k \in preferred : i <= k]
      ELSE IF w.scalable
        THEN CHOOSE b \in C : \A o \in C \ {b} : Bigger(b, o, avail)
        ELSE CHOOSE b \in C : \A o \in C \ {b} : Smaller(b, o)

(* place(): the backend, or "blocked".                                     *)
Place(w, policy, avail) ==
  LET C == Candidates(w, policy, avail)
  IN  IF C = {} THEN "blocked" ELSE Choice(w, policy, avail, C)
=============================================================================
