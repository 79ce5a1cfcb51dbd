-------------------------- MODULE MCExecutionSpine --------------------------
(* Instances of ExecutionSpine for TLC.                                    *)
EXTENDS ExecutionSpine, TLC

Work(sensitive, gpu, scalable, needs) ==
  [sensitive |-> sensitive, gpu |-> gpu, scalable |-> scalable, needs |-> needs,
   effect |-> "compute"]
Policy(allowed, prefer) ==
  [allowed |-> allowed, forbidUntrusted |-> TRUE, prefer |-> prefer]
Request(s, w, p, cost) ==
  [subject |-> s, work |-> w, policy |-> p, cost |-> cost,
   attested |-> TRUE, quorum |-> FALSE, effect |-> "compute"]

Plain == Work(FALSE, FALSE, TRUE, {})
Default == Policy({}, << >>)

(* One subject within and over budget, and a second one beside it.         *)
MCBudget == {Request("ann", Plain, Default, 1), Request("ann", Work(FALSE, TRUE, TRUE, {}), Default, 2),
             Request("bob", Plain, Default, 1)}

(* Sensitive, small, demanding and preferring workloads, and requests the  *)
(* Grant must stop.                                                        *)
MCRequests ==
  {Request("ann", Work(TRUE, FALSE, TRUE, {}), Default, 1),
   Request("ann", Work(FALSE, TRUE, FALSE, {[cap |-> "residency", values |-> {"cluster", "edge"}]}), Default, 2),
   Request("bob", Plain, Policy({"k3s-edge", "volunteer-boinc"}, <<"k8s", "k3s-edge">>), 1),
   [Request("bob", Plain, Default, 1) EXCEPT !.attested = FALSE],
   [Request("bob", Plain, Default, 1) EXCEPT !.quorum = TRUE],
   [Request("bob", Plain, Default, 1) EXCEPT !.effect = "read"]}

MCNodeBackend == [hpc |-> "hpc-slurm", grid |-> "volunteer-boinc"]
MCDistro == [edge |-> "k3s-server"]
MCQuota == [ann |-> [concurrent |-> 2, gpu |-> 1, cost |-> 2],
            bob |-> [concurrent |-> 1, gpu |-> 0, cost |-> 2]]
=============================================================================
