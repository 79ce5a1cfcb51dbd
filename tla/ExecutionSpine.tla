--------------------------- MODULE ExecutionSpine ---------------------------
(***************************************************************************)
(* `sourceosctl run` and the spine it drives: src/tools/sourceosctl.py     *)
(* (run_workload, cmd_run), executor.py (run_spine, execute),              *)
(* admission.py, mesh_telemetry.py, edge_worker.py and mcp_a2a_grant.py,   *)
(* over the placement of ComputePlane.                                     *)
(*                                                                         *)
(* A process of Procs runs one command after another: each admits, places, *)
(* grants, executes and charges.  Processes share the usage file and the   *)
(* heartbeat files and nothing else; there is no lock.  A command line     *)
(* makes a new AdmissionController, and so reads the ledger, each time; a  *)
(* resident process (a control loop) goes on with the one it has.  Any of  *)
(* them may be killed between two steps.                                   *)
(***************************************************************************)
EXTENDS ComputePlane, FiniteSetsExt

CONSTANTS Procs,
          Residents,    \* those that keep their controller between commands
          Requests,     \* [subject, work, policy, cost, attested, quorum, effect]
          Nodes,        \* mesh nodes
          NodeBackend,  \* the backend each of them announces
          Distro,       \* the distribution of those registered as workers
          Capacities,   \* the free capacities nodes announce
          Quota,        \* subject -> [concurrent, gpu, cost], as quota_for gives it
          MeshTTL,      \* MeshRegistry.ttl, in ticks
          MaxClock,     \* bound on the clock
          MaxJobs       \* bound on the commands started

Usage == [concurrent : Nat, gpu : Nat, cost : Nat]
Subjects == {r.subject : r \in Requests}

ASSUME RequestAssumption ==
  /\ \A r \in Requests : r.cost \in Nat /\ Len(r.policy.prefer) \in Nat
  /\ Quota \in [Subjects -> Usage]
  /\ Capacities \subseteq Nat
  /\ IsFiniteSet(Nodes) /\ MeshTTL \in Nat /\ MaxClock \in Nat

VARIABLES usage,     \* the ledger file: subject -> consumption
          whole,     \* FALSE while the file is truncated but not yet written
          copy,      \* each process's AdmissionController._usage
          beats,     \* heartbeat files: node -> [ts, cap] of the last beat
          proc,      \* the commands
          jobs,      \* what execute() dispatched: [id, req, backend, expired,
                     \* ran], ran if the backend was really given the job
          finished,  \* the jobs that ran and have ended
          clock,
          sound      \* TRUE until a charge is computed from a copy that is not
                     \* the file's, or a dispatch is never charged

vars == <<usage, whole, copy, beats, proc, jobs, finished, clock, sound>>
ledger == <<usage, whole, copy, sound>>
mesh == <<beats, clock>>
work == <<jobs, finished>>

Zero == [concurrent |-> 0, gpu |-> 0, cost |-> 0]
Nothing == [s \in Subjects |-> Zero]
Idle == [pc |-> "idle"]

Gpu(r) == IF r.work.gpu THEN 1 ELSE 0

(* admit(): every budget has room for this job.                            *)
AdmitSpent(u, r) ==
  /\ u.concurrent <= Quota[r.subject].concurrent
  /\ u.gpu + Gpu(r) <= Quota[r.subject].gpu
  /\ u.cost + r.cost <= Quota[r.subject].cost

Admit(u, r) ==
  /\ u.concurrent + 1 <= Quota[r.subject].concurrent
  /\ u.gpu + Gpu(r) <= Quota[r.subject].gpu
  /\ u.cost + r.cost <= Quota[r.subject].cost

(* charge() on the process's own copy of the ledger.                       *)
Charged(u, r) ==
  [u EXCEPT ![r.subject] = [concurrent |-> @.concurrent + 1,
                            gpu |-> @.gpu + Gpu(r), cost |-> @.cost + r.cost]]

(* register_worker() announces k3s-edge for every k3s, else k8s.           *)
Announced(n) ==
  IF n \notin DOMAIN Distro THEN NodeBackend[n]
  ELSE IF Distro[n] \in {"k3s-edge", "k3s-server"} THEN "k3s-edge" ELSE "k8s"

(* availability(): the capacity announced by the nodes that beat within    *)
(* the TTL, per backend.                                                   *)
NoBeat == [ts |-> -1, cap |-> 0]

LiveEver(snapshot) == {n \in Nodes : snapshot[n] # NoBeat}
Live(snapshot) ==
  {n \in Nodes : snapshot[n] # NoBeat /\ clock - snapshot[n].ts <= MeshTTL}

Availability(snapshot) ==
  [b \in Backends |->
     MapThenSumSet(LAMBDA n : snapshot[n].cap,
                   {n \in Live(snapshot) : Announced(n) = b})]

-----------------------------------------------------------------------------
(* The steps of one command.                                               *)

At(p, pc) == proc[p].pc = pc
Goto(p, rec) == proc' = [proc EXCEPT ![p] = rec]
Exit(p) == Goto(p, Idle)

(* _load(): a ledger that does not parse counts as empty.                  *)
Load == IF whole THEN usage ELSE Nothing

(* from_dir(): a heartbeat file that does not parse, because its node is   *)
(* just rewriting it, is skipped.                                          *)
FromDir(torn) == [n \in Nodes |-> IF n \in torn THEN NoBeat ELSE beats[n]]

Start(p, r) ==
  /\ At(p, "idle")
  /\ Cardinality(jobs) + Cardinality({q \in Procs : ~ At(q, "idle")}) < MaxJobs
  /\ \E torn \in SUBSET {n \in Nodes : beats[n] # NoBeat} :
       Goto(p, [pc |-> "admit", req |-> r, mesh |-> FromDir(torn)])
  /\ copy' = IF p \in Residents THEN copy ELSE [copy EXCEPT ![p] = Load]
  /\ UNCHANGED <<usage, whole, sound, mesh, work>>

Denied(p) ==
  /\ At(p, "admit")
  /\ ~ Admit(copy[p][proc[p].req.subject], proc[p].req)
  /\ Exit(p)
  /\ UNCHANGED <<ledger, mesh, work>>

(* place() against the heartbeats read at the start, as old as they now    *)
(* are.                                                                    *)
Admitted(p) ==
  LET r == proc[p].req
      b == Place(r.work, r.policy, Availability(proc[p].mesh))
  IN
  /\ At(p, "admit")
  /\ Admit(copy[p][r.subject], r)
  /\ IF b \in Backends THEN Goto(p, [pc |-> "grant", req |-> r, backend |-> b])
     ELSE Exit(p)
  /\ UNCHANGED <<ledger, mesh, work>>

(* issue_grant(): attestation, then the quorum, for which run_spine passes *)
(* no proof.                                                               *)
GrantRefused(p) ==
  /\ At(p, "grant")
  /\ ~ proc[p].req.attested \/ proc[p].req.quorum
  /\ Exit(p)
  /\ UNCHANGED <<ledger, mesh, work>>

GrantIssued(p) ==
  /\ At(p, "grant")
  /\ proc[p].req.attested /\ ~ proc[p].req.quorum
  /\ Goto(p, [pc |-> "execute", req |-> proc[p].req,
              backend |-> proc[p].backend, expired |-> FALSE])
  /\ UNCHANGED <<ledger, mesh, work>>

(* The command is suspended past the Grant's expiry.                       *)
GrantExpires(p) ==
  /\ At(p, "execute")
  /\ ~ proc[p].expired
  /\ Goto(p, [pc |-> "execute", req |-> proc[p].req,
              backend |-> proc[p].backend, expired |-> TRUE])
  /\ UNCHANGED <<ledger, mesh, work>>

(* verify_grant() at the node: the Grant carries the capability's effect.  *)
(* Signature and session are those it was issued with.                     *)
Verify(p) == ~ proc[p].expired /\ proc[p].req.effect = proc[p].req.work.effect

(* default_adapters()                                                      *)
Adapters == {"local", "k8s", "hpc-slurm", "connector",
             "wasm-edge", "p2p-mesh", "volunteer-boinc", "blockchain-rlc"}

DispatchRefused(p) ==
  /\ At(p, "execute")
  /\ ~ Verify(p) \/ proc[p].backend \notin Adapters
  /\ Exit(p)
  /\ UNCHANGED <<ledger, mesh, work>>

(* The adapters that can submit a job; the others write a descriptor for   *)
(* somebody else's scheduler.                                              *)
Submitting == {"local", "k8s", "hpc-slurm"}

AddJob(p, ran) ==
  jobs' = jobs \cup {[id |-> Cardinality(jobs) + 1, req |-> proc[p].req,
                      backend |-> proc[p].backend, expired |-> proc[p].expired,
                      ran |-> ran]}

(* The adapter answers, with applied or without: a descriptor, no --apply, *)
(* no command, no cluster or login node to send it to, and a kubectl or    *)
(* sbatch that fails are answers as well, and run_spine goes on to charge  *)
(* them all.                                                               *)
Dispatch(p, ran) ==
  /\ At(p, "execute")
  /\ Verify(p)
  /\ proc[p].backend \in Adapters
  /\ ran => proc[p].backend \in Submitting
  /\ AddJob(p, ran)
  /\ Goto(p, [pc |-> "charge", req |-> proc[p].req])
  /\ UNCHANGED <<ledger, mesh, finished>>

(* An adapter raises: a command or a manifest it cannot make, or a         *)
(* subprocess that runs into its timeout, by when the job may have been    *)
(* submitted.  It is not charged.                                          *)
DispatchRaisesCharged(p, submitted) ==
  /\ At(p, "execute")
  /\ Verify(p)
  /\ proc[p].backend \in Submitting
  /\ IF submitted THEN AddJob(p, TRUE) ELSE jobs' = jobs
  /\ Goto(p, [pc |-> "charge", req |-> proc[p].req])
  /\ UNCHANGED <<ledger, mesh, finished>>

DispatchRaises(p, submitted) ==
  /\ At(p, "execute")
  /\ Verify(p)
  /\ proc[p].backend \in Submitting
  /\ IF submitted THEN AddJob(p, TRUE) ELSE jobs' = jobs
  /\ sound' = (sound /\ ~ submitted)
  /\ Exit(p)
  /\ UNCHANGED <<usage, whole, copy, mesh, finished>>

(* charge() and _save(): the whole copy replaces the file, which is        *)
(* truncated first.                                                        *)
ChargeSkipped(p) ==
  /\ At(p, "charge")
  /\ Exit(p)
  /\ UNCHANGED <<ledger, mesh, work>>

SaveBegin(p) ==
  /\ At(p, "charge")
  /\ copy' = [copy EXCEPT ![p] = Charged(@, proc[p].req)]
  /\ whole' = FALSE
  /\ sound' = (sound /\ whole /\ copy[p] = usage)
  /\ Goto(p, [pc |-> "save"])
  /\ UNCHANGED <<usage, mesh, work>>

SaveEnd(p) ==
  /\ At(p, "save")
  /\ usage' = copy[p]
  /\ whole' = TRUE
  /\ Exit(p)
  /\ UNCHANGED <<copy, sound, mesh, work>>

(* The process is killed; a resident one starts again with what it reads.  *)
Crash(p) ==
  /\ ~ At(p, "idle")
  /\ sound' = (sound /\ ~ At(p, "charge") /\ ~ At(p, "save"))
  /\ copy' = IF p \in Residents THEN [copy EXCEPT ![p] = Load] ELSE copy
  /\ Exit(p)
  /\ UNCHANGED <<usage, whole, mesh, work>>

-----------------------------------------------------------------------------
(* The mesh, the jobs and the clock.                                       *)

(* write_heartbeat()                                                       *)
Heartbeat(n, c) ==
  /\ beats' = [beats EXCEPT ![n] = [ts |-> clock, cap |-> c]]
  /\ UNCHANGED <<ledger, proc, work, clock>>

(* A job that ran ends.  No caller of run_spine calls release().           *)
JobEnds(j) ==
  /\ j \in jobs \ finished
  /\ j.ran
  /\ finished' = finished \cup {j}
  /\ UNCHANGED <<ledger, mesh, proc, jobs>>

Tick ==
  /\ clock < MaxClock
  /\ clock' = clock + 1
  /\ UNCHANGED <<ledger, beats, proc, work>>

Init ==
  /\ usage = Nothing
  /\ whole = TRUE
  /\ copy = [p \in Procs |-> Nothing]
  /\ beats = [n \in Nodes |-> NoBeat]
  /\ proc = [p \in Procs |-> Idle]
  /\ jobs = {}
  /\ finished = {}
  /\ clock = 0
  /\ sound = TRUE

Command(p) ==
  \/ \E r \in Requests : Start(p, r)
  \/ Denied(p) \/ Admitted(p)
  \/ GrantRefused(p) \/ GrantIssued(p) \/ GrantExpires(p)
  \/ DispatchRefused(p)
  \/ \E ran \in BOOLEAN : Dispatch(p, ran)
  \/ \E submitted \in BOOLEAN : DispatchRaises(p, submitted)
  \/ SaveBegin(p) \/ SaveEnd(p) \/ Crash(p)

Next ==
  \/ \E p \in Procs : Command(p)
  \/ \E n \in Nodes, c \in Capacities : Heartbeat(n, c)
  \/ \E j \in jobs : JobEnds(j)
  \/ Tick

Spec == Init /\ [][Next]_vars

-----------------------------------------------------------------------------
JobsOf(s) == {j \in jobs : j.req.subject = s}
Ran(s) == {j \in JobsOf(s) : j.ran}
Running(s) == Ran(s) \ finished
Cost(S) == MapThenSumSet(LAMBDA j : j.req.cost, S)
GpuJobs(S) == {j \in S : j.req.work.gpu}

Beat == [ts : 0..MaxClock, cap : Capacities] \cup {NoBeat}
Job == [id : Nat, req : Requests, backend : Backends, expired : BOOLEAN, ran : BOOLEAN]
Phase ==
  {Idle}
  \cup [pc : {"admit"}, req : Requests, mesh : [Nodes -> Beat]]
  \cup [pc : {"grant"}, req : Requests, backend : Backends]
  \cup [pc : {"execute"}, req : Requests, backend : Backends, expired : BOOLEAN]
  \cup [pc : {"charge"}, req : Requests]
  \cup [pc : {"save"}]

TypeOK ==
  /\ usage \in [Subjects -> Usage]
  /\ whole \in BOOLEAN
  /\ copy \in [Procs -> [Subjects -> Usage]]
  /\ beats \in [Nodes -> Beat]
  /\ proc \in [Procs -> Phase]
  /\ jobs \in SUBSET Job /\ IsFiniteSet(jobs)
  /\ finished \subseteq jobs
  /\ clock \in 0..MaxClock
  /\ sound \in BOOLEAN

(* "consumption persists across processes (so a CLI enforces a real        *)
(* running budget, ...)" (admission.py:37-38): what a subject's jobs       *)
(* really use at any time is within its quota.                             *)
BudgetHolds ==
  \A s \in Subjects :
    /\ Cardinality(Running(s)) <= Quota[s].concurrent
    /\ Cardinality(GpuJobs(Running(s))) <= Quota[s].gpu
    /\ Cost(Ran(s)) <= Quota[s].cost

(* As long as no charge was computed from a copy of the ledger that is not *)
(* the file's, and no dispatch was left without its charge, the file is    *)
(* exactly one charge for each dispatch an adapter answered, applied or    *)
(* not, whenever no command runs, and what really runs is within the       *)
(* budgets: refusals at any gate, expired Grants, backends without an      *)
(* adapter, kills before the dispatch and residents that are up to date    *)
(* leave nothing behind.                                                   *)
LedgerSound ==
  sound /\ (\A p \in Procs : At(p, "idle")) =>
    /\ BudgetHolds
    /\ whole
    /\ \A s \in Subjects :
         usage[s] = [concurrent |-> Cardinality(JobsOf(s)),
                     gpu |-> Cardinality(GpuJobs(JobsOf(s))), cost |-> Cost(JobsOf(s))]

(* However commands overlap, tear the file or die, the ledger, which       *)
(* meter() bills (provisioning.py:83-90), never holds more than one charge *)
(* for each dispatch made for the subject: a denial, a refusal at any gate *)
(* or a command that died first costs nothing, and no copy brings back or  *)
(* doubles a charge.  This is not "only what ran is billed": a dispatch    *)
(* that submitted nothing is charged like one that did.                    *)
ChargesCovered ==
  \A s \in Subjects :
    /\ usage[s].concurrent <= Cardinality(JobsOf(s))
    /\ usage[s].gpu <= Cardinality(GpuJobs(JobsOf(s)))
    /\ usage[s].cost <= Cost(JobsOf(s))

(* However commands overlap, no ledger any of them writes goes over quota. *)
LedgerWithinQuota ==
  \A s \in Subjects :
    /\ usage[s].concurrent <= Quota[s].concurrent
    /\ usage[s].gpu <= Quota[s].gpu
    /\ usage[s].cost <= Quota[s].cost

(* "Fail-closed at every stage" (executor.py:231): nothing is dispatched   *)
(* that was not attested, or with a Grant of another effect or an expired  *)
(* one, or to a backend that the policy, the workload's sensitivity, GPU   *)
(* or hard needs rule out.                                                 *)
Governed ==
  \A j \in jobs :
    /\ j.req.attested /\ ~ j.req.quorum /\ ~ j.expired
    /\ j.req.effect = j.req.work.effect
    /\ j.backend \in Allowed(j.req.policy)
    /\ j.req.work.sensitive /\ j.req.policy.forbidUntrusted => j.backend \notin Untrusted
    /\ j.req.work.gpu => j.backend \in HasGpu
    /\ NeedsMet(j.req.work.needs, j.backend)

(* "A node that stops beating stops counting" (mesh_telemetry.py:9): a     *)
(* backend is chosen only if one of its nodes has beaten within the TTL,   *)
(* although the choice is made from heartbeats read earlier.               *)
LiveAtPlacement ==
  [][\A p \in Procs :
       At(p, "admit") /\ proc'[p].pc = "grant" =>
         \E n \in Nodes : /\ Announced(n) = proc'[p].backend
                          /\ beats[n].ts >= 0
                          /\ clock - beats[n].ts <= MeshTTL]_vars
=============================================================================
