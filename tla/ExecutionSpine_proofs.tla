----------------------- MODULE ExecutionSpine_proofs -----------------------
(***************************************************************************)
(* Proofs about ExecutionSpine, for every set of processes, requests,      *)
(* quotas and nodes: what the ledger promises however commands overlap,    *)
(* tear the file or die.                                                   *)
(***************************************************************************)
EXTENDS ExecutionSpine, DataLemmas

WithinQuota(ledgerOf) ==
  \A s \in Subjects :
    /\ ledgerOf[s].concurrent <= Quota[s].concurrent
    /\ ledgerOf[s].gpu <= Quota[s].gpu
    /\ ledgerOf[s].cost <= Quota[s].cost

(* The copies of the ledger are within the quotas too.                     *)
CopiesWithinQuota == \A p \in Procs : WithinQuota(copy[p])

(* A command that was admitted still has its room in its own copy.         *)
RoomKept ==
  \A p \in Procs :
    proc[p].pc \in {"grant", "execute", "charge"} =>
      Admit(copy[p][proc[p].req.subject], proc[p].req)

IInv == TypeOK /\ LedgerWithinQuota /\ CopiesWithinQuota /\ RoomKept

-----------------------------------------------------------------------------
(* What a command carries.                                                 *)
LEMMA PhaseCarries ==
  ASSUME NEW c \in Phase
  PROVE  /\ c.pc \in {"admit", "grant", "execute", "charge"} => c.req \in Requests
         /\ c.pc = "admit" => c.mesh \in [Nodes -> Beat]
         /\ c.pc \in {"grant", "execute"} => c.backend \in Backends
         /\ c.pc = "execute" => c.expired \in BOOLEAN
<1> HIDE DEF Backends
<1>1. CASE c = Idle
  BY <1>1 DEF Idle
<1>2. CASE c \in [pc : {"admit"}, req : Requests, mesh : [Nodes -> Beat]]
  BY <1>2
<1>3. CASE c \in [pc : {"grant"}, req : Requests, backend : Backends]
  BY <1>3
<1>4. CASE c \in [pc : {"execute"}, req : Requests, backend : Backends, expired : BOOLEAN]
  BY <1>4
<1>5. CASE c \in [pc : {"charge"}, req : Requests]
  BY <1>5
<1>6. CASE c \in [pc : {"save"}]
  BY <1>6
<1> QED
  BY <1>1, <1>2, <1>3, <1>4, <1>5, <1>6 DEF Phase

LEMMA NothingTyped == Nothing \in [Subjects -> Usage] /\ WithinQuota(Nothing)
  BY RequestAssumption DEF Nothing, Zero, Usage, WithinQuota

(* Charging what was admitted stays within the quotas.                     *)
LEMMA ChargedTyped ==
  ASSUME NEW u \in [Subjects -> Usage], NEW r \in Requests, WithinQuota(u), Admit(u[r.subject], r)
  PROVE  Charged(u, r) \in [Subjects -> Usage] /\ WithinQuota(Charged(u, r))
<1> DEFINE v == Charged(u, r)
           g == Gpu(r)
           c == [concurrent |-> u[r.subject].concurrent + 1,
                 gpu |-> u[r.subject].gpu + g, cost |-> u[r.subject].cost + r.cost]
<1>1. r.subject \in Subjects /\ g \in Nat /\ r.cost \in Nat
  BY RequestAssumption DEF Subjects, Gpu
<1>2. /\ u[r.subject].concurrent \in Nat /\ u[r.subject].gpu \in Nat /\ u[r.subject].cost \in Nat
      /\ Quota \in [Subjects -> Usage]
  BY <1>1, RequestAssumption DEF Usage
<1>3. v = [u EXCEPT ![r.subject] = c]
  BY DEF Charged
<1> HIDE DEF g, v
<1>4. c \in Usage
  BY <1>1, <1>2 DEF Usage
<1>5. /\ c.concurrent <= Quota[r.subject].concurrent /\ c.gpu <= Quota[r.subject].gpu
      /\ c.cost <= Quota[r.subject].cost
  BY DEF Admit, g
<1> HIDE DEF c
<1>6. v \in [Subjects -> Usage] /\ v[r.subject] = c
      /\ \A s \in Subjects \ {r.subject} : v[s] = u[s]
  BY <1>1, <1>3, <1>4
<1>7. WithinQuota(v)
  <2> SUFFICES ASSUME NEW s \in Subjects
               PROVE  /\ v[s].concurrent <= Quota[s].concurrent
                      /\ v[s].gpu <= Quota[s].gpu /\ v[s].cost <= Quota[s].cost
    BY DEF WithinQuota
  <2>1. CASE s = r.subject
    BY <1>5, <1>6, <2>1
  <2>2. CASE s # r.subject
    BY <1>6, <2>2 DEF WithinQuota
  <2> QED
    BY <2>1, <2>2
<1> QED
  BY <1>6, <1>7 DEF v

LEMMA LoadTyped ==
  ASSUME IInv PROVE Load \in [Subjects -> Usage] /\ WithinQuota(Load)
BY NothingTyped DEF Load, IInv, TypeOK, LedgerWithinQuota, WithinQuota

LEMMA InitInvariant == Init => IInv
<1> SUFFICES ASSUME Init PROVE IInv
  OBVIOUS
<1>1. TypeOK
  BY NothingTyped, FS_EmptySet, RequestAssumption DEF Init, TypeOK, Beat, Phase
<1>2. LedgerWithinQuota /\ CopiesWithinQuota
  BY NothingTyped DEF Init, LedgerWithinQuota, CopiesWithinQuota, WithinQuota
<1>3. RoomKept
  BY DEF Init, RoomKept, Idle
<1> QED
  BY <1>1, <1>2, <1>3 DEF IInv

-----------------------------------------------------------------------------
(* The steps of a command that leave the ledger and the copies alone.      *)
LEMMA GotoPreserves ==
  ASSUME IInv, NEW p \in Procs, NEW c \in Phase, Goto(p, c),
         UNCHANGED <<usage, whole, copy, mesh, finished>>,
         sound' \in BOOLEAN,
         jobs' \in SUBSET Job, IsFiniteSet(jobs'), finished \subseteq jobs',
         c.pc \in {"grant", "execute", "charge"} => Admit(copy[p][c.req.subject], c.req)
  PROVE  IInv'
<1>1. /\ proc' \in [Procs -> Phase] /\ proc'[p] = c
      /\ \A q \in Procs \ {p} : proc'[q] = proc[q]
  BY DEF Goto, IInv, TypeOK
<1>2. TypeOK'
  BY <1>1 DEF IInv, TypeOK, mesh
<1>3. LedgerWithinQuota' /\ CopiesWithinQuota'
  BY DEF IInv, LedgerWithinQuota, CopiesWithinQuota, WithinQuota
<1>4. RoomKept'
  <2> SUFFICES ASSUME NEW q \in Procs, proc'[q].pc \in {"grant", "execute", "charge"}
               PROVE  Admit(copy[q][proc'[q].req.subject], proc'[q].req)
    BY DEF RoomKept
  <2>1. CASE q = p
    BY <1>1, <2>1
  <2>2. CASE q # p
    BY <1>1, <2>2 DEF IInv, RoomKept
  <2> QED
    BY <2>1, <2>2
<1> QED
  BY <1>2, <1>3, <1>4 DEF IInv

LEMMA IdlePhase == Idle \in Phase /\ Idle.pc \notin {"grant", "execute", "charge"}
  BY DEF Idle, Phase

(* A command that ends without a dispatch.                                 *)
LEMMA ExitPreserves ==
  ASSUME IInv, NEW p \in Procs, Exit(p), UNCHANGED <<ledger, mesh, work>>
  PROVE  IInv'
<1>1. /\ sound' \in BOOLEAN /\ jobs' \in SUBSET Job /\ IsFiniteSet(jobs') /\ finished \subseteq jobs'
      /\ UNCHANGED <<usage, whole, copy, mesh, finished>>
  BY DEF ledger, work, IInv, TypeOK
<1> QED
  BY <1>1, IdlePhase, GotoPreserves DEF Exit

LEMMA StartPreserves ==
  ASSUME IInv, NEW p \in Procs, NEW r \in Requests, Start(p, r)
  PROVE  IInv'
<1>1. PICK torn \in SUBSET {n \in Nodes : beats[n] # NoBeat} :
        Goto(p, [pc |-> "admit", req |-> r, mesh |-> FromDir(torn)])
  BY DEF Start
<1> DEFINE c == [pc |-> "admit", req |-> r, mesh |-> FromDir(torn)]
<1>2. c \in Phase /\ c.pc = "admit"
  BY DEF FromDir, Phase, IInv, TypeOK, Beat
<1> HIDE DEF c
<1>3. /\ proc' \in [Procs -> Phase] /\ proc'[p] = c
      /\ \A q \in Procs \ {p} : proc'[q] = proc[q]
  BY <1>1, <1>2 DEF Goto, IInv, TypeOK, c
<1>4. /\ copy' \in [Procs -> [Subjects -> Usage]]
      /\ \A q \in Procs : copy'[q] = copy[q] \/ (q = p /\ copy'[q] = Load)
  BY LoadTyped DEF Start, IInv, TypeOK
<1>5. UNCHANGED <<usage, whole, sound, mesh, work>>
  BY DEF Start
<1>6. TypeOK'
  BY <1>3, <1>4, <1>5 DEF IInv, TypeOK, mesh, work
<1>7. CopiesWithinQuota'
  BY <1>4, LoadTyped DEF IInv, CopiesWithinQuota, WithinQuota
<1>8. RoomKept'
  BY <1>2, <1>3, <1>4 DEF IInv, RoomKept
<1> QED
  BY <1>5, <1>6, <1>7, <1>8 DEF IInv, LedgerWithinQuota

LEMMA AdmittedPreserves == ASSUME IInv, NEW p \in Procs, Admitted(p) PROVE IInv'
<1> DEFINE r == proc[p].req
           b == Place(r.work, r.policy, Availability(proc[p].mesh))
<1>1. /\ UNCHANGED <<ledger, mesh, work>> /\ Admit(copy[p][r.subject], r) /\ r \in Requests
      /\ IF b \in Backends THEN Goto(p, [pc |-> "grant", req |-> r, backend |-> b]) ELSE Exit(p)
  BY PhaseCarries DEF Admitted, At, IInv, TypeOK
<1> HIDE DEF r, b
<1>2. CASE b \notin Backends
  BY <1>1, <1>2, ExitPreserves
<1>3. CASE b \in Backends
  <2> DEFINE c == [pc |-> "grant", req |-> r, backend |-> b]
  <2>1. c \in Phase /\ c.req = r
    BY <1>1, <1>3 DEF Phase
  <2>2. Goto(p, c)
    BY <1>1, <1>3
  <2> HIDE DEF c
  <2>3. /\ sound' \in BOOLEAN /\ jobs' \in SUBSET Job /\ IsFiniteSet(jobs')
        /\ finished \subseteq jobs' /\ UNCHANGED <<usage, whole, copy, mesh, finished>>
    BY <1>1 DEF ledger, work, IInv, TypeOK
  <2> QED
    BY <1>1, <2>1, <2>2, <2>3, GotoPreserves
<1> QED
  BY <1>2, <1>3

LEMMA GrantIssuedPreserves == ASSUME IInv, NEW p \in Procs, GrantIssued(p) PROVE IInv'
<1> DEFINE c == [pc |-> "execute", req |-> proc[p].req,
                 backend |-> proc[p].backend, expired |-> FALSE]
<1>1. /\ proc[p] \in Phase /\ proc[p].pc = "grant"
      /\ Admit(copy[p][proc[p].req.subject], proc[p].req)
  BY DEF GrantIssued, At, IInv, TypeOK, RoomKept
<1>2. c \in Phase /\ c.req = proc[p].req
  BY <1>1, PhaseCarries DEF Phase
<1>3. /\ sound' \in BOOLEAN /\ jobs' \in SUBSET Job /\ IsFiniteSet(jobs')
      /\ finished \subseteq jobs' /\ UNCHANGED <<usage, whole, copy, mesh, finished>>
  BY DEF GrantIssued, ledger, work, IInv, TypeOK
<1>4. Goto(p, c)
  BY DEF GrantIssued
<1> HIDE DEF c
<1> QED
  BY <1>1, <1>2, <1>3, <1>4, GotoPreserves

LEMMA GrantExpiresPreserves == ASSUME IInv, NEW p \in Procs, GrantExpires(p) PROVE IInv'
<1> DEFINE c == [pc |-> "execute", req |-> proc[p].req,
                 backend |-> proc[p].backend, expired |-> TRUE]
<1>1. /\ proc[p] \in Phase /\ proc[p].pc = "execute"
      /\ Admit(copy[p][proc[p].req.subject], proc[p].req)
  BY DEF GrantExpires, At, IInv, TypeOK, RoomKept
<1>2. c \in Phase /\ c.req = proc[p].req
  BY <1>1, PhaseCarries DEF Phase
<1>3. /\ sound' \in BOOLEAN /\ jobs' \in SUBSET Job /\ IsFiniteSet(jobs')
      /\ finished \subseteq jobs' /\ UNCHANGED <<usage, whole, copy, mesh, finished>>
  BY DEF GrantExpires, ledger, work, IInv, TypeOK
<1>4. Goto(p, c)
  BY DEF GrantExpires
<1> HIDE DEF c
<1> QED
  BY <1>1, <1>2, <1>3, <1>4, GotoPreserves

(* A dispatch adds a job to those there are.                               *)
LEMMA AddJobTyped ==
  ASSUME IInv, NEW p \in Procs, NEW ran \in BOOLEAN, At(p, "execute"), AddJob(p, ran)
  PROVE  jobs' \in SUBSET Job /\ IsFiniteSet(jobs') /\ finished \subseteq jobs'
<1> DEFINE j == [id |-> Cardinality(jobs) + 1, req |-> proc[p].req,
                 backend |-> proc[p].backend, expired |-> proc[p].expired,
                 ran |-> ran]
<1>1. proc[p] \in Phase /\ proc[p].pc = "execute" /\ IsFiniteSet(jobs)
  BY DEF At, IInv, TypeOK
<1>2. Cardinality(jobs) \in Nat
  BY <1>1, FS_CardinalityType
<1>3. j \in Job
  BY <1>1, <1>2, PhaseCarries DEF Job
<1>4. jobs' = jobs \cup {j}
  BY DEF AddJob
<1> HIDE DEF j
<1> QED
  BY <1>1, <1>3, <1>4, FS_AddElement DEF IInv, TypeOK

LEMMA DispatchPreserves ==
  ASSUME IInv, NEW p \in Procs, NEW ran \in BOOLEAN, Dispatch(p, ran) PROVE IInv'
<1> DEFINE c == [pc |-> "charge", req |-> proc[p].req]
<1>1. /\ proc[p] \in Phase /\ proc[p].pc = "execute"
      /\ Admit(copy[p][proc[p].req.subject], proc[p].req)
  BY DEF Dispatch, At, IInv, TypeOK, RoomKept
<1>2. c \in Phase /\ c.req = proc[p].req
  BY <1>1, PhaseCarries DEF Phase
<1>3. jobs' \in SUBSET Job /\ IsFiniteSet(jobs') /\ finished \subseteq jobs'
  BY AddJobTyped DEF Dispatch
<1>4. sound' \in BOOLEAN /\ UNCHANGED <<usage, whole, copy, mesh, finished>> /\ Goto(p, c)
  BY DEF Dispatch, ledger, IInv, TypeOK
<1> HIDE DEF c
<1> QED
  BY <1>1, <1>2, <1>3, <1>4, GotoPreserves

LEMMA DispatchRaisesPreserves ==
  ASSUME IInv, NEW p \in Procs, NEW submitted \in BOOLEAN, DispatchRaises(p, submitted)
  PROVE  IInv'
<1>1. jobs' \in SUBSET Job /\ IsFiniteSet(jobs') /\ finished \subseteq jobs'
  BY AddJobTyped DEF DispatchRaises, IInv, TypeOK
<1>2. sound' \in BOOLEAN /\ UNCHANGED <<usage, whole, copy, mesh, finished>> /\ Goto(p, Idle)
  BY DEF DispatchRaises, Exit, IInv, TypeOK
<1> QED
  BY <1>1, <1>2, IdlePhase, GotoPreserves

-----------------------------------------------------------------------------
(* The steps that change the ledger or a copy of it.                       *)
LEMMA SaveBeginPreserves == ASSUME IInv, NEW p \in Procs, SaveBegin(p) PROVE IInv'
<1> DEFINE r == proc[p].req
           v == Charged(copy[p], r)
<1>1. /\ proc[p] \in Phase /\ proc[p].pc = "charge" /\ Admit(copy[p][r.subject], r)
      /\ copy[p] \in [Subjects -> Usage] /\ WithinQuota(copy[p])
  BY DEF SaveBegin, At, IInv, TypeOK, RoomKept, CopiesWithinQuota
<1>2. r \in Requests
  BY <1>1, PhaseCarries
<1>3. copy' = [copy EXCEPT ![p] = v] /\ proc' = [proc EXCEPT ![p] = [pc |-> "save"]]
  BY DEF SaveBegin, Goto
<1> HIDE DEF r
<1>4. v \in [Subjects -> Usage] /\ WithinQuota(v)
  BY <1>1, <1>2, ChargedTyped
<1> HIDE DEF v
<1>5. /\ copy' \in [Procs -> [Subjects -> Usage]] /\ copy'[p] = v
      /\ \A q \in Procs \ {p} : copy'[q] = copy[q]
  BY <1>3, <1>4 DEF IInv, TypeOK
<1>6. /\ proc' \in [Procs -> Phase] /\ proc'[p].pc = "save"
      /\ \A q \in Procs \ {p} : proc'[q] = proc[q]
  BY <1>3 DEF IInv, TypeOK, Phase
<1>7. UNCHANGED <<usage, mesh, work>> /\ whole' \in BOOLEAN /\ sound' \in BOOLEAN
  BY DEF SaveBegin, IInv, TypeOK
<1>8. TypeOK'
  BY <1>5, <1>6, <1>7 DEF IInv, TypeOK, mesh, work
<1>9. CopiesWithinQuota'
  BY <1>4, <1>5 DEF IInv, CopiesWithinQuota, WithinQuota
<1>10. RoomKept'
  BY <1>5, <1>6 DEF IInv, RoomKept
<1> QED
  BY <1>7, <1>8, <1>9, <1>10 DEF IInv, LedgerWithinQuota

LEMMA SaveEndPreserves == ASSUME IInv, NEW p \in Procs, SaveEnd(p) PROVE IInv'
<1>1. /\ usage' = copy[p] /\ whole' = TRUE /\ UNCHANGED <<copy, sound, mesh, work>>
      /\ proc' = [proc EXCEPT ![p] = Idle]
  BY DEF SaveEnd, Exit, Goto
<1>2. /\ proc' \in [Procs -> Phase] /\ proc'[p] = Idle
      /\ \A q \in Procs \ {p} : proc'[q] = proc[q]
  BY <1>1, IdlePhase DEF IInv, TypeOK
<1>3. TypeOK'
  BY <1>1, <1>2 DEF IInv, TypeOK, mesh, work
<1>4. LedgerWithinQuota' /\ CopiesWithinQuota'
  BY <1>1 DEF IInv, LedgerWithinQuota, CopiesWithinQuota, WithinQuota
<1>5. RoomKept'
  BY <1>1, <1>2, IdlePhase DEF IInv, RoomKept
<1> QED
  BY <1>3, <1>4, <1>5 DEF IInv

LEMMA CrashPreserves == ASSUME IInv, NEW p \in Procs, Crash(p) PROVE IInv'
<1>1. /\ proc' = [proc EXCEPT ![p] = Idle] /\ UNCHANGED <<usage, whole, mesh, work>>
      /\ sound' \in BOOLEAN
  BY DEF Crash, Exit, Goto, At, IInv, TypeOK
<1>2. /\ proc' \in [Procs -> Phase] /\ proc'[p] = Idle
      /\ \A q \in Procs \ {p} : proc'[q] = proc[q]
  BY <1>1, IdlePhase DEF IInv, TypeOK
<1>3. /\ copy' \in [Procs -> [Subjects -> Usage]]
      /\ \A q \in Procs : copy'[q] = copy[q] \/ (q = p /\ copy'[q] = Load)
  BY LoadTyped DEF Crash, IInv, TypeOK
<1>4. TypeOK'
  BY <1>1, <1>2, <1>3 DEF IInv, TypeOK, mesh, work
<1>5. CopiesWithinQuota'
  BY <1>3, LoadTyped DEF IInv, CopiesWithinQuota, WithinQuota
<1>6. RoomKept'
  BY <1>2, <1>3, IdlePhase DEF IInv, RoomKept
<1> QED
  BY <1>1, <1>4, <1>5, <1>6 DEF IInv, LedgerWithinQuota

LEMMA CommandPreserves == ASSUME IInv, NEW p \in Procs, Command(p) PROVE IInv'
<1>1. ASSUME Denied(p) \/ GrantRefused(p) \/ DispatchRefused(p) PROVE IInv'
  BY <1>1, ExitPreserves DEF Denied, GrantRefused, DispatchRefused
<1> QED
  BY <1>1, StartPreserves, AdmittedPreserves, GrantIssuedPreserves, GrantExpiresPreserves,
     DispatchPreserves, DispatchRaisesPreserves, SaveBeginPreserves, SaveEndPreserves,
     CrashPreserves DEF Command

(* The mesh, the jobs and the clock do not touch the ledger.               *)
LEMMA WorldPreserves ==
  ASSUME IInv,
         \/ \E n \in Nodes, c \in Capacities : Heartbeat(n, c)
         \/ \E j \in jobs : JobEnds(j)
         \/ Tick
  PROVE  IInv'
<1>1. UNCHANGED <<ledger, proc, jobs>>
  BY DEF Heartbeat, JobEnds, Tick, work
<1>2. beats' \in [Nodes -> Beat] /\ clock' \in 0..MaxClock /\ finished' \subseteq jobs
  <2>1. CASE \E n \in Nodes, c \in Capacities : Heartbeat(n, c)
    BY <2>1 DEF Heartbeat, work, IInv, TypeOK, Beat
  <2>2. CASE \E j \in jobs : JobEnds(j)
    BY <2>2 DEF JobEnds, mesh, IInv, TypeOK
  <2>3. CASE Tick
    BY <2>3, RequestAssumption DEF Tick, work, IInv, TypeOK
  <2> QED
    BY <2>1, <2>2, <2>3
<1>3. TypeOK'
  BY <1>1, <1>2 DEF IInv, TypeOK, ledger
<1> QED
  BY <1>1, <1>3 DEF ledger, IInv, LedgerWithinQuota, CopiesWithinQuota, WithinQuota, RoomKept

LEMMA InvariantStep == IInv /\ [Next]_vars => IInv'
<1> SUFFICES ASSUME IInv, [Next]_vars PROVE IInv'
  OBVIOUS
<1>1. CASE UNCHANGED vars
  BY <1>1 DEF vars, IInv, TypeOK, LedgerWithinQuota, CopiesWithinQuota, WithinQuota, RoomKept
<1>2. CASE Next
  BY <1>2, CommandPreserves, WorldPreserves DEF Next
<1> QED
  BY <1>1, <1>2

-----------------------------------------------------------------------------
(* Every reachable state satisfies the inductive invariant.                *)
THEOREM Invariant == Spec => []IInv
  BY InitInvariant, InvariantStep, PTL DEF Spec

(* The ledger, its copies, commands and jobs keep their types.             *)
THEOREM TypeCorrect == Spec => []TypeOK
<1>1. IInv => TypeOK
  BY DEF IInv
<1> QED
  BY <1>1, Invariant, PTL

(* No ledger that any command writes is over quota.                        *)
THEOREM QuotaKept == Spec => []LedgerWithinQuota
<1>1. IInv => LedgerWithinQuota
  BY DEF IInv
<1> QED
  BY <1>1, Invariant, PTL

-----------------------------------------------------------------------------
(* What a set of dispatched jobs adds up to, subject by subject.           *)
Of(S, s) == {j \in S : j.req.subject = s}

Bill(S) ==
  [s \in Subjects |->
     [concurrent |-> Cardinality(Of(S, s)), gpu |-> Cardinality(GpuJobs(Of(S, s))),
      cost |-> MapThenSumSet(LAMBDA j : j.req.cost, Of(S, s))]]

LEMMA JobCost ==
  ASSUME NEW j \in Job
  PROVE  /\ j.req \in Requests /\ j.req.cost \in Nat /\ j.req.subject \in Subjects
         /\ j.id \in Nat
  BY RequestAssumption DEF Job, Subjects

(* The cost of a set of jobs is a sum in the sense of DataLemmas.          *)
LEMMA CostSums ==
  ASSUME NEW S \in SUBSET Job, IsFiniteSet(S)
  PROVE  \E g : /\ Sums(g, [j \in S |-> j.req.cost], S)
                /\ MapThenSumSet(LAMBDA j : j.req.cost, S) = g[S]
<1> DEFINE w == [j \in S |-> j.req.cost]
           Def(g) == g = [T \in SUBSET S |->
                            IF T = {} THEN 0
                            ELSE LET x == CHOOSE x \in T : TRUE IN x.req.cost + g[T \ {x}]]
<1>1. w \in [S -> Nat]
  BY JobCost
<1>2. PICK h \in [SUBSET S -> Nat] : Sums(h, w, S)
  BY <1>1, SumExists
<1>3. Def(h)
  BY <1>2, PickIn DEF Sums, Unfolds, Pick
<1> DEFINE g == CHOOSE f : Def(f)
<1>4. Def(g)
  BY <1>3
<1>5. MapThenSumSet(LAMBDA j : j.req.cost, S) = g[S]
  BY DEF MapThenSumSet, MapThenFoldSet
<1> HIDE DEF g
<1>6. ASSUME NEW T \in SUBSET S PROVE Unfolds(g, w, T)
  <2>1. CASE T = {}
    BY <1>4, <2>1 DEF Unfolds
  <2>2. CASE T # {}
    <3>1. Pick(T) \in S /\ w[Pick(T)] = Pick(T).req.cost
      BY <2>2, PickIn
    <3>2. g[T] = Pick(T).req.cost + g[T \ {Pick(T)}]
      BY <1>4, <2>2 DEF Pick
    <3> QED
      BY <2>2, <3>1, <3>2 DEF Unfolds
  <2> QED
    BY <2>1, <2>2
<1> QED
  BY <1>5, <1>6 DEF Sums

LEMMA CostFacts ==
  ASSUME NEW S \in SUBSET Job, IsFiniteSet(S)
  PROVE  /\ Cost(S) \in Nat
         /\ S = {} => Cost(S) = 0
         /\ \A j \in Job \ S : Cost(S \cup {j}) = Cost(S) + j.req.cost
<1> DEFINE w == [j \in S |-> j.req.cost]
<1>1. PICK g : Sums(g, w, S) /\ Cost(S) = g[S]
  BY CostSums DEF Cost
<1>2. w \in [S -> Nat]
  BY JobCost
<1>3. Cost(S) \in Nat
  BY <1>1, <1>2, SumType
<1>4. S = {} => Cost(S) = 0
  BY <1>1 DEF Sums, Unfolds
<1>5. ASSUME NEW j \in Job \ S PROVE Cost(S \cup {j}) = Cost(S) + j.req.cost
  <2> DEFINE v == [i \in S \cup {j} |-> i.req.cost]
  <2>1. S \cup {j} \in SUBSET Job /\ IsFiniteSet(S \cup {j})
    BY FS_AddElement
  <2>2. PICK h : Sums(h, v, S \cup {j}) /\ Cost(S \cup {j}) = h[S \cup {j}]
    BY <2>1, CostSums DEF Cost
  <2>3. v \in [S \cup {j} -> Nat] /\ v[j] = j.req.cost
    BY <2>1, JobCost
  <2>4. (\A i \in S : w[i] = v[i]) /\ j \notin S
    OBVIOUS
  <2> HIDE DEF v, w
  <2>5. h[S \cup {j}] = g[S] + v[j]
    BY <1>1, <2>2, <2>3, <2>4, SumAdds
  <2> QED
    BY <1>1, <2>2, <2>3, <2>5
<1> QED
  BY <1>3, <1>4, <1>5

(* Part of the jobs costs no more than all of them.                        *)
LEMMA CostGrows ==
  ASSUME NEW S \in SUBSET Job, IsFiniteSet(S), NEW T \in SUBSET S
  PROVE  Cost(T) <= Cost(S)
<1> DEFINE w == [j \in S |-> j.req.cost]
           v == [j \in T |-> j.req.cost]
<1>1. PICK g : Sums(g, w, S) /\ Cost(S) = g[S]
  BY CostSums DEF Cost
<1>2. T \in SUBSET Job /\ IsFiniteSet(T)
  BY FS_Subset
<1>3. PICK h : Sums(h, v, T) /\ Cost(T) = h[T]
  BY <1>2, CostSums DEF Cost
<1>4. w \in [S -> Nat] /\ \A j \in T : v[j] = w[j]
  BY JobCost
<1> HIDE DEF v, w
<1>5. g[T] = h[T]
  BY <1>1, <1>2, <1>3, <1>4, SumAgrees
<1> QED
  BY <1>1, <1>3, <1>4, <1>5, SumGrows

LEMMA BillIs ==
  ASSUME NEW S \in SUBSET Job, IsFiniteSet(S), NEW s \in Subjects
  PROVE  /\ Of(S, s) \in SUBSET Job /\ IsFiniteSet(Of(S, s)) /\ IsFiniteSet(GpuJobs(Of(S, s)))
         /\ Bill(S)[s] = [concurrent |-> Cardinality(Of(S, s)),
                          gpu |-> Cardinality(GpuJobs(Of(S, s))), cost |-> Cost(Of(S, s))]
         /\ Bill(S)[s] \in Usage
<1>1. Of(S, s) \in SUBSET S /\ GpuJobs(Of(S, s)) \in SUBSET S
  BY DEF Of, GpuJobs
<1>2. /\ IsFiniteSet(Of(S, s)) /\ Cardinality(Of(S, s)) \in Nat
      /\ IsFiniteSet(GpuJobs(Of(S, s))) /\ Cardinality(GpuJobs(Of(S, s))) \in Nat
  BY <1>1, FiniteParts
<1>3. Cost(Of(S, s)) \in Nat
  BY <1>1, <1>2, CostFacts
<1>4. Bill(S)[s] = [concurrent |-> Cardinality(Of(S, s)),
                    gpu |-> Cardinality(GpuJobs(Of(S, s))), cost |-> Cost(Of(S, s))]
  BY DEF Bill, Cost
<1> QED
  BY <1>1, <1>2, <1>3, <1>4 DEF Usage

LEMMA BillTyped ==
  ASSUME NEW S \in SUBSET Job, IsFiniteSet(S) PROVE Bill(S) \in [Subjects -> Usage]
<1>1. \A s \in Subjects : Bill(S)[s] \in Usage
  BY BillIs
<1>2. Bill(S) = [s \in Subjects |-> Bill(S)[s]]
  BY DEF Bill
<1> QED
  BY <1>1, <1>2

LEMMA BillEmpty == Bill({}) = Nothing
<1>1. IsFiniteSet({}) /\ Cardinality({}) = 0 /\ {} \in SUBSET Job
  BY FS_EmptySet
<1>2. Cost({}) = 0
  BY <1>1, CostFacts
<1>3. \A s \in Subjects : Of({}, s) = {} /\ GpuJobs({}) = {}
  BY DEF Of, GpuJobs
<1> QED
  BY <1>1, <1>2, <1>3 DEF Bill, Nothing, Zero, Cost

(* One job more is billed as charge() charges it.                          *)
LEMMA BillAdds ==
  ASSUME NEW S \in SUBSET Job, IsFiniteSet(S), NEW j \in Job, j \notin S
  PROVE  Bill(S \cup {j}) = Charged(Bill(S), j.req)
<1> DEFINE U == S \cup {j}
           t == j.req.subject
           B == Bill(S)
<1>1. U \in SUBSET Job /\ IsFiniteSet(U) /\ t \in Subjects
  BY FS_AddElement, JobCost
<1>2. B \in [Subjects -> Usage] /\ Bill(U) \in [Subjects -> Usage]
  BY <1>1, BillTyped
<1>3. ASSUME NEW s \in Subjects PROVE Bill(U)[s] = Charged(B, j.req)[s]
  <2>1. CASE s # t
    <3>1. Of(U, s) = Of(S, s)
      BY <2>1 DEF Of
    <3>2. Bill(U)[s] = B[s]
      BY <3>1 DEF Bill
    <3>3. Charged(B, j.req)[s] = B[s]
      BY <1>2, <2>1 DEF Charged
    <3> QED
      BY <3>2, <3>3
  <2>2. CASE s = t
    <3> DEFINE O == Of(S, s)
    <3>1. Of(U, s) = O \cup {j} /\ j \notin O
      BY <2>2 DEF Of
    <3>2. O \in SUBSET Job /\ IsFiniteSet(O) /\ IsFiniteSet(GpuJobs(O))
      BY BillIs
    <3>3. Cardinality(O \cup {j}) = Cardinality(O) + 1
      BY <3>1, <3>2, FS_AddElement
    <3>4. Cost(O \cup {j}) = Cost(O) + j.req.cost
      BY <3>1, <3>2, CostFacts
    <3>5. Cardinality(GpuJobs(O \cup {j})) = Cardinality(GpuJobs(O)) + Gpu(j.req)
      <4>1. j \notin GpuJobs(O) /\ Cardinality(GpuJobs(O)) \in Nat
        BY <3>1, <3>2, FS_CardinalityType DEF GpuJobs
      <4>2. CASE j.req.work.gpu
        <5>1. GpuJobs(O \cup {j}) = GpuJobs(O) \cup {j}
          BY <4>2 DEF GpuJobs
        <5> QED
          BY <3>2, <4>1, <4>2, <5>1, FS_AddElement DEF Gpu
      <4>3. CASE ~ j.req.work.gpu
        <5>1. GpuJobs(O \cup {j}) = GpuJobs(O)
          BY <4>3 DEF GpuJobs
        <5> QED
          BY <4>1, <4>3, <5>1 DEF Gpu
      <4> QED
        BY <4>2, <4>3
    <3>6. B[s] = [concurrent |-> Cardinality(O), gpu |-> Cardinality(GpuJobs(O)), cost |-> Cost(O)]
      BY BillIs
    <3>7. Bill(U)[s] = [concurrent |-> Cardinality(O \cup {j}),
                        gpu |-> Cardinality(GpuJobs(O \cup {j})), cost |-> Cost(O \cup {j})]
      BY <1>1, <3>1, BillIs
    <3>8. Charged(B, j.req)[s] = [concurrent |-> B[s].concurrent + 1,
                                  gpu |-> B[s].gpu + Gpu(j.req), cost |-> B[s].cost + j.req.cost]
      BY <1>2, <2>2 DEF Charged
    <3> HIDE DEF O, B, U
    <3> QED
      BY <3>3, <3>4, <3>5, <3>6, <3>7, <3>8
  <2> QED
    BY <2>1, <2>2
<1>4. Charged(B, j.req) = [s \in Subjects |-> Charged(B, j.req)[s]]
  BY <1>2 DEF Charged
<1>5. Bill(U) = [s \in Subjects |-> Bill(U)[s]]
  BY <1>2
<1> HIDE DEF B, U
<1> QED
  BY <1>3, <1>4, <1>5 DEF B, U

-----------------------------------------------------------------------------
(* Comparing ledgers.                                                      *)
AtMost(u, v) ==
  \A s \in Subjects :
    u[s].concurrent <= v[s].concurrent /\ u[s].gpu <= v[s].gpu /\ u[s].cost <= v[s].cost

LEMMA AtMostTransitive ==
  ASSUME NEW u \in [Subjects -> Usage], NEW v \in [Subjects -> Usage],
         NEW w \in [Subjects -> Usage], AtMost(u, v), AtMost(v, w)
  PROVE  AtMost(u, w)
  BY DEF AtMost, Usage

LEMMA NothingLeast ==
  ASSUME NEW u \in [Subjects -> Usage] PROVE AtMost(Nothing, u)
  BY DEF AtMost, Nothing, Zero, Usage

(* Charging the same job keeps the order, and never takes anything away.   *)
LEMMA ChargedGrows ==
  ASSUME NEW u \in [Subjects -> Usage], NEW v \in [Subjects -> Usage], NEW r \in Requests
  PROVE  /\ AtMost(u, v) => AtMost(Charged(u, r), Charged(v, r))
         /\ AtMost(u, Charged(u, r)) /\ Charged(u, r) \in [Subjects -> Usage]
<1>1. r.cost \in Nat /\ Gpu(r) \in Nat /\ r.subject \in Subjects
  BY RequestAssumption DEF Gpu, Subjects
<1>2. ASSUME NEW w \in [Subjects -> Usage], NEW s \in Subjects
      PROVE  /\ s # r.subject => Charged(w, r)[s] = w[s]
             /\ s = r.subject => /\ Charged(w, r)[s].concurrent = w[s].concurrent + 1
                                 /\ Charged(w, r)[s].gpu = w[s].gpu + Gpu(r)
                                 /\ Charged(w, r)[s].cost = w[s].cost + r.cost
  <2> DEFINE c == [concurrent |-> w[r.subject].concurrent + 1,
                   gpu |-> w[r.subject].gpu + Gpu(r), cost |-> w[r.subject].cost + r.cost]
  <2>1. Charged(w, r) = [w EXCEPT ![r.subject] = c]
    BY DEF Charged
  <2>2. /\ c.concurrent = w[r.subject].concurrent + 1 /\ c.gpu = w[r.subject].gpu + Gpu(r)
        /\ c.cost = w[r.subject].cost + r.cost
    OBVIOUS
  <2> HIDE DEF c
  <2>3. Charged(w, r)[s] = IF s = r.subject THEN c ELSE w[s]
    BY <2>1
  <2> QED
    BY <2>2, <2>3
<1>3. ASSUME NEW w \in [Subjects -> Usage], NEW s \in Subjects
      PROVE  w[s].concurrent \in Nat /\ w[s].gpu \in Nat /\ w[s].cost \in Nat
  BY DEF Usage
<1> HIDE DEF Gpu
<1>4. AtMost(u, Charged(u, r))
  <2> SUFFICES ASSUME NEW s \in Subjects
               PROVE  /\ u[s].concurrent <= Charged(u, r)[s].concurrent
                      /\ u[s].gpu <= Charged(u, r)[s].gpu /\ u[s].cost <= Charged(u, r)[s].cost
    BY DEF AtMost
  <2>1. CASE s = r.subject
    BY <1>1, <1>2, <1>3, <2>1
  <2>2. CASE s # r.subject
    BY <1>2, <1>3, <2>2
  <2> QED
    BY <2>1, <2>2
<1>5. ASSUME AtMost(u, v), NEW s \in Subjects
      PROVE  /\ Charged(u, r)[s].concurrent <= Charged(v, r)[s].concurrent
             /\ Charged(u, r)[s].gpu <= Charged(v, r)[s].gpu
             /\ Charged(u, r)[s].cost <= Charged(v, r)[s].cost
  <2>1. /\ u[s].concurrent <= v[s].concurrent /\ u[s].gpu <= v[s].gpu /\ u[s].cost <= v[s].cost
    BY <1>5 DEF AtMost
  <2>2. CASE s = r.subject
    <3>1. /\ Charged(u, r)[s].concurrent = u[s].concurrent + 1
          /\ Charged(u, r)[s].gpu = u[s].gpu + Gpu(r)
          /\ Charged(u, r)[s].cost = u[s].cost + r.cost
      BY <1>2, <2>2
    <3>2. /\ Charged(v, r)[s].concurrent = v[s].concurrent + 1
          /\ Charged(v, r)[s].gpu = v[s].gpu + Gpu(r)
          /\ Charged(v, r)[s].cost = v[s].cost + r.cost
      BY <1>2, <2>2
    <3>3. /\ u[s].concurrent \in Nat /\ u[s].gpu \in Nat /\ u[s].cost \in Nat
          /\ v[s].concurrent \in Nat /\ v[s].gpu \in Nat /\ v[s].cost \in Nat
      BY <1>3
    <3> QED
      BY <1>1, <2>1, <3>1, <3>2, <3>3
  <2>3. CASE s # r.subject
    BY <1>2, <2>1, <2>3
  <2> QED
    BY <2>2, <2>3
<1>6. Charged(u, r) \in [Subjects -> Usage]
  <2> DEFINE c == [concurrent |-> u[r.subject].concurrent + 1,
                   gpu |-> u[r.subject].gpu + Gpu(r), cost |-> u[r.subject].cost + r.cost]
  <2>1. c \in Usage
    BY <1>1, <1>3 DEF Usage
  <2>2. Charged(u, r) = [u EXCEPT ![r.subject] = c]
    BY DEF Charged
  <2> HIDE DEF c
  <2> QED
    BY <2>1, <2>2
<1> QED
  BY <1>4, <1>5, <1>6 DEF AtMost

-----------------------------------------------------------------------------
(* No ledger, and no copy of one, is ahead of what was dispatched, even    *)
(* when the charge that is due is added to it.                             *)
NotAhead ==
  /\ AtMost(usage, Bill(jobs))
  /\ \A p \in Procs : AtMost(copy[p], Bill(jobs))
  /\ \A p \in Procs : At(p, "charge") => AtMost(Charged(copy[p], proc[p].req), Bill(jobs))

(* While the ledger is sound, every command about to charge answers for    *)
(* one job of its own, and the ledger (in the copy of the one command that *)
(* is saving it, if there is one) is the bill of all the others.           *)
Charging == {p \in Procs : At(p, "charge")}
Saving == {p \in Procs : At(p, "save")}

Account(due) ==
  /\ due \in [Charging -> jobs]
  /\ \A p, q \in Charging : due[p] = due[q] => p = q
  /\ \A p \in Charging : due[p].req = proc[p].req

Settled(due) == jobs \ {due[p] : p \in Charging}

Booked(due) ==
  IF whole THEN usage = Bill(Settled(due)) /\ Saving = {}
  ELSE \E p \in Procs : Saving = {p} /\ copy[p] = Bill(Settled(due))

Reconciled == sound => \E due : Account(due) /\ Booked(due)

(* Jobs are numbered in the order of their dispatch.                       *)
Numbered == \A j \in jobs : j.id <= Cardinality(jobs)

Books == NotAhead /\ Reconciled /\ Numbered

(* What a step does to the dispatched jobs.                                *)
Adds(j) == j \in Job /\ j \notin jobs /\ jobs' = jobs \cup {j}

LEMMA AddJobAdds ==
  ASSUME IInv, Numbered, NEW p \in Procs, NEW ran \in BOOLEAN, At(p, "execute"), AddJob(p, ran)
  PROVE  \E j : Adds(j) /\ j.req = proc[p].req /\ Numbered'
<1> DEFINE j == [id |-> Cardinality(jobs) + 1, req |-> proc[p].req,
                 backend |-> proc[p].backend, expired |-> proc[p].expired,
                 ran |-> ran]
<1>1. proc[p] \in Phase /\ proc[p].pc = "execute" /\ IsFiniteSet(jobs) /\ jobs \in SUBSET Job
  BY DEF At, IInv, TypeOK
<1>2. Cardinality(jobs) \in Nat
  BY <1>1, FS_CardinalityType
<1>3. j \in Job /\ j.req = proc[p].req /\ j.id = Cardinality(jobs) + 1
  BY <1>1, <1>2, PhaseCarries DEF Job
<1>4. jobs' = jobs \cup {j}
  BY DEF AddJob
<1> HIDE DEF j
<1>5. j \notin jobs
  BY <1>2, <1>3 DEF Numbered
<1>6. Cardinality(jobs') = Cardinality(jobs) + 1
  BY <1>1, <1>4, <1>5, FS_AddElement
<1>7. \A i \in jobs : i.id \in Nat
  BY <1>1, JobCost
<1>8. Numbered'
  BY <1>2, <1>3, <1>4, <1>6, <1>7 DEF Numbered
<1> QED
  BY <1>3, <1>4, <1>5, <1>8 DEF Adds

(* The bill of the jobs only grows.                                        *)
LEMMA BillGrows ==
  ASSUME IInv, NEW j, Adds(j)
  PROVE  /\ Bill(jobs') = Charged(Bill(jobs), j.req)
         /\ Bill(jobs) \in [Subjects -> Usage] /\ Bill(jobs') \in [Subjects -> Usage]
         /\ AtMost(Bill(jobs), Bill(jobs'))
<1>1. jobs \in SUBSET Job /\ IsFiniteSet(jobs) /\ j.req \in Requests
  BY JobCost DEF IInv, TypeOK, Adds
<1>2. jobs' \in SUBSET Job /\ IsFiniteSet(jobs')
  BY <1>1, FS_AddElement DEF Adds
<1>3. Bill(jobs') = Charged(Bill(jobs), j.req)
  BY <1>1, BillAdds DEF Adds
<1> QED
  BY <1>1, <1>2, <1>3, BillTyped, ChargedGrows

-----------------------------------------------------------------------------
(* NotAhead through a step of one command.                                 *)
LEMMA NotAheadKept ==
  ASSUME IInv, IInv', NotAhead, NEW p \in Procs,
         \A q \in Procs \ {p} : proc'[q] = proc[q] /\ copy'[q] = copy[q],
         AtMost(copy'[p], Bill(jobs)), AtMost(usage', Bill(jobs)),
         jobs' = jobs \/ \E j : Adds(j),
         proc'[p].pc = "charge" => AtMost(Charged(copy'[p], proc'[p].req), Bill(jobs'))
  PROVE  NotAhead'
<1> DEFINE B == Bill(jobs)
           C == Bill(jobs')
<1>1. B \in [Subjects -> Usage] /\ C \in [Subjects -> Usage] /\ AtMost(B, C)
  <2>1. CASE jobs' = jobs
    <3>1. B \in [Subjects -> Usage]
      BY BillTyped DEF IInv, TypeOK
    <3>2. AtMost(B, B)
      BY <3>1 DEF AtMost, Usage
    <3> QED
      BY <2>1, <3>1, <3>2
  <2>2. CASE \E j : Adds(j)
    BY <2>2, BillGrows
  <2> QED
    BY <2>1, <2>2
<1> HIDE DEF B, C
<1>2. ASSUME NEW u \in [Subjects -> Usage], AtMost(u, B) PROVE AtMost(u, C)
  BY <1>1, <1>2, AtMostTransitive
<1>3. AtMost(usage', C)
  BY <1>2 DEF B, IInv, TypeOK
<1>4. ASSUME NEW q \in Procs PROVE AtMost(copy'[q], C)
  <2>1. AtMost(copy'[q], B)
    BY DEF B, NotAhead
  <2> QED
    BY <1>2, <2>1 DEF IInv, TypeOK
<1>5. ASSUME NEW q \in Procs, proc'[q].pc = "charge"
      PROVE  AtMost(Charged(copy'[q], proc'[q].req), C)
  <2>1. CASE q = p
    BY <1>5, <2>1 DEF C
  <2>2. CASE q # p
    <3>1. /\ proc[q].pc = "charge" /\ proc'[q] = proc[q] /\ copy'[q] = copy[q]
          /\ copy[q] \in [Subjects -> Usage] /\ proc[q] \in Phase
      BY <1>5, <2>2 DEF IInv, TypeOK
    <3>2. AtMost(Charged(copy[q], proc[q].req), B)
      BY <3>1 DEF NotAhead, At, B
    <3>3. Charged(copy[q], proc[q].req) \in [Subjects -> Usage]
      BY <3>1, PhaseCarries, ChargedGrows
    <3> QED
      BY <1>2, <3>1, <3>2, <3>3
  <2> QED
    BY <2>1, <2>2
<1> QED
  BY <1>3, <1>4, <1>5 DEF NotAhead, At, C

(* The accounts through a step of one command that neither comes to its    *)
(* charge nor leaves it, and writes nothing.                               *)
LEMMA ReconciledKept ==
  ASSUME Reconciled, NEW p \in Procs,
         \A q \in Procs \ {p} : proc'[q] = proc[q] /\ copy'[q] = copy[q],
         proc[p].pc \notin {"charge", "save"}, proc'[p].pc \notin {"charge", "save"},
         UNCHANGED <<usage, whole, jobs>>, sound' => sound
  PROVE  Reconciled'
<1> SUFFICES ASSUME sound' PROVE \E due : (Account(due) /\ Booked(due))'
  BY DEF Reconciled
<1>1. PICK due : Account(due) /\ Booked(due)
  BY DEF Reconciled
<1>2. Charging' = Charging /\ Saving' = Saving /\ p \notin Charging /\ p \notin Saving
  BY DEF Charging, Saving, At
<1>3. \A q \in Charging : proc'[q] = proc[q]
  BY <1>2 DEF Charging
<1>4. Account(due)'
  BY <1>1, <1>2, <1>3 DEF Account
<1>5. Settled(due)' = Settled(due)
  BY <1>2 DEF Settled
<1>6. Booked(due)'
  <2>1. CASE whole
    BY <1>1, <1>2, <1>5, <2>1 DEF Booked
  <2>2. CASE ~ whole
    <3>1. PICK q \in Procs : Saving = {q} /\ copy[q] = Bill(Settled(due))
      BY <1>1, <2>2 DEF Booked
    <3>2. q # p /\ copy'[q] = copy[q]
      BY <1>2, <3>1
    <3> QED
      BY <1>2, <1>5, <2>2, <3>1, <3>2 DEF Booked
  <2> QED
    BY <2>1, <2>2
<1> QED
  BY <1>4, <1>6

LEMMA LoadNotAhead == ASSUME IInv, NotAhead PROVE AtMost(Load, Bill(jobs))
  BY NothingLeast, BillTyped DEF Load, NotAhead, IInv, TypeOK

(* The commands' steps that write nothing and dispatch nothing.            *)
Quiet(p) ==
  /\ \A q \in Procs \ {p} : proc'[q] = proc[q] /\ copy'[q] = copy[q]
  /\ copy'[p] = copy[p] \/ copy'[p] = Load
  /\ proc[p].pc \notin {"charge", "save"} /\ proc'[p].pc \notin {"charge", "save"}
  /\ UNCHANGED <<usage, whole, jobs>> /\ (sound' => sound)

LEMMA QuietKeepsBooks ==
  ASSUME IInv, IInv', Books, NEW p \in Procs, Quiet(p) PROVE Books'
<1>1. AtMost(copy'[p], Bill(jobs)) /\ AtMost(usage', Bill(jobs))
  BY LoadNotAhead DEF Quiet, Books, NotAhead
<1>2. NotAhead'
  BY <1>1, NotAheadKept DEF Quiet, Books
<1>3. Reconciled'
  BY ReconciledKept DEF Quiet, Books
<1> QED
  BY <1>2, <1>3 DEF Books, Numbered, Quiet

LEMMA GotoOnly ==
  ASSUME IInv, NEW p \in Procs, NEW c, Goto(p, c)
  PROVE  proc'[p] = c /\ \A q \in Procs \ {p} : proc'[q] = proc[q]
  BY DEF Goto, IInv, TypeOK

LEMMA QuietSteps ==
  ASSUME IInv, NEW p \in Procs,
         \/ \E r \in Requests : Start(p, r)
         \/ Denied(p) \/ Admitted(p) \/ GrantRefused(p) \/ GrantIssued(p) \/ GrantExpires(p)
         \/ DispatchRefused(p)
  PROVE  Quiet(p)
<1>1. ASSUME NEW c, Goto(p, c), proc[p].pc \notin {"charge", "save"},
             c.pc \notin {"charge", "save"}, UNCHANGED <<ledger, jobs>>
      PROVE  Quiet(p)
  BY <1>1, GotoOnly DEF Quiet, ledger
<1>2. CASE \E r \in Requests : Start(p, r)
  <2>1. PICK r \in Requests : Start(p, r)
    BY <1>2
  <2>2. PICK torn : Goto(p, [pc |-> "admit", req |-> r, mesh |-> FromDir(torn)])
    BY <2>1 DEF Start
  <2>3. proc'[p].pc = "admit" /\ \A q \in Procs \ {p} : proc'[q] = proc[q]
    BY <2>2, GotoOnly
  <2>4. /\ \A q \in Procs \ {p} : copy'[q] = copy[q]
        /\ copy'[p] = copy[p] \/ copy'[p] = Load
    BY <2>1 DEF Start, IInv, TypeOK
  <2> QED
    BY <2>1, <2>3, <2>4 DEF Quiet, Start, At, work
<1>3. CASE Denied(p)
  BY <1>1, <1>3 DEF Denied, Exit, Idle, At, work
<1>4. CASE GrantRefused(p)
  BY <1>1, <1>4 DEF GrantRefused, Exit, Idle, At, work
<1>5. CASE DispatchRefused(p)
  BY <1>1, <1>5 DEF DispatchRefused, Exit, Idle, At, work
<1>6. CASE GrantIssued(p)
  BY <1>1, <1>6 DEF GrantIssued, At, work
<1>7. CASE GrantExpires(p)
  BY <1>1, <1>7 DEF GrantExpires, At, work
<1>8. CASE Admitted(p)
  <2>1. \E c : c.pc \in {"grant", "idle"} /\ Goto(p, c)
    BY <1>8 DEF Admitted, Exit, Idle
  <2> QED
    BY <1>1, <1>8, <2>1 DEF Admitted, At, work
<1> QED
  BY <1>2, <1>3, <1>4, <1>5, <1>6, <1>7, <1>8

LEMMA DispatchKeepsBooks ==
  ASSUME IInv, IInv', Books, NEW p \in Procs, NEW ran \in BOOLEAN, Dispatch(p, ran)
  PROVE  Books'
<1> DEFINE r == proc[p].req
<1>1. /\ At(p, "execute") /\ AddJob(p, ran) /\ Goto(p, [pc |-> "charge", req |-> r])
      /\ UNCHANGED <<ledger, mesh, finished>>
  BY DEF Dispatch
<1>2. PICK j : Adds(j) /\ j.req = r /\ Numbered'
  BY <1>1, AddJobAdds DEF Books
<1>3. proc'[p] = [pc |-> "charge", req |-> r] /\ \A q \in Procs \ {p} : proc'[q] = proc[q]
  BY <1>1, GotoOnly
<1>4. r \in Requests /\ copy[p] \in [Subjects -> Usage]
  BY <1>1, PhaseCarries DEF At, IInv, TypeOK
<1> HIDE DEF r
<1>5. AtMost(Charged(copy[p], r), Bill(jobs'))
  BY <1>2, <1>4, BillGrows, ChargedGrows DEF Books, NotAhead
<1>6. NotAhead'
  BY <1>1, <1>2, <1>3, <1>5, NotAheadKept DEF Books, NotAhead, ledger
<1>7. Reconciled'
  <2> SUFFICES ASSUME sound' PROVE \E due : (Account(due) /\ Booked(due))'
    BY DEF Reconciled
  <2>1. PICK due : Account(due) /\ Booked(due)
    BY <1>1 DEF Books, Reconciled, ledger
  <2>2. p \notin Charging /\ Charging' = Charging \cup {p} /\ Saving' = Saving
    BY <1>1, <1>3 DEF Charging, Saving, At
  <2>10. PICK due2 : due2 = [q \in Charging \cup {p} |-> IF q = p THEN j ELSE due[q]]
    OBVIOUS
  <2>3. /\ due2[p] = j /\ \A q \in Charging : due2[q] = due[q] /\ due[q] \in jobs
        /\ j \notin jobs /\ jobs' = jobs \cup {j} /\ due2 \in [Charging' -> jobs']
    BY <1>2, <2>1, <2>2, <2>10 DEF Adds, Account
  <2>4. Account(due2)'
    <3>1. ASSUME NEW q \in Charging', NEW t \in Charging', due2[q] = due2[t] PROVE q = t
      BY <2>1, <2>2, <2>3, <3>1 DEF Account
    <3>2. ASSUME NEW q \in Charging' PROVE due2[q].req = proc'[q].req
      <4>1. CASE q = p
        BY <1>2, <1>3, <2>3, <4>1
      <4>2. CASE q # p
        <5>1. q \in Charging /\ q \in Procs \ {p}
          BY <2>2, <4>2 DEF Charging
        <5>2. due2[q] = due[q] /\ proc'[q] = proc[q] /\ due[q].req = proc[q].req
          BY <1>3, <2>1, <2>3, <5>1 DEF Account
        <5> QED
          BY <5>2
      <4> QED
        BY <4>1, <4>2
    <3> QED
      BY <2>3, <3>1, <3>2 DEF Account
  <2>5. Settled(due2)' = Settled(due)
    <3>1. Settled(due2)' = jobs' \ {due2[q] : q \in Charging'}
      BY DEF Settled
    <3>2. {due2[q] : q \in Charging'} = {due[q] : q \in Charging} \cup {j}
      BY <2>2, <2>3
    <3> QED
      BY <2>3, <3>1, <3>2 DEF Settled
  <2>6. Booked(due2)'
    BY <1>1, <2>1, <2>2, <2>5 DEF Booked, ledger
  <2> QED
    BY <2>4, <2>6
<1> QED
  BY <1>2, <1>6, <1>7 DEF Books

LEMMA DispatchRaisesKeepsBooks ==
  ASSUME IInv, IInv', Books, NEW p \in Procs, NEW submitted \in BOOLEAN,
         DispatchRaises(p, submitted)
  PROVE  Books'
<1>1. /\ At(p, "execute") /\ Goto(p, Idle) /\ sound' = (sound /\ ~ submitted)
      /\ UNCHANGED <<usage, whole, copy>>
      /\ IF submitted THEN AddJob(p, TRUE) ELSE jobs' = jobs
  BY DEF DispatchRaises, Exit
<1>2. proc'[p].pc = "idle" /\ \A q \in Procs \ {p} : proc'[q] = proc[q]
  BY <1>1, GotoOnly DEF Idle
<1>3. CASE ~ submitted
  <2>1. Quiet(p)
    BY <1>1, <1>2, <1>3 DEF Quiet, At
  <2> QED
    BY <2>1, QuietKeepsBooks
<1>4. CASE submitted
  <2>1. PICK j : Adds(j) /\ Numbered'
    BY <1>1, <1>4, AddJobAdds DEF Books
  <2>2. NotAhead'
    BY <1>1, <1>2, <2>1, NotAheadKept DEF Books, NotAhead
  <2>3. ~ sound'
    BY <1>1, <1>4
  <2> QED
    BY <2>1, <2>2, <2>3 DEF Books, Reconciled
<1> QED
  BY <1>3, <1>4

LEMMA SaveBeginKeepsBooks ==
  ASSUME IInv, IInv', Books, NEW p \in Procs, SaveBegin(p) PROVE Books'
<1> DEFINE r == proc[p].req
<1>1. /\ At(p, "charge") /\ copy' = [copy EXCEPT ![p] = Charged(@, r)] /\ whole' = FALSE
      /\ sound' = (sound /\ whole /\ copy[p] = usage) /\ Goto(p, [pc |-> "save"])
      /\ UNCHANGED <<usage, jobs>>
  BY DEF SaveBegin, work
<1>2. proc'[p].pc = "save" /\ \A q \in Procs \ {p} : proc'[q] = proc[q]
  BY <1>1, GotoOnly
<1>3. copy'[p] = Charged(copy[p], r) /\ \A q \in Procs \ {p} : copy'[q] = copy[q]
  BY <1>1 DEF IInv, TypeOK
<1>4. NotAhead'
  <2>1. AtMost(copy'[p], Bill(jobs)) /\ AtMost(usage', Bill(jobs))
    BY <1>1, <1>3 DEF Books, NotAhead
  <2> QED
    BY <1>1, <1>2, <1>3, <2>1, NotAheadKept DEF Books
<1>5. Reconciled'
  <2> SUFFICES ASSUME sound' PROVE \E due : (Account(due) /\ Booked(due))'
    BY DEF Reconciled
  <2>1. sound /\ whole /\ copy[p] = usage
    BY <1>1
  <2>2. PICK due : Account(due) /\ Booked(due)
    BY <2>1 DEF Books, Reconciled
  <2>3. usage = Bill(Settled(due)) /\ Saving = {}
    BY <2>1, <2>2 DEF Booked
  <2>4. p \in Charging /\ Charging' = Charging \ {p} /\ Saving' = {p}
    BY <1>1, <1>2, <2>3 DEF Charging, Saving, At
  <2>13. PICK due2 : due2 = [q \in Charging \ {p} |-> due[q]]
    OBVIOUS
  <2>5. /\ due \in [Charging -> jobs] /\ due[p].req = r
        /\ \A q, t \in Charging : due[q] = due[t] => q = t
    BY <2>2, <2>4 DEF Account
  <2>6. due2 \in [Charging' -> jobs'] /\ \A q \in Charging' : due2[q] = due[q]
    BY <1>1, <2>4, <2>5, <2>13
  <2>7. Account(due2)'
    <3>1. ASSUME NEW q \in Charging', NEW t \in Charging', due2[q] = due2[t] PROVE q = t
      BY <2>4, <2>5, <2>6, <3>1
    <3>2. ASSUME NEW q \in Charging' PROVE due2[q].req = proc'[q].req
      <4>1. q \in Charging /\ q \in Procs \ {p}
        BY <2>4 DEF Charging
      <4>2. due2[q] = due[q] /\ proc'[q] = proc[q] /\ due[q].req = proc[q].req
        BY <1>2, <2>2, <2>6, <4>1 DEF Account
      <4> QED
        BY <4>2
    <3> QED
      BY <2>6, <3>1, <3>2 DEF Account
  <2> DEFINE S == Settled(due)
  <2>8. Settled(due2)' = S \cup {due[p]} /\ due[p] \notin S /\ due[p] \in jobs
    <3>1. Settled(due2)' = jobs' \ {due2[q] : q \in Charging'}
      BY DEF Settled
    <3>2. {due2[q] : q \in Charging'} = {due[q] : q \in Charging} \ {due[p]}
      <4>1. {due2[q] : q \in Charging'} = {due[q] : q \in Charging \ {p}}
        BY <2>4, <2>6
      <4>2. \A q \in Charging \ {p} : due[q] # due[p]
        BY <2>4, <2>5
      <4> QED
        BY <2>4, <4>1, <4>2
    <3>3. due[p] \in jobs /\ due[p] \in {due[q] : q \in Charging}
      BY <2>4, <2>5
    <3> QED
      BY <1>1, <3>1, <3>2, <3>3 DEF Settled
  <2>9. S \in SUBSET Job /\ IsFiniteSet(S) /\ due[p] \in Job
    BY <2>8, FS_Difference DEF Settled, IInv, TypeOK
  <2>10. Bill(S \cup {due[p]}) = Charged(Bill(S), r)
    BY <2>5, <2>8, <2>9, BillAdds
  <2>11. copy'[p] = Bill(Settled(due2)')
    BY <1>3, <2>1, <2>3, <2>8, <2>10
  <2>12. Booked(due2)'
    BY <1>1, <2>4, <2>11 DEF Booked
  <2> QED
    BY <2>7, <2>12
<1> QED
  BY <1>1, <1>4, <1>5 DEF Books, Numbered

LEMMA SaveEndKeepsBooks ==
  ASSUME IInv, IInv', Books, NEW p \in Procs, SaveEnd(p) PROVE Books'
<1>1. /\ At(p, "save") /\ usage' = copy[p] /\ whole' = TRUE /\ Goto(p, Idle)
      /\ UNCHANGED <<copy, sound, jobs>>
  BY DEF SaveEnd, Exit, work
<1>2. proc'[p].pc = "idle" /\ \A q \in Procs \ {p} : proc'[q] = proc[q]
  BY <1>1, GotoOnly DEF Idle
<1>3. NotAhead'
  BY <1>1, <1>2, NotAheadKept DEF Books, NotAhead
<1>4. Reconciled'
  <2> SUFFICES ASSUME sound' PROVE \E due : (Account(due) /\ Booked(due))'
    BY DEF Reconciled
  <2>1. PICK due : Account(due) /\ Booked(due)
    BY <1>1 DEF Books, Reconciled
  <2>2. p \in Saving /\ Charging' = Charging /\ Saving' = Saving \ {p}
    BY <1>1, <1>2 DEF Saving, Charging, At
  <2>3. Saving = {p} /\ copy[p] = Bill(Settled(due))
    BY <2>1, <2>2 DEF Booked
  <2>4. \A q \in Charging : proc'[q] = proc[q]
    BY <1>1, <1>2 DEF Charging, At
  <2>5. Account(due)' /\ Settled(due)' = Settled(due)
    BY <1>1, <2>1, <2>2, <2>4 DEF Account, Settled
  <2>6. Booked(due)'
    BY <1>1, <2>2, <2>3, <2>5 DEF Booked
  <2> QED
    BY <2>5, <2>6
<1> QED
  BY <1>1, <1>3, <1>4 DEF Books, Numbered

LEMMA CrashKeepsBooks ==
  ASSUME IInv, IInv', Books, NEW p \in Procs, Crash(p) PROVE Books'
<1>1. /\ Goto(p, Idle) /\ sound' = (sound /\ ~ At(p, "charge") /\ ~ At(p, "save"))
      /\ UNCHANGED <<usage, whole, jobs>>
  BY DEF Crash, Exit, work
<1>2. proc'[p].pc = "idle" /\ \A q \in Procs \ {p} : proc'[q] = proc[q]
  BY <1>1, GotoOnly DEF Idle
<1>3. /\ \A q \in Procs \ {p} : copy'[q] = copy[q]
      /\ copy'[p] = copy[p] \/ copy'[p] = Load
  BY DEF Crash, IInv, TypeOK
<1>4. CASE proc[p].pc \notin {"charge", "save"}
  <2>1. Quiet(p)
    BY <1>1, <1>2, <1>3, <1>4 DEF Quiet
  <2> QED
    BY <2>1, QuietKeepsBooks
<1>5. CASE proc[p].pc \in {"charge", "save"}
  <2>1. ~ sound'
    BY <1>1, <1>5 DEF At
  <2>2. AtMost(copy'[p], Bill(jobs)) /\ AtMost(usage', Bill(jobs))
    BY <1>1, <1>3, LoadNotAhead DEF Books, NotAhead
  <2>3. NotAhead'
    BY <1>1, <1>2, <1>3, <2>2, NotAheadKept DEF Books
  <2> QED
    BY <1>1, <2>1, <2>3 DEF Books, Reconciled, Numbered
<1> QED
  BY <1>4, <1>5

LEMMA InitBooks == Init => Books
<1> SUFFICES ASSUME Init PROVE Books
  OBVIOUS
<1>1. Bill(jobs) = Nothing
  BY BillEmpty DEF Init
<1>2. Nothing \in [Subjects -> Usage] /\ AtMost(Nothing, Nothing)
  BY NothingTyped, NothingLeast
<1>3. \A p \in Procs : proc[p].pc = "idle"
  BY DEF Init, Idle
<1>4. NotAhead
  BY <1>1, <1>2, <1>3 DEF Init, NotAhead, At
<1>5. Charging = {} /\ Saving = {}
  BY <1>3 DEF Charging, Saving, At
<1> DEFINE due == [p \in {} |-> {}]
<1>6. Account(due) /\ Settled(due) = {}
  BY <1>5 DEF Account, Settled, Init
<1>7. Booked(due)
  BY <1>5, <1>6, BillEmpty DEF Booked, Init
<1> HIDE DEF due
<1> QED
  BY <1>4, <1>6, <1>7 DEF Books, Reconciled, Numbered, Init

LEMMA BooksUnchanged ==
  ASSUME Books, UNCHANGED <<ledger, proc, jobs>> PROVE Books'
<1>1. NotAhead' /\ Numbered'
  BY DEF Books, NotAhead, Numbered, ledger, At
<1>2. Charging' = Charging /\ Saving' = Saving
  BY DEF Charging, Saving, At
<1>3. Reconciled'
  BY <1>2 DEF Books, Reconciled, Account, Booked, Settled, ledger
<1> QED
  BY <1>1, <1>3 DEF Books

LEMMA BooksStep == IInv /\ IInv' /\ Books /\ [Next]_vars => Books'
<1> SUFFICES ASSUME IInv, IInv', Books, [Next]_vars PROVE Books'
  OBVIOUS
<1>1. ASSUME NEW p \in Procs, Command(p) PROVE Books'
  BY <1>1, QuietSteps, QuietKeepsBooks, DispatchKeepsBooks, DispatchRaisesKeepsBooks,
     SaveBeginKeepsBooks, SaveEndKeepsBooks, CrashKeepsBooks DEF Command
<1>2. CASE UNCHANGED vars
  BY <1>2, BooksUnchanged DEF vars, ledger
<1>3. CASE \E n \in Nodes, c \in Capacities : Heartbeat(n, c)
  BY <1>3, BooksUnchanged DEF Heartbeat, work
<1>4. CASE \E j \in jobs : JobEnds(j)
  BY <1>4, BooksUnchanged DEF JobEnds
<1>5. CASE Tick
  BY <1>5, BooksUnchanged DEF Tick, work
<1> QED
  BY <1>1, <1>2, <1>3, <1>4, <1>5 DEF Next

-----------------------------------------------------------------------------
(* The books are kept, whatever the commands do.                           *)
THEOREM BooksInvariant == Spec => []Books
<1>1. Init => Books
  BY InitBooks
<1>2. IInv /\ IInv' /\ Books /\ [Next]_vars => Books'
  BY BooksStep
<1> QED
  BY <1>1, <1>2, Invariant, PTL DEF Spec

(* However commands overlap, tear the file or die, the ledger holds at     *)
(* most one charge for each dispatch, whether or not that dispatch         *)
(* submitted anything.                                                     *)
THEOREM EveryChargeCovered == Spec => []ChargesCovered
<1>1. TypeOK /\ Books => ChargesCovered
  <2> SUFFICES ASSUME TypeOK, Books, NEW s \in Subjects
               PROVE  /\ usage[s].concurrent <= Cardinality(JobsOf(s))
                      /\ usage[s].gpu <= Cardinality(GpuJobs(JobsOf(s)))
                      /\ usage[s].cost <= Cost(JobsOf(s))
    BY DEF ChargesCovered
  <2>1. /\ usage[s].concurrent <= Bill(jobs)[s].concurrent
        /\ usage[s].gpu <= Bill(jobs)[s].gpu /\ usage[s].cost <= Bill(jobs)[s].cost
    BY DEF Books, NotAhead, AtMost
  <2>2. JobsOf(s) = Of(jobs, s)
    BY DEF JobsOf, Of
  <2>3. Bill(jobs)[s] = [concurrent |-> Cardinality(JobsOf(s)),
                         gpu |-> Cardinality(GpuJobs(JobsOf(s))), cost |-> Cost(JobsOf(s))]
    BY <2>2, BillIs DEF TypeOK
  <2> QED
    BY <2>1, <2>3
<1> QED
  BY <1>1, TypeCorrect, BooksInvariant, PTL

(* Where no charge went over another and no dispatch lost its charge, the  *)
(* file is one charge for each dispatch that an adapter answered, applied  *)
(* or not, whenever no command runs, and what really runs is within every  *)
(* quota.                                                                  *)
THEOREM LedgerIsSound == Spec => []LedgerSound
<1>1. TypeOK /\ LedgerWithinQuota /\ Books => LedgerSound
  <2> SUFFICES ASSUME TypeOK, LedgerWithinQuota, Books, sound, \A p \in Procs : At(p, "idle")
               PROVE  /\ BudgetHolds
                      /\ whole
                      /\ \A s \in Subjects :
                           usage[s] = [concurrent |-> Cardinality(JobsOf(s)),
                                       gpu |-> Cardinality(GpuJobs(JobsOf(s))), cost |-> Cost(JobsOf(s))]
    BY DEF LedgerSound
  <2>1. PICK due : Account(due) /\ Booked(due)
    BY DEF Books, Reconciled
  <2>2. Charging = {} /\ Saving = {}
    BY DEF Charging, Saving, At
  <2>3. Settled(due) = jobs
    BY <2>2 DEF Settled
  <2>4. whole /\ usage = Bill(jobs)
    BY <2>1, <2>2, <2>3 DEF Booked
  <2>5. ASSUME NEW s \in Subjects
        PROVE  /\ usage[s] = [concurrent |-> Cardinality(JobsOf(s)),
                              gpu |-> Cardinality(GpuJobs(JobsOf(s))), cost |-> Cost(JobsOf(s))]
               /\ IsFiniteSet(JobsOf(s))
    <3>1. JobsOf(s) = Of(jobs, s)
      BY DEF JobsOf, Of
    <3> QED
      BY <2>4, <3>1, BillIs DEF TypeOK
  <2>6. ASSUME NEW s \in Subjects
        PROVE  /\ Cardinality(Running(s)) <= Quota[s].concurrent
               /\ Cardinality(GpuJobs(Running(s))) <= Quota[s].gpu
               /\ Cost(Ran(s)) <= Quota[s].cost
    <3>1. /\ Cardinality(JobsOf(s)) <= Quota[s].concurrent
          /\ Cardinality(GpuJobs(JobsOf(s))) <= Quota[s].gpu /\ Cost(JobsOf(s)) <= Quota[s].cost
      <4> DEFINE O == JobsOf(s)
                 c == Cardinality(O)
                 g == Cardinality(GpuJobs(O))
                 k == Cost(JobsOf(s))
      <4>1. usage[s] = [concurrent |-> c, gpu |-> g, cost |-> k]
        BY <2>5
      <4> HIDE DEF O, c, g, k
      <4>2. usage[s].concurrent = c /\ usage[s].gpu = g /\ usage[s].cost = k
        BY <4>1
      <4> QED
        BY <4>2 DEF LedgerWithinQuota, O, c, g, k
    <3>2. /\ Running(s) \in SUBSET JobsOf(s) /\ GpuJobs(JobsOf(s)) \in SUBSET JobsOf(s)
          /\ GpuJobs(Running(s)) \in SUBSET GpuJobs(JobsOf(s))
      BY DEF Running, Ran, GpuJobs
    <3>7. Ran(s) \in SUBSET JobsOf(s) /\ JobsOf(s) \in SUBSET Job
      BY DEF Ran, JobsOf, TypeOK
    <3>3. IsFiniteSet(JobsOf(s)) /\ IsFiniteSet(GpuJobs(JobsOf(s)))
      BY <2>5, <3>2, FS_Subset
    <3>4. /\ Cardinality(Running(s)) <= Cardinality(JobsOf(s))
          /\ Cardinality(GpuJobs(Running(s))) <= Cardinality(GpuJobs(JobsOf(s)))
      BY <3>2, <3>3, FS_Subset
    <3>5. /\ Cardinality(Running(s)) \in Nat /\ Cardinality(JobsOf(s)) \in Nat
          /\ Cardinality(GpuJobs(Running(s))) \in Nat /\ Cardinality(GpuJobs(JobsOf(s))) \in Nat
      BY <3>2, <3>3, FiniteParts
    <3>6. Quota[s].concurrent \in Nat /\ Quota[s].gpu \in Nat /\ Quota[s].cost \in Nat
      BY RequestAssumption DEF Usage
    <3>8. Cost(Ran(s)) <= Cost(JobsOf(s))
      BY <3>3, <3>7, CostGrows
    <3>9. Cost(Ran(s)) \in Nat /\ Cost(JobsOf(s)) \in Nat
      <4>1. IsFiniteSet(Ran(s)) /\ Ran(s) \in SUBSET Job
        BY <3>3, <3>7, FS_Subset
      <4> QED
        BY <3>3, <3>7, <4>1, CostFacts
    <3> QED
      BY <3>1, <3>4, <3>5, <3>6, <3>8, <3>9
  <2> QED
    BY <2>4, <2>5, <2>6 DEF BudgetHolds
<1> QED
  BY <1>1, TypeCorrect, QuotaKept, BooksInvariant, PTL

-----------------------------------------------------------------------------
(* Placement.  What the table of backends says of each of them.            *)
LEMMA BackendTable ==
  ASSUME NEW b \in Backends, NEW c \in Backends
  PROVE  /\ Position(b) \in 1..9 /\ Order[Position(b)] = b /\ Elasticity(b) \in Nat
         /\ Position(b) = Position(c) => b = c
         /\ IsFiniteSet(Backends) /\ "blocked" \notin Backends
<1>1. Len(Order) = 9 /\ \A i \in 1..9 : Order[i] \in Backends
  BY DEF Order, Backends
<1>2. \A d \in Backends : \E i \in 1..9 : Order[i] = d
  BY DEF Order, Backends
<1>3. Position(b) \in 1..9 /\ Order[Position(b)] = b
  BY <1>1, <1>2 DEF Position
<1>4. Position(c) \in 1..9 /\ Order[Position(c)] = c
  BY <1>1, <1>2 DEF Position
<1>5. Elasticity(b) \in Nat
  BY <1>3 DEF Elasticity
<1>6. IsFiniteSet(Backends)
  <2> DEFINE S == 1..9
             f == [i \in S |-> Order[i]]
  <2>1. \A n \in Nat : IsFiniteSet(1..n)
    BY FS_Interval
  <2>2. IsFiniteSet(S)
    BY <2>1
  <2>3. f \in [S -> Backends] /\ \A d \in Backends : \E i \in S : f[i] = d
    BY <1>1, <1>2
  <2> HIDE DEF S, f
  <2>4. f \in Surjection(S, Backends)
    BY <2>3 DEF Surjection
  <2> QED
    BY <2>2, <2>4, FS_Surjection
<1>9. "blocked" \notin Backends
  BY DEF Order, Backends
<1> QED
  BY <1>3, <1>4, <1>5, <1>6, <1>9

(* place() answers with one of its candidates, if with a backend at all.   *)
LEMMA PlaceSuits ==
  ASSUME NEW w, NEW policy, Len(policy.prefer) \in Nat, NEW avail \in [Backends -> Nat],
         Place(w, policy, avail) \in Backends
  PROVE  Place(w, policy, avail) \in Candidates(w, policy, avail)
<1> DEFINE C == Candidates(w, policy, avail)
<1>1. C \in SUBSET Backends
  BY DEF Candidates
<1>2. C # {} /\ Place(w, policy, avail) = Choice(w, policy, avail, C)
  BY BackendTable DEF Place
<1> HIDE DEF C
<1>3. IsFiniteSet(C)
  BY <1>1, <1>2, BackendTable, FS_Subset
<1>4. ASSUME NEW b \in C, NEW c \in C
      PROVE  /\ Position(b) \in Int /\ Elasticity(b) \in Int /\ avail[b] \in Int
             /\ Position(b) = Position(c) => b = c
  BY <1>1, BackendTable
<1> DEFINE preferred == {i \in 1..Len(policy.prefer) : policy.prefer[i] \in C}
<1>5. ASSUME preferred # {} PROVE Choice(w, policy, avail, C) \in C
  <2>1. preferred \in SUBSET Nat
    OBVIOUS
  <2>2. \E i \in preferred : \A k \in preferred : i <= k
    BY <1>5, <2>1, LeastNat
  <2>3. \A i \in preferred : policy.prefer[i] \in C
    OBVIOUS
  <2>4. Choice(w, policy, avail, C) =
          policy.prefer[CHOOSE i \in preferred : \A k \in preferred : i <= k]
    BY <1>5 DEF Choice
  <2> DEFINE first == CHOOSE i \in preferred : \A k \in preferred : i <= k
  <2> HIDE DEF preferred
  <2>5. first \in preferred
    BY <2>2
  <2>6. Choice(w, policy, avail, C) = policy.prefer[first]
    BY <2>4
  <2> HIDE DEF first
  <2> QED
    BY <2>3, <2>5, <2>6
<1>6. ASSUME preferred = {} /\ w.scalable PROVE Choice(w, policy, avail, C) \in C
  <2> DEFINE R == {x \in C \X C : Bigger(x[1], x[2], avail)}
  <2>1. \A b, c \in C : <<b, c>> \in R <=> Bigger(b, c, avail)
    OBVIOUS
  <2> HIDE DEF R
  <2>2. Orders(R, C)
    <3>1. \A b \in C : ~ Bigger(b, b, avail)
      BY <1>4 DEF Bigger
    <3>2. \A b, c, d \in C : Bigger(b, c, avail) /\ Bigger(c, d, avail) => Bigger(b, d, avail)
      BY <1>4 DEF Bigger
    <3>3. \A b, c \in C : b # c => Bigger(b, c, avail) \/ Bigger(c, b, avail)
      BY <1>4 DEF Bigger
    <3> QED
      BY <2>1, <3>1, <3>2, <3>3 DEF Orders
  <2>3. \E b \in C : \A o \in C \ {b} : Bigger(b, o, avail)
    <3>1. \E b \in C : \A o \in C \ {b} : <<b, o>> \in R
      BY <1>2, <1>3, <2>2, FirstExists
    <3> QED
      BY <2>1, <3>1
  <2>4. Choice(w, policy, avail, C) = CHOOSE b \in C : \A o \in C \ {b} : Bigger(b, o, avail)
    BY <1>6 DEF Choice
  <2> QED
    BY <2>3, <2>4
<1>7. ASSUME preferred = {} /\ ~ w.scalable PROVE Choice(w, policy, avail, C) \in C
  <2> DEFINE R == {x \in C \X C : Smaller(x[1], x[2])}
  <2>1. \A b, c \in C : <<b, c>> \in R <=> Smaller(b, c)
    OBVIOUS
  <2> HIDE DEF R
  <2>2. Orders(R, C)
    <3>1. \A b \in C : ~ Smaller(b, b)
      BY <1>4 DEF Smaller
    <3>2. \A b, c, d \in C : Smaller(b, c) /\ Smaller(c, d) => Smaller(b, d)
      BY <1>4 DEF Smaller
    <3>3. \A b, c \in C : b # c => Smaller(b, c) \/ Smaller(c, b)
      BY <1>4 DEF Smaller
    <3> QED
      BY <2>1, <3>1, <3>2, <3>3 DEF Orders
  <2>3. \E b \in C : \A o \in C \ {b} : Smaller(b, o)
    <3>1. \E b \in C : \A o \in C \ {b} : <<b, o>> \in R
      BY <1>2, <1>3, <2>2, FirstExists
    <3> QED
      BY <2>1, <3>1
  <2>4. Choice(w, policy, avail, C) = CHOOSE b \in C : \A o \in C \ {b} : Smaller(b, o)
    BY <1>7 DEF Choice
  <2> QED
    BY <2>3, <2>4
<1>8. Place(w, policy, avail) \in C
  BY <1>2, <1>5, <1>6, <1>7
<1> QED
  BY <1>8 DEF C

-----------------------------------------------------------------------------
(* What the mesh offers is a sum of announced capacities.                  *)
LEMMA AvailabilityFacts ==
  ASSUME TypeOK, NEW snapshot \in [Nodes -> Beat]
  PROVE  /\ Availability(snapshot) \in [Backends -> Nat]
         /\ \A b \in Backends : Availability(snapshot)[b] > 0 =>
              \E n \in Nodes : n \in Live(snapshot) /\ Announced(n) = b
<1> HIDE DEF Backends
<1>1. ASSUME NEW b \in Backends
      PROVE  /\ Availability(snapshot)[b] \in Nat
             /\ Availability(snapshot)[b] > 0 =>
                  \E n \in Nodes : n \in Live(snapshot) /\ Announced(n) = b
  <2> DEFINE S == {n \in Live(snapshot) : Announced(n) = b}
             w == [n \in S |-> snapshot[n].cap]
             Def(g) == g = [T \in SUBSET S |->
                              IF T = {} THEN 0
                              ELSE LET x == CHOOSE x \in T : TRUE IN snapshot[x].cap + g[T \ {x}]]
  <2>1. S \in SUBSET Nodes /\ S \in SUBSET Live(snapshot)
    BY DEF Live
  <2>2. IsFiniteSet(S)
    BY <2>1, RequestAssumption, FS_Subset
  <2>3. w \in [S -> Nat]
    <3>1. ASSUME NEW c \in Beat PROVE c.cap \in Nat
      <4>1. CASE c = NoBeat
        BY <4>1 DEF NoBeat
      <4>2. CASE c \in [ts : 0..MaxClock, cap : Capacities]
        BY <4>2, RequestAssumption
      <4> QED
        BY <4>1, <4>2 DEF Beat
    <3> QED
      BY <2>1, <3>1
  <2>4. PICK h \in [SUBSET S -> Nat] : Sums(h, w, S)
    BY <2>2, <2>3, SumExists
  <2>5. \A T \in SUBSET S : T # {} => Pick(T) \in S /\ w[Pick(T)] = snapshot[Pick(T)].cap
    BY PickIn
  <2> HIDE DEF S
  <2>6. Def(h)
    BY <2>4, <2>5 DEF Sums, Unfolds, Pick
  <2> DEFINE g == CHOOSE f : Def(f)
  <2>7. Def(g)
    BY <2>6
  <2>8. MapThenSumSet(LAMBDA n : snapshot[n].cap, S) = g[S]
    BY DEF MapThenSumSet, MapThenFoldSet
  <2> HIDE DEF g
  <2>9. Sums(g, w, S)
    <3> SUFFICES ASSUME NEW T \in SUBSET S PROVE Unfolds(g, w, T)
      BY DEF Sums
    <3>1. CASE T = {}
      BY <2>7, <3>1 DEF Unfolds
    <3>2. CASE T # {}
      <4>1. g[T] = snapshot[Pick(T)].cap + g[T \ {Pick(T)}]
        BY <2>7, <3>2 DEF Pick
      <4> QED
        BY <2>5, <3>2, <4>1 DEF Unfolds
    <3> QED
      BY <3>1, <3>2
  <2>10. g[S] \in Nat
    BY <2>2, <2>3, <2>9, SumType
  <2>11. S = {} => g[S] = 0
    BY <2>9 DEF Sums, Unfolds
  <2>12. Availability(snapshot)[b] = g[S]
    BY <2>8 DEF Availability, S
  <2>13. g[S] > 0 => S # {}
    BY <2>11
  <2> QED
    BY <2>1, <2>10, <2>12, <2>13 DEF S
<1>2. Availability(snapshot) = [b \in Backends |-> Availability(snapshot)[b]]
  BY DEF Availability
<1> QED
  BY <1>1, <1>2

-----------------------------------------------------------------------------
(* What the gates a command has passed say of it, and what it remembers of *)
(* the mesh: the beats it read are no younger than the nodes' last ones.   *)
Suits(r, b) ==
  /\ b \in Allowed(r.policy)
  /\ r.work.sensitive /\ r.policy.forbidUntrusted => b \notin Untrusted
  /\ r.work.gpu => b \in HasGpu
  /\ NeedsMet(r.work.needs, b)

GatesPassed ==
  \A p \in Procs :
    /\ proc[p].pc \in {"grant", "execute"} => Suits(proc[p].req, proc[p].backend)
    /\ proc[p].pc = "execute" => proc[p].req.attested /\ ~ proc[p].req.quorum

BeatsPast == \A n \in Nodes : beats[n].ts <= clock

MeshPast ==
  \A p \in Procs : proc[p].pc = "admit" =>
    \A n \in Nodes : proc[p].mesh[n] # NoBeat =>
       0 <= proc[p].mesh[n].ts /\ proc[p].mesh[n].ts <= beats[n].ts

Gates == GatesPassed /\ Governed /\ BeatsPast /\ MeshPast

(* What place() answers suits the request, and a node that beat within the *)
(* TTL announces it.                                                       *)
LEMMA PlacementSuits ==
  ASSUME IInv, NEW p \in Procs, At(p, "admit"), NEW b \in Backends,
         b = Place(proc[p].req.work, proc[p].req.policy, Availability(proc[p].mesh))
  PROVE  /\ Suits(proc[p].req, b)
         /\ \E n \in Nodes : n \in Live(proc[p].mesh) /\ Announced(n) = b
<1> DEFINE r == proc[p].req
           avail == Availability(proc[p].mesh)
<1>1. proc[p] \in Phase /\ proc[p].pc = "admit" /\ TypeOK
  BY DEF At, IInv, TypeOK
<1>2. r \in Requests /\ proc[p].mesh \in [Nodes -> Beat]
  BY <1>1, PhaseCarries
<1>3. /\ avail \in [Backends -> Nat]
      /\ avail[b] > 0 => \E n \in Nodes : n \in Live(proc[p].mesh) /\ Announced(n) = b
  BY <1>1, <1>2, AvailabilityFacts
<1>4. Len(r.policy.prefer) \in Nat
  BY <1>2, RequestAssumption
<1> HIDE DEF r, avail
<1>5. b \in Candidates(r.work, r.policy, avail)
  BY <1>3, <1>4, PlaceSuits DEF r, avail
<1>6. avail[b] > 0 /\ Suits(r, b)
  BY <1>5 DEF Candidates, Suits
<1> QED
  BY <1>3, <1>6 DEF r

(* The gates through a step of one command.                                *)
LEMMA GatesKept ==
  ASSUME IInv, Gates, NEW p \in Procs, NEW c, Goto(p, c), UNCHANGED mesh,
         jobs' = jobs \/ Governed',
         c.pc \in {"grant", "execute"} => Suits(c.req, c.backend),
         c.pc = "execute" => c.req.attested /\ ~ c.req.quorum,
         c.pc = "admit" => \A n \in Nodes : c.mesh[n] # NoBeat =>
                              0 <= c.mesh[n].ts /\ c.mesh[n].ts <= beats[n].ts
  PROVE  Gates'
<1>1. proc'[p] = c /\ \A q \in Procs \ {p} : proc'[q] = proc[q]
  BY GotoOnly
<1>2. beats' = beats /\ clock' = clock
  BY DEF mesh
<1>3. GatesPassed'
  BY <1>1 DEF Gates, GatesPassed
<1>4. MeshPast'
  BY <1>1, <1>2 DEF Gates, MeshPast
<1>5. BeatsPast'
  BY <1>2 DEF Gates, BeatsPast
<1>6. Governed'
  BY DEF Gates, Governed
<1> QED
  BY <1>3, <1>4, <1>5, <1>6 DEF Gates

LEMMA AddJobGoverned ==
  ASSUME IInv, Gates, NEW p \in Procs, NEW ran \in BOOLEAN,
         At(p, "execute"), Verify(p), AddJob(p, ran)
  PROVE  Governed'
<1> DEFINE r == proc[p].req
           b == proc[p].backend
           j == [id |-> Cardinality(jobs) + 1, req |-> r, backend |-> b,
                 expired |-> proc[p].expired, ran |-> ran]
<1>1. j.req = r /\ j.backend = b /\ j.expired = proc[p].expired
  OBVIOUS
<1>2. jobs' = jobs \cup {j}
  BY DEF AddJob
<1> HIDE DEF r, b, j
<1>3. Suits(r, b) /\ r.attested /\ ~ r.quorum
  BY DEF r, b, At, Gates, GatesPassed
<1>4. ~ proc[p].expired /\ r.effect = r.work.effect
  BY DEF r, Verify
<1>5. /\ j.req.attested /\ ~ j.req.quorum /\ ~ j.expired /\ j.req.effect = j.req.work.effect
      /\ Suits(j.req, j.backend)
  BY <1>1, <1>3, <1>4
<1>6. ASSUME NEW i \in jobs'
      PROVE  /\ i.req.attested /\ ~ i.req.quorum /\ ~ i.expired
             /\ i.req.effect = i.req.work.effect
             /\ i.backend \in Allowed(i.req.policy)
             /\ i.req.work.sensitive /\ i.req.policy.forbidUntrusted => i.backend \notin Untrusted
             /\ i.req.work.gpu => i.backend \in HasGpu
             /\ NeedsMet(i.req.work.needs, i.backend)
  <2>1. CASE i \in jobs
    BY <2>1 DEF Gates, Governed
  <2>2. CASE i = j
    BY <1>5, <2>2 DEF Suits
  <2> QED
    BY <1>2, <2>1, <2>2
<1> QED
  BY <1>6 DEF Governed

(* The gates through any step of a command.                                *)
LEMMA CommandKeepsGates ==
  ASSUME IInv, Gates, NEW p \in Procs, Command(p) PROVE Gates'
<1>1. ASSUME NEW c, Goto(p, c), c.pc \in {"idle", "charge", "save"},
             UNCHANGED mesh, jobs' = jobs \/ Governed'
      PROVE  Gates'
  BY <1>1, GatesKept
<1>2. Idle.pc = "idle"
  BY DEF Idle
<1>3. CASE Denied(p) \/ GrantRefused(p) \/ DispatchRefused(p)
  BY <1>1, <1>2, <1>3 DEF Denied, GrantRefused, DispatchRefused, Exit, work
<1>4. CASE SaveBegin(p) \/ SaveEnd(p) \/ Crash(p)
  BY <1>1, <1>2, <1>4 DEF SaveBegin, SaveEnd, Crash, Exit, work
<1>5. CASE \E r \in Requests : Start(p, r)
  <2>1. PICK r \in Requests : Start(p, r)
    BY <1>5
  <2>2. PICK torn : Goto(p, [pc |-> "admit", req |-> r, mesh |-> FromDir(torn)])
    BY <2>1 DEF Start
  <2> DEFINE c == [pc |-> "admit", req |-> r, mesh |-> FromDir(torn)]
  <2>3. c.pc = "admit" /\ c.mesh = FromDir(torn) /\ Goto(p, c)
    BY <2>2
  <2> HIDE DEF c
  <2>4. ASSUME NEW n \in Nodes, c.mesh[n] # NoBeat
        PROVE  0 <= c.mesh[n].ts /\ c.mesh[n].ts <= beats[n].ts
    <3>1. c.mesh[n] = beats[n] /\ beats[n] \in Beat
      BY <2>3, <2>4 DEF FromDir, IInv, TypeOK
    <3>2. beats[n].ts \in 0..MaxClock
      BY <2>4, <3>1 DEF Beat
    <3> QED
      BY <3>1, <3>2, RequestAssumption
  <2> QED
    BY <2>1, <2>3, <2>4, GatesKept DEF Start, work
<1>6. CASE Admitted(p)
  <2> DEFINE r == proc[p].req
             b == Place(r.work, r.policy, Availability(proc[p].mesh))
             c == [pc |-> "grant", req |-> r, backend |-> b]
  <2>1. /\ At(p, "admit") /\ UNCHANGED mesh /\ jobs' = jobs
        /\ IF b \in Backends THEN Goto(p, c) ELSE Exit(p)
    BY <1>6 DEF Admitted, work
  <2>2. CASE b \notin Backends
    BY <1>1, <1>2, <2>1, <2>2 DEF Exit
  <2>3. CASE b \in Backends
    <3>1. Suits(r, b)
      BY <2>1, <2>3, PlacementSuits
    <3>2. c.pc = "grant" /\ c.req = r /\ c.backend = b /\ Goto(p, c)
      BY <2>1, <2>3
    <3> HIDE DEF c, b, r
    <3> QED
      BY <2>1, <3>1, <3>2, GatesKept
  <2> QED
    BY <2>2, <2>3
<1>7. CASE GrantIssued(p) \/ GrantExpires(p)
  <2>1. PICK e \in BOOLEAN : Goto(p, [pc |-> "execute", req |-> proc[p].req,
                                      backend |-> proc[p].backend, expired |-> e])
    BY <1>7 DEF GrantIssued, GrantExpires
  <2>2. /\ Suits(proc[p].req, proc[p].backend)
        /\ proc[p].req.attested /\ ~ proc[p].req.quorum
        /\ UNCHANGED mesh /\ jobs' = jobs
    BY <1>7 DEF GrantIssued, GrantExpires, At, work, Gates, GatesPassed
  <2> DEFINE c == [pc |-> "execute", req |-> proc[p].req,
                   backend |-> proc[p].backend, expired |-> e]
  <2>3. c.pc = "execute" /\ c.req = proc[p].req /\ c.backend = proc[p].backend /\ Goto(p, c)
    BY <2>1
  <2> HIDE DEF c
  <2> QED
    BY <2>2, <2>3, GatesKept
<1>8. CASE \E ran \in BOOLEAN : Dispatch(p, ran)
  <2>1. Governed'
    BY <1>8, AddJobGoverned DEF Dispatch
  <2> DEFINE c == [pc |-> "charge", req |-> proc[p].req]
  <2>2. c.pc = "charge" /\ Goto(p, c) /\ UNCHANGED mesh
    BY <1>8 DEF Dispatch
  <2> HIDE DEF c
  <2> QED
    BY <1>1, <2>1, <2>2
<1>9. CASE \E submitted \in BOOLEAN : DispatchRaises(p, submitted)
  <2>1. jobs' = jobs \/ Governed'
    BY <1>9, AddJobGoverned DEF DispatchRaises
  <2> QED
    BY <1>1, <1>2, <1>9, <2>1 DEF DispatchRaises, Exit
<1> QED
  BY <1>3, <1>4, <1>5, <1>6, <1>7, <1>8, <1>9 DEF Command

LEMMA GatesStep == IInv /\ Gates /\ [Next]_vars => Gates'
<1> SUFFICES ASSUME IInv, Gates, [Next]_vars PROVE Gates'
  OBVIOUS
<1>1. CASE UNCHANGED vars
  BY <1>1 DEF vars, Gates, GatesPassed, Governed, BeatsPast, MeshPast
<1>2. CASE \E j \in jobs : JobEnds(j)
  BY <1>2 DEF JobEnds, mesh, Gates, GatesPassed, Governed, BeatsPast, MeshPast
<1>3. CASE Tick
  <2>1. clock' = clock + 1 /\ clock \in Int /\ UNCHANGED <<beats, proc, jobs>>
    BY <1>3 DEF Tick, work, IInv, TypeOK
  <2>2. \A n \in Nodes : beats[n].ts \in Int
    BY DEF IInv, TypeOK, Beat, NoBeat
  <2>3. BeatsPast'
    BY <2>1, <2>2 DEF Gates, BeatsPast
  <2> QED
    BY <2>1, <2>3 DEF Gates, GatesPassed, Governed, MeshPast
<1>4. CASE \E n \in Nodes, c \in Capacities : Heartbeat(n, c)
  <2>1. PICK m \in Nodes, c \in Capacities : Heartbeat(m, c)
    BY <1>4
  <2>2. UNCHANGED <<proc, jobs, clock>> /\ clock \in Int
    BY <2>1 DEF Heartbeat, work, IInv, TypeOK
  <2>3. /\ beats'[m].ts = clock /\ \A n \in Nodes \ {m} : beats'[n] = beats[n]
        /\ \A n \in Nodes : beats[n].ts \in Int
    BY <2>1 DEF Heartbeat, IInv, TypeOK, Beat, NoBeat
  <2>4. ASSUME NEW n \in Nodes PROVE beats[n].ts <= beats'[n].ts /\ beats'[n].ts <= clock
    <3>1. CASE n = m
      BY <2>2, <2>3, <3>1 DEF Gates, BeatsPast
    <3>2. CASE n # m
      BY <2>2, <2>3, <3>2 DEF Gates, BeatsPast
    <3> QED
      BY <3>1, <3>2
  <2>5. MeshPast'
    <3> SUFFICES ASSUME NEW p \in Procs, proc[p].pc = "admit",
                        NEW n \in Nodes, proc[p].mesh[n] # NoBeat
                 PROVE  0 <= proc[p].mesh[n].ts /\ proc[p].mesh[n].ts <= beats'[n].ts
      BY <2>2 DEF MeshPast
    <3>1. proc[p].mesh[n] \in Beat /\ beats'[n].ts \in Int
      <4>1. proc[p] \in Phase
        BY DEF IInv, TypeOK
      <4>2. proc[p].mesh \in [Nodes -> Beat]
        BY <4>1, PhaseCarries
      <4> QED
        BY <2>2, <2>3, <4>2
    <3>2. proc[p].mesh[n].ts \in Int
      BY <3>1 DEF Beat, NoBeat
    <3>3. 0 <= proc[p].mesh[n].ts /\ proc[p].mesh[n].ts <= beats[n].ts
      BY DEF Gates, MeshPast
    <3> QED
      BY <2>3, <2>4, <3>1, <3>2, <3>3
  <2> QED
    BY <2>2, <2>4, <2>5 DEF Gates, GatesPassed, Governed, BeatsPast
<1> QED
  BY <1>1, <1>2, <1>3, <1>4, CommandKeepsGates DEF Next

LEMMA InitGates == Init => Gates
  BY DEF Init, Gates, GatesPassed, Governed, BeatsPast, MeshPast, Idle, NoBeat

(* Every command has passed the gates that are behind it.                  *)
THEOREM GatesInvariant == Spec => []Gates
  BY InitGates, GatesStep, Invariant, PTL DEF Spec

(* Nothing is dispatched that any of the gates rules out.                  *)
THEOREM FailClosed == Spec => []Governed
<1>1. Gates => Governed
  BY DEF Gates
<1> QED
  BY <1>1, GatesInvariant, PTL

(* Which step takes a command from its admission to its grant.             *)
LEMMA OnlyAdmitted ==
  ASSUME IInv, Next, NEW p \in Procs, At(p, "admit"), proc'[p].pc = "grant"
  PROVE  Admitted(p)
<1>1. CASE UNCHANGED proc
  BY <1>1 DEF At
<1>2. ASSUME NEW q \in Procs, Command(q) PROVE Admitted(p)
  <2>1. ASSUME NEW c, Goto(q, c) PROVE q = p /\ c.pc = "grant"
    <3>1. proc'[q] = c /\ \A t \in Procs \ {q} : proc'[t] = proc[t]
      BY <2>1, GotoOnly
    <3> QED
      BY <3>1 DEF At
  <2>2. \E c : Goto(q, c)
    BY <1>2 DEF Command, Start, Denied, Admitted, GrantRefused, GrantIssued, GrantExpires,
                DispatchRefused, Dispatch, DispatchRaises, SaveBegin, SaveEnd, Crash, Exit
  <2>3. q = p
    BY <2>1, <2>2
  <2>4. ~ Goto(p, Idle) /\ ~ Exit(p)
    BY <2>1, <2>3 DEF Idle, Exit
  <2>5. \A r \in Requests : ~ Start(p, r)
    BY DEF At, Start
  <2> QED
    BY <1>2, <2>3, <2>4, <2>5 DEF Command, At, Denied, GrantRefused, GrantIssued, GrantExpires,
                DispatchRefused, Dispatch, DispatchRaises, SaveBegin, SaveEnd, Crash
<1> QED
  BY <1>1, <1>2 DEF Next, Heartbeat, JobEnds, Tick

(* An admission chooses a backend that a live node announces.              *)
LEMMA PlacedLive ==
  ASSUME IInv, Gates, NEW p \in Procs, Admitted(p), proc'[p].pc = "grant"
  PROVE  \E n \in Nodes : /\ Announced(n) = proc'[p].backend
                          /\ beats[n].ts >= 0
                          /\ clock - beats[n].ts <= MeshTTL
<1> DEFINE r == proc[p].req
           b == Place(r.work, r.policy, Availability(proc[p].mesh))
           c == [pc |-> "grant", req |-> r, backend |-> b]
<1>1. At(p, "admit") /\ IF b \in Backends THEN Goto(p, c) ELSE Exit(p)
  BY DEF Admitted
<1>2. b \in Backends /\ proc'[p].backend = b
  <2>1. ~ Exit(p)
    BY GotoOnly DEF Exit, Idle
  <2>2. b \in Backends /\ Goto(p, c)
    BY <1>1, <2>1
  <2>3. proc'[p] = c
    BY <2>2, GotoOnly
  <2> QED
    BY <2>2, <2>3
<1>3. PICK n \in Nodes : n \in Live(proc[p].mesh) /\ Announced(n) = b
  BY <1>1, <1>2, PlacementSuits
<1> DEFINE m == proc[p].mesh[n]
<1>4. m # NoBeat /\ clock - m.ts <= MeshTTL
  BY <1>3 DEF Live
<1>5. 0 <= m.ts /\ m.ts <= beats[n].ts
  BY <1>1, <1>4 DEF At, Gates, MeshPast
<1>6. m.ts \in Int /\ beats[n].ts \in Int /\ clock \in Int /\ MeshTTL \in Int
  <2>1. proc[p] \in Phase /\ proc[p].pc = "admit"
    BY <1>1 DEF At, IInv, TypeOK
  <2>2. m \in Beat /\ beats[n] \in Beat
    BY <2>1, PhaseCarries DEF IInv, TypeOK
  <2>3. \A x \in Beat : x.ts \in Int
    BY DEF Beat, NoBeat
  <2> QED
    BY <2>2, <2>3, RequestAssumption DEF IInv, TypeOK
<1> HIDE DEF m, b
<1> QED
  BY <1>2, <1>3, <1>4, <1>5, <1>6

(* A backend is chosen only with one of its nodes alive by the clock of    *)
(* that moment, although the beats it is chosen by were read earlier.      *)
THEOREM PlacedOnLiveNodes == Spec => LiveAtPlacement
<1>1. IInv /\ Gates /\ [Next]_vars =>
        [\A p \in Procs :
           At(p, "admit") /\ proc'[p].pc = "grant" =>
             \E n \in Nodes : /\ Announced(n) = proc'[p].backend
                              /\ beats[n].ts >= 0
                              /\ clock - beats[n].ts <= MeshTTL]_vars
  BY OnlyAdmitted, PlacedLive
<1> QED
  BY <1>1, Invariant, GatesInvariant, PTL DEF Spec, LiveAtPlacement
=============================================================================
