--------------------------- MODULE LeaseScheduler ---------------------------
(***************************************************************************)
(* src/tools/lease_scheduler.py: pull-based dispatch of Work Units.  A     *)
(* worker leases units from an ordered list, returns results, and extends  *)
(* its leases with heartbeats; a lease whose deadline has passed is        *)
(* reclaimed by the next lease() or drained() call of anybody.             *)
(*                                                                         *)
(* A Work Unit is its index.  A lease id is the number in "lease-<n>"; an  *)
(* output is the lease id it was produced under.  A deadline is kept as    *)
(* the time left until it, floored at -1, because the code only asks       *)
(* whether now > deadline.  Each method runs without interleaving (the     *)
(* class is used from one thread); workers crash, are slow, repeat calls.  *)
(***************************************************************************)
EXTENDS Integers, Sequences, FiniteSets, Functions

CONSTANTS NumUnits,     \* how many Work Units the scheduler is built with
          Workers,
          MaxInFlight,  \* self._max
          TTL,          \* self._ttl, in ticks
          Batches,      \* the values of n that workers pass to lease()
          MaxLeases     \* bound on self._seq

ASSUME ParamAssumption ==
  /\ NumUnits \in Nat
  /\ MaxInFlight \in Nat
  /\ TTL \in Nat
  /\ Batches \subseteq Nat
  /\ MaxLeases \in Nat

VARIABLES pending,   \* self._pending: sequence of indices
          leased,    \* self._leased: lease id -> index, worker, time left
          done,      \* self._done: index -> output
          inflight,  \* self._inflight: worker -> set of lease ids
          lent,      \* the replies of lease() so far; self._seq is its length
          accepted,  \* lease ids for which complete() returned True
          crashed    \* workers that make no more calls

vars == <<pending, leased, done, inflight, lent, accepted, crashed>>

Units == 1..NumUnits   \* enumerate(work_units), counted from 1
seq == Len(lent)
LeaseRecord == [index : Units, worker : Workers, left : -1..TTL]

TypeOK ==
  /\ pending \in Seq(Units)
  /\ DOMAIN leased \subseteq 1..seq
  /\ leased \in [DOMAIN leased -> LeaseRecord]
  /\ DOMAIN done \subseteq Units
  /\ done \in [DOMAIN done -> 1..seq]
  /\ inflight \in [Workers -> SUBSET (1..seq)]
  /\ lent \in Seq([worker : Workers, index : Units])
  /\ accepted \subseteq 1..seq
  /\ crashed \subseteq Workers

Init ==
  /\ pending = [i \in Units |-> i]
  /\ leased = << >>
  /\ done = << >>
  /\ inflight = [w \in Workers |-> {}]
  /\ lent = << >>
  /\ accepted = {}
  /\ crashed = {}

-----------------------------------------------------------------------------
(* _reclaim(now): what it leaves in each field.                            *)

ExpiredEarly == {l \in DOMAIN leased : leased[l].left <= 0}
ExpiredNever == {}
Expired == {l \in DOMAIN leased : leased[l].left < 0}

KeptAll == leased
Kept == [l \in DOMAIN leased \ Expired |-> leased[l]]

InflightStale == inflight
InflightKept ==
  [w \in Workers |-> inflight[w] \ {l \in Expired : leased[l].worker = w}]

(* The entries of the list before it is sorted: what is still in it, and   *)
(* the expired leases whose index has no result yet.                       *)
Entries ==
  {<<"pending", k>> : k \in 1..Len(pending)} \cup
  {<<"lease", l>> : l \in {x \in Expired : leased[x].index \notin DOMAIN done}}

EntryIndex(e) == IF e[1] = "pending" THEN pending[e[2]] ELSE leased[e[2]].index

Ordered(s) == \A i, j \in 1..Len(s) : i < j => s[i] <= s[j]

Arrangements ==
  {[i \in 1..Cardinality(Entries) |-> EntryIndex(f[i])] :
       f \in Bijection(1..Cardinality(Entries), Entries)}

(* The list after _reclaim: sorted by index when anything expired.         *)
PoolsUnsorted == IF Expired = {} THEN {pending} ELSE Arrangements
Pools == IF Expired = {} THEN {pending} ELSE {s \in Arrangements : Ordered(s)}

-----------------------------------------------------------------------------
(* lease(worker, n): reclaim, then hand out from the front of the list     *)
(* until it is empty, the worker is at the Limiter, or it has n units.     *)

Least(S) == CHOOSE x \in S : \A y \in S : x <= y
Room(w) == IF Cardinality(InflightKept[w]) < MaxInFlight
             THEN MaxInFlight - Cardinality(InflightKept[w]) ELSE 0
GrantedUnlimited(pool, w, n) == Least({Len(pool), n})
Granted(pool, w, n) == Least({Len(pool), Room(w), n})

HandOut(w, pool, k) ==
  /\ seq + k <= MaxLeases
  /\ pending' = SubSeq(pool, k + 1, Len(pool))
  /\ leased' = [l \in DOMAIN Kept \cup (seq + 1)..(seq + k) |->
                  IF l <= seq THEN Kept[l]
                  ELSE [index |-> pool[l - seq], worker |-> w, left |-> TTL]]
  /\ inflight' = [InflightKept EXCEPT ![w] = @ \cup (seq + 1)..(seq + k)]
  /\ lent' = lent \o [i \in 1..k |-> [worker |-> w, index |-> pool[i]]]
  /\ UNCHANGED <<done, accepted, crashed>>

DoLease(w, n) ==
  /\ w \notin crashed
  /\ \E pool \in Pools : HandOut(w, pool, Granted(pool, w, n))

(* complete(lease_id, output) of a live lease, expired or not: True.       *)
CompleteAccepted(l) ==
  /\ lent[l].worker \notin crashed
  /\ l \in DOMAIN leased
  /\ leased' = [m \in DOMAIN leased \ {l} |-> leased[m]]
  /\ inflight' = [inflight EXCEPT ![leased[l].worker] = @ \ {l}]
  /\ done' = [i \in DOMAIN done \cup {leased[l].index} |->
                IF i \in DOMAIN done THEN done[i] ELSE l]
  /\ accepted' = accepted \cup {l}
  /\ UNCHANGED <<pending, lent, crashed>>

(* complete() of a reclaimed or already completed lease: False, and the    *)
(* output is dropped.                                                      *)
CompleteLateRecorded(l) ==
  /\ lent[l].worker \notin crashed
  /\ l \notin DOMAIN leased
  /\ done' = [i \in DOMAIN done \cup {lent[l].index} |->
                IF i = lent[l].index THEN l ELSE done[i]]
  /\ UNCHANGED <<pending, leased, inflight, lent, accepted, crashed>>

CompleteLate(l) ==
  /\ lent[l].worker \notin crashed
  /\ l \notin DOMAIN leased
  /\ UNCHANGED vars

(* heartbeat(worker) extends every lease of the worker,                    *)
(* heartbeat(worker, lease_id) the one named.                              *)
Extend(w, L) ==
  /\ w \notin crashed
  /\ leased' = [l \in DOMAIN leased |->
                  IF leased[l].worker = w /\ l \in L
                    THEN [leased[l] EXCEPT !.left = TTL] ELSE leased[l]]
  /\ UNCHANGED <<pending, done, inflight, lent, accepted, crashed>>

HeartbeatAll(w) == Extend(w, DOMAIN leased)
HeartbeatOne(w, l) == Extend(w, {l})

(* drained() reclaims before it looks; what it returns is IsDrained'.      *)
IsDrained == pending = << >> /\ DOMAIN leased = {}

Drained ==
  /\ pending' \in Pools
  /\ leased' = Kept
  /\ inflight' = InflightKept
  /\ UNCHANGED <<done, lent, accepted, crashed>>

-----------------------------------------------------------------------------
(* The environment: the clock, and workers that stop.                      *)

Tick ==
  /\ leased' = [l \in DOMAIN leased |->
                  [leased[l] EXCEPT !.left = IF @ < 0 THEN @ ELSE @ - 1]]
  /\ UNCHANGED <<pending, done, inflight, lent, accepted, crashed>>

Crash(w) ==
  /\ w \notin crashed
  /\ crashed' = crashed \cup {w}
  /\ UNCHANGED <<pending, leased, done, inflight, lent, accepted>>

WorkerStep ==
  \/ \E w \in Workers, n \in Batches : DoLease(w, n)
  \/ \E l \in 1..seq : CompleteAccepted(l)
  \/ \E l \in 1..seq : CompleteLate(l)
  \/ \E w \in Workers : HeartbeatAll(w)
  \/ \E w \in Workers, l \in 1..seq : HeartbeatOne(w, l)
  \/ Drained

Next == WorkerStep \/ Tick \/ \E w \in Workers : Crash(w)

Spec == Init /\ [][Next]_vars

(***************************************************************************)
(* Liveness needs workers that behave: one that has not crashed heartbeats *)
(* (or completes) before its deadline, asks for work again and again, and  *)
(* completes what it holds.  Nothing is assumed of crashed workers, and    *)
(* nobody is obliged to call drained().                                    *)
(***************************************************************************)
OnTime ==
  \A l \in DOMAIN leased : leased[l].worker \notin crashed => leased[l].left > 0

TimelyNext == WorkerStep \/ (OnTime /\ Tick) \/ \E w \in Workers : Crash(w)

TimelySpec ==
  /\ Init /\ [][TimelyNext]_vars
  /\ \A w \in Workers : WF_vars(\E n \in Batches : DoLease(w, n))
  /\ \A l \in 1..MaxLeases : WF_vars(l \in 1..seq /\ CompleteAccepted(l))
  /\ WF_vars(OnTime /\ Tick)

-----------------------------------------------------------------------------
(* Properties.                                                             *)

LeasedIndices == {leased[l].index : l \in DOMAIN leased}

(* The docstring's "one copy of a Work Unit to at most one worker at a     *)
(* time" and "nothing is lost": every index is in exactly one of _pending, *)
(* _leased and _done, and in it once, after any sequence of leases,        *)
(* expiries, re-lending and late results.                                  *)
OneCopy ==
  /\ Range(pending) \cup LeasedIndices \cup DOMAIN done = Units
  /\ Range(pending) \cap LeasedIndices = {}
  /\ (Range(pending) \cup LeasedIndices) \cap DOMAIN done = {}
  /\ \A i, j \in 1..Len(pending) : pending[i] = pending[j] => i = j
  /\ \A l, m \in DOMAIN leased : leased[l].index = leased[m].index => l = m

(* The Limiter: _inflight names exactly the live leases of each worker, so *)
(* that len(held) < self._max bounds what the worker really holds.         *)
LimiterHolds ==
  \A w \in Workers :
    /\ inflight[w] = {l \in DOMAIN leased : leased[l].worker = w}
    /\ Cardinality(inflight[w]) <= MaxInFlight

(* "its late result is dropped, the re-lent copy is authoritative": a      *)
(* result complete() answered True to is the one results_in_order() will   *)
(* show, and it was produced under the last lease of that unit, to the     *)
(* very worker and unit the lease was handed out for.                      *)
Authoritative ==
  /\ accepted = Range(done)
  /\ \A i \in DOMAIN done :
       /\ lent[done[i]].index = i
       /\ \A l \in 1..seq : lent[l].index = i => l <= done[i]

(* drained() answers True only when every unit has a result.               *)
DrainedMeansDone == IsDrained => DOMAIN done = Units

(* Units are handed out in index order, re-lent ones included: what a      *)
(* lease() call hands out comes before everything left in the list.        *)
LowestFirst ==
  [][\A l \in DOMAIN leased' \ DOMAIN leased, k \in 1..Len(pending') :
        leased'[l].index < pending'[k]]_vars

(* No lease is taken from a worker before its deadline: a live lease       *)
(* disappears only by being completed.                                     *)
NoEarlyReclaim ==
  [][\A l \in DOMAIN leased \ DOMAIN leased' :
        leased[l].left < 0 \/ l \in accepted']_vars

(* A unit's first result stands (setdefault).                              *)
FirstResultStands ==
  [][\A i \in DOMAIN done : i \in DOMAIN done' /\ done'[i] = done[i]]_vars

(* Work-stealing: as long as one worker survives, every unit gets a        *)
(* result, whoever crashes holding whatever leases.                        *)
EventuallyDone == [](crashed # Workers) => <>(DOMAIN done = Units)

(* The scheduler implements the pool of WorkPool: the list is the pool, a  *)
(* live lease is a loan.                                                   *)
Abstract == INSTANCE WorkPool WITH
  pool <- Range(pending),
  lent <- {<<leased[l].index, leased[l].worker>> : l \in DOMAIN leased},
  finished <- DOMAIN done

RefinesWorkPool == Abstract!Spec
=============================================================================
