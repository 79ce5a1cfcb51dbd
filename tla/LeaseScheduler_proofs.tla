----------------------- MODULE LeaseScheduler_proofs -----------------------
(***************************************************************************)
(* Proofs about LeaseScheduler, for every number of units, set of workers, *)
(* Limiter, time to live, set of batch sizes and bound on the leases.      *)
(***************************************************************************)
EXTENDS LeaseScheduler, FiniteSetTheorems, SequenceTheorems, TLAPS

(* The lease a live record carries is the one lease() replied with, and    *)
(* the unit has not been handed out again since.                           *)
LentMatches ==
  \A l \in DOMAIN leased :
    /\ lent[l] = [worker |-> leased[l].worker, index |-> leased[l].index]
    /\ \A m \in 1..seq : lent[m].index = leased[l].index => m <= l

(* The inductive invariant.                                                *)
IInv == TypeOK /\ OneCopy /\ LimiterHolds /\ Authoritative /\ LentMatches

-----------------------------------------------------------------------------
(* The operators the model is built from.                                  *)

(* The number of leases granted never exceeds the list, the room the       *)
(* worker has left, or what was asked for.                                 *)
LEMMA LeastOfThree ==
  ASSUME NEW x \in Nat, NEW y \in Nat, NEW z \in Nat
  PROVE  /\ Least({x, y, z}) \in {x, y, z}
         /\ Least({x, y, z}) <= x
         /\ Least({x, y, z}) <= y
         /\ Least({x, y, z}) <= z
<1> DEFINE S == {x, y, z}
<1>1. \E m \in S : \A u \in S : m <= u
  <2>1. CASE x <= y /\ x <= z
    BY <2>1
  <2>2. CASE y <= x /\ y <= z
    BY <2>2
  <2>3. CASE z <= x /\ z <= y
    BY <2>3
  <2> QED
    BY <2>1, <2>2, <2>3
<1>2. Least(S) \in S /\ \A u \in S : Least(S) <= u
  BY <1>1, Zenon DEF Least
<1> QED
  BY <1>2

(* Lease ids are drawn from finite sets.                                   *)
LEMMA IdsFinite == \A m \in Nat : IsFiniteSet(1..m)
  BY FS_Interval

(* The entries that _reclaim sorts are finitely many.                      *)
LEMMA EntriesFinite ==
  ASSUME TypeOK
  PROVE  IsFiniteSet(Entries) /\ Cardinality(Entries) \in Nat
<1>1. Len(pending) \in Nat /\ seq \in Nat
  BY DEF TypeOK, seq
<1>2. IsFiniteSet(1..Len(pending)) /\ IsFiniteSet(1..seq)
  BY <1>1, IdsFinite
<1>3. IsFiniteSet({"pending"}) /\ IsFiniteSet({"lease"})
  BY FS_Singleton
<1>4. IsFiniteSet({"pending"} \X (1..Len(pending)))
  BY <1>2, <1>3, FS_Product
<1>5. IsFiniteSet({"lease"} \X (1..seq))
  BY <1>2, <1>3, FS_Product
<1>6. IsFiniteSet(({"pending"} \X (1..Len(pending))) \cup ({"lease"} \X (1..seq)))
  BY <1>4, <1>5, FS_Union
<1>7. Entries \subseteq ({"pending"} \X (1..Len(pending))) \cup ({"lease"} \X (1..seq))
  BY DEF Entries, Expired, TypeOK
<1>8. IsFiniteSet(Entries)
  BY <1>6, <1>7, FS_Subset
<1> QED
  BY <1>8, FS_CardinalityType

(* _reclaim keeps every unit: the list holds what it held and the units of *)
(* the expired leases, each once.                                          *)
LEMMA ReclaimKeepsUnits ==
  ASSUME TypeOK, OneCopy, NEW pool \in Pools
  PROVE  /\ pool \in Seq(Units)
         /\ Range(pool) = Range(pending) \cup {leased[l].index : l \in Expired}
         /\ \A i, j \in 1..Len(pool) : pool[i] = pool[j] => i = j
<1>1. CASE Expired = {}
  BY <1>1 DEF Pools, TypeOK, OneCopy
<1>2. CASE Expired # {}
  <2> DEFINE N == Cardinality(Entries)
  <2>1. N \in Nat
    BY EntriesFinite
  <2>2. PICK f \in Bijection(1..N, Entries) : pool = [i \in 1..N |-> EntryIndex(f[i])]
    BY <1>2, Zenon DEF Pools, Arrangements
  <2>3. /\ f \in [1..N -> Entries]
        /\ \A i, j \in 1..N : f[i] = f[j] => i = j
        /\ \A e \in Entries : \E i \in 1..N : f[i] = e
    BY <2>2, Zenon DEF Bijection, Injection, Surjection, IsInjective
  <2>4. \A l \in Expired : l \in DOMAIN leased /\ leased[l].index \in Units /\ leased[l].index \notin DOMAIN done
    BY DEF Expired, TypeOK, LeaseRecord, OneCopy, LeasedIndices
  <2>5. \A e \in Entries :
          \/ \E k \in 1..Len(pending) : e = <<"pending", k>> /\ EntryIndex(e) = pending[k]
          \/ \E l \in Expired : e = <<"lease", l>> /\ EntryIndex(e) = leased[l].index
    BY DEF Entries, EntryIndex
  <2>6. \A k \in 1..Len(pending) :
          pending[k] \in Units /\ <<"pending", k>> \in Entries /\ EntryIndex(<<"pending", k>>) = pending[k]
    BY DEF Entries, EntryIndex, TypeOK
  <2>7. \A l \in Expired :
          <<"lease", l>> \in Entries /\ EntryIndex(<<"lease", l>>) = leased[l].index
    BY <2>4 DEF Entries, EntryIndex
  <2>8. \A e \in Entries : EntryIndex(e) \in Units
    BY <2>4, <2>5, <2>6
  <2>9. pool \in [1..N -> Units] /\ Len(pool) = N /\ pool \in Seq(Units)
    BY <2>1, <2>2, <2>3, <2>8
  <2>10. \A e, g \in Entries : EntryIndex(e) = EntryIndex(g) => e = g
    <3>1. \A k \in 1..Len(pending), l \in Expired : pending[k] # leased[l].index
      <4>1. \A k \in 1..Len(pending) : pending[k] \in Range(pending)
        BY DEF Range, TypeOK
      <4>2. \A l \in Expired : leased[l].index \in LeasedIndices
        BY <2>4 DEF LeasedIndices
      <4> QED
        BY <4>1, <4>2 DEF OneCopy
    <3> QED
      BY <2>4, <2>5, <3>1 DEF OneCopy
  <2>11. \A i, j \in 1..N : pool[i] = pool[j] => i = j
    BY <2>2, <2>3, <2>10
  <2>12. Range(pool) = {EntryIndex(e) : e \in Entries}
    BY <2>2, <2>3 DEF Range
  <2>13. {EntryIndex(e) : e \in Entries} = Range(pending) \cup {leased[l].index : l \in Expired}
    <3>1. Range(pending) = {pending[k] : k \in 1..Len(pending)}
      <4>1. DOMAIN pending = 1..Len(pending)
        BY DEF TypeOK
      <4> QED
        BY <4>1, Zenon DEF Range
    <3> HIDE DEF N
    <3>2. \A e \in Entries : EntryIndex(e) \in Range(pending) \cup {leased[l].index : l \in Expired}
      BY <2>5, <3>1
    <3>3. \A k \in 1..Len(pending) : pending[k] \in {EntryIndex(e) : e \in Entries}
      BY <2>6
    <3>4. \A l \in Expired : leased[l].index \in {EntryIndex(e) : e \in Entries}
      BY <2>7
    <3> QED
      BY <3>1, <3>2, <3>3, <3>4
  <2> QED
    BY <2>9, <2>11, <2>12, <2>13
<1> QED
  BY <1>1, <1>2

(* What lease() may grant: no more than the list holds, and no more than   *)
(* takes the worker to the Limiter.                                        *)
LEMMA GrantedWithinRoom ==
  ASSUME TypeOK, NEW pool \in Seq(Units), NEW w \in Workers, NEW n \in Batches
  PROVE  /\ Granted(pool, w, n) \in 0..Len(pool)
         /\ IsFiniteSet(InflightKept[w])
         /\ Cardinality(InflightKept[w]) \in Nat
         /\ Granted(pool, w, n) > 0 =>
              Cardinality(InflightKept[w]) + Granted(pool, w, n) <= MaxInFlight
<1> DEFINE c == Cardinality(InflightKept[w])
<1>1. InflightKept[w] \subseteq 1..seq /\ seq \in Nat
  BY DEF InflightKept, TypeOK, seq
<1>2. IsFiniteSet(InflightKept[w]) /\ c \in Nat
  <2> HIDE DEF c
  <2>1. IsFiniteSet(1..seq)
    BY <1>1, IdsFinite
  <2>2. IsFiniteSet(InflightKept[w])
    BY <1>1, <2>1, FS_Subset
  <2> QED
    BY <2>2, FS_CardinalityType DEF c
<1>3. Room(w) = IF c < MaxInFlight THEN MaxInFlight - c ELSE 0
  BY DEF Room
<1>4. Len(pool) \in Nat /\ Room(w) \in Nat /\ n \in Nat
  BY <1>2, <1>3, ParamAssumption
<1>5. /\ Granted(pool, w, n) \in Nat
      /\ Granted(pool, w, n) <= Len(pool)
      /\ Granted(pool, w, n) <= Room(w)
  BY <1>4, LeastOfThree DEF Granted
<1> QED
  BY <1>2, <1>3, <1>4, <1>5, ParamAssumption

(* A worker that keeps some of what it holds stays within the Limiter.     *)
LEMMA FewerWithinLimit ==
  ASSUME TypeOK, LimiterHolds, NEW w \in Workers, NEW S \in SUBSET inflight[w]
  PROVE  Cardinality(S) <= MaxInFlight
<1>1. inflight[w] \subseteq 1..seq /\ seq \in Nat
  BY DEF TypeOK, seq
<1>2. IsFiniteSet(1..seq)
  BY <1>1, IdsFinite
<1>3. IsFiniteSet(inflight[w])
  BY <1>1, <1>2, FS_Subset
<1>4. IsFiniteSet(S) /\ Cardinality(S) <= Cardinality(inflight[w])
  BY <1>3, FS_Subset
<1>5. Cardinality(S) \in Nat /\ Cardinality(inflight[w]) \in Nat
  BY <1>3, <1>4, FS_CardinalityType
<1> QED
  BY <1>4, <1>5, ParamAssumption DEF LimiterHolds

-----------------------------------------------------------------------------
(* The invariant holds initially and is preserved by every action.         *)

LEMMA InitInvariant == Init => IInv
<1> SUFFICES ASSUME Init PROVE IInv
  OBVIOUS
<1>1. /\ pending \in Seq(Units) /\ Len(pending) = NumUnits
      /\ \A i \in Units : pending[i] = i
      /\ DOMAIN pending = Units
  BY ParamAssumption DEF Init, Units
<1>2. /\ DOMAIN leased = {} /\ DOMAIN done = {} /\ seq = 0 /\ 1..seq = {}
      /\ accepted = {} /\ crashed = {} /\ inflight = [w \in Workers |-> {}]
  BY DEF Init, seq
<1>3. TypeOK
  BY <1>1, <1>2 DEF TypeOK, Init
<1>4. OneCopy
  <2>1. Range(pending) = Units
    BY <1>1 DEF Range
  <2>2. LeasedIndices = {}
    BY <1>2 DEF LeasedIndices
  <2> QED
    BY <1>1, <1>2, <2>1, <2>2 DEF OneCopy, Units
<1>5. LimiterHolds
  BY <1>2, FS_EmptySet, ParamAssumption DEF LimiterHolds
<1>6. Authoritative
  BY <1>2 DEF Authoritative, Range
<1>7. LentMatches
  BY <1>2 DEF LentMatches
<1> QED
  BY <1>3, <1>4, <1>5, <1>6, <1>7 DEF IInv

(* What a lease() that hands out the first k units of the list leaves in   *)
(* _pending, in _leased and in the replies.                                *)
PendingRest(pool, k) ==
  /\ pending' \in Seq(Units)
  /\ Len(pending') = Len(pool) - k
  /\ \A i \in 1..Len(pending') : pending'[i] = pool[k + i]

LeasedAdded(w, pool, k) ==
  /\ DOMAIN leased' = (DOMAIN leased \ Expired) \cup (seq + 1)..(seq + k)
  /\ leased' = [l \in DOMAIN leased' |-> leased'[l]]
  /\ \A l \in DOMAIN leased \ Expired : l \in 1..seq /\ leased'[l] = leased[l]
  /\ \A l \in (seq + 1)..(seq + k) :
       leased'[l] = [index |-> pool[l - seq], worker |-> w, left |-> TTL]

LentAdded(w, pool, k) ==
  /\ lent' \in Seq([worker : Workers, index : Units])
  /\ seq' = seq + k
  /\ \A m \in 1..seq : lent'[m] = lent[m]
  /\ \A m \in (seq + 1)..(seq + k) : lent'[m] = [worker |-> w, index |-> pool[m - seq]]

NewIndices(w, pool, k) ==
  /\ \A l \in (seq + 1)..(seq + k) : leased'[l].index = pool[l - seq]
  /\ \A l \in (seq + 1)..(seq + k) : leased'[l].worker = w
  /\ \A l \in (seq + 1)..(seq + k) : lent'[l].index = pool[l - seq]

(* lease() hands out the first k units of the list under the next k ids,   *)
(* and leaves the rest of the list and the leases that have not expired.   *)
LEMMA HandOutEffect ==
  ASSUME TypeOK, NEW w \in Workers, NEW pool \in Seq(Units), NEW k \in 0..Len(pool),
         HandOut(w, pool, k)
  PROVE  /\ PendingRest(pool, k)
         /\ LeasedAdded(w, pool, k)
         /\ LentAdded(w, pool, k)
         /\ NewIndices(w, pool, k)
<1>1. k \in Nat /\ Len(pool) \in Nat /\ seq \in Nat /\ k <= Len(pool)
  BY DEF TypeOK, seq
<1>2. /\ pending' = SubSeq(pool, k + 1, Len(pool))
      /\ leased' = [l \in DOMAIN Kept \cup (seq + 1)..(seq + k) |->
                      IF l <= seq THEN Kept[l]
                      ELSE [index |-> pool[l - seq], worker |-> w, left |-> TTL]]
      /\ lent' = lent \o [i \in 1..k |-> [worker |-> w, index |-> pool[i]]]
  BY DEF HandOut
<1>3. PendingRest(pool, k)
  BY <1>1, <1>2 DEF PendingRest
<1>4. /\ DOMAIN Kept = DOMAIN leased \ Expired
      /\ DOMAIN Kept \subseteq 1..seq
      /\ \A l \in DOMAIN Kept : Kept[l] = leased[l]
  BY DEF Kept, TypeOK
<1>5. LeasedAdded(w, pool, k)
  <2>1. /\ DOMAIN leased' = (DOMAIN leased \ Expired) \cup (seq + 1)..(seq + k)
        /\ leased' = [l \in DOMAIN leased' |-> leased'[l]]
    BY <1>2, <1>4
  <2>2. \A l \in DOMAIN leased \ Expired : l \in 1..seq /\ leased'[l] = leased[l]
    BY <1>1, <1>2, <1>4
  <2>3. \A l \in (seq + 1)..(seq + k) :
          leased'[l] = [index |-> pool[l - seq], worker |-> w, left |-> TTL]
    BY <1>1, <1>2
  <2> QED
    BY <2>1, <2>2, <2>3 DEF LeasedAdded
<1>6. LentAdded(w, pool, k)
  <2> DEFINE new == [i \in 1..k |-> [worker |-> w, index |-> pool[i]]]
  <2>1. new \in Seq([worker : Workers, index : Units]) /\ Len(new) = k
    BY <1>1
  <2>2. lent \in Seq([worker : Workers, index : Units])
    BY DEF TypeOK
  <2>3. /\ lent' \in Seq([worker : Workers, index : Units])
        /\ Len(lent') = seq + k
        /\ \A i \in 1..(seq + k) : lent'[i] = IF i <= seq THEN lent[i] ELSE new[i - seq]
    <3>1. lent' = lent \o new
      BY <1>2
    <3> HIDE DEF new
    <3> QED
      BY <2>1, <2>2, <3>1, ConcatProperties DEF seq
  <2>4. seq' = seq + k
    BY <2>3 DEF seq
  <2>5. \A i \in 1..k : new[i] = [worker |-> w, index |-> pool[i]]
    OBVIOUS
  <2> HIDE DEF new
  <2>6. \A m \in (seq + 1)..(seq + k) : m - seq \in 1..k /\ lent'[m] = new[m - seq]
    BY <1>1, <2>3
  <2>7. \A m \in (seq + 1)..(seq + k) : lent'[m] = [worker |-> w, index |-> pool[m - seq]]
    BY <2>5, <2>6
  <2>8. \A m \in 1..seq : lent'[m] = lent[m]
    BY <1>1, <2>3
  <2> QED
    BY <2>3, <2>4, <2>7, <2>8 DEF LentAdded
<1>7. NewIndices(w, pool, k)
  <2> SUFFICES ASSUME NEW l \in (seq + 1)..(seq + k)
               PROVE  /\ leased'[l].index = pool[l - seq]
                      /\ leased'[l].worker = w
                      /\ lent'[l].index = pool[l - seq]
    BY DEF NewIndices
  <2>1. leased'[l] = [index |-> pool[l - seq], worker |-> w, left |-> TTL]
    BY <1>5, Zenon DEF LeasedAdded
  <2>2. lent'[l] = [worker |-> w, index |-> pool[l - seq]]
    BY <1>6, Zenon DEF LentAdded
  <2> QED
    BY <2>1, <2>2
<1> QED
  BY <1>3, <1>5, <1>6, <1>7

(* Which units are where once lease() has returned.                        *)
LEMMA HandOutPlaces ==
  ASSUME TypeOK, NEW w \in Workers, NEW pool \in Seq(Units), NEW k \in 0..Len(pool),
         HandOut(w, pool, k)
  PROVE  /\ Range(pending') = {pool[j] : j \in (k + 1)..Len(pool)}
         /\ LeasedIndices' = {leased[l].index : l \in DOMAIN leased \ Expired}
                               \cup {pool[j] : j \in 1..k}
         /\ Range(pool) = {pool[j] : j \in 1..k} \cup {pool[j] : j \in (k + 1)..Len(pool)}
<1>1. k \in Nat /\ Len(pool) \in Nat /\ seq \in Nat /\ k <= Len(pool)
  BY DEF TypeOK, seq
<1>2. /\ Len(pending') = Len(pool) - k /\ pending' \in Seq(Units)
      /\ \A i \in 1..Len(pending') : pending'[i] = pool[k + i]
  BY HandOutEffect DEF PendingRest
<1>3. /\ DOMAIN leased' = (DOMAIN leased \ Expired) \cup (seq + 1)..(seq + k)
      /\ \A l \in DOMAIN leased \ Expired : leased'[l] = leased[l]
      /\ \A l \in (seq + 1)..(seq + k) : leased'[l].index = pool[l - seq]
  <2>1. LeasedAdded(w, pool, k) /\ NewIndices(w, pool, k)
    BY HandOutEffect
  <2> QED
    BY <2>1, Zenon DEF LeasedAdded, NewIndices
<1>4. Range(pending') = {pool[j] : j \in (k + 1)..Len(pool)}
  <2>1. Range(pending') = {pending'[i] : i \in 1..(Len(pool) - k)}
    BY <1>2 DEF Range
  <2>2. \A i \in 1..(Len(pool) - k) : k + i \in (k + 1)..Len(pool) /\ pending'[i] = pool[k + i]
    BY <1>1, <1>2
  <2>3. \A j \in (k + 1)..Len(pool) : j - k \in 1..(Len(pool) - k) /\ pending'[j - k] = pool[j]
    BY <1>1, <1>2
  <2> QED
    BY <2>1, <2>2, <2>3
<1>5. LeasedIndices' = {leased[l].index : l \in DOMAIN leased \ Expired} \cup {pool[j] : j \in 1..k}
  <2>1. LeasedIndices' = {leased'[l].index : l \in DOMAIN leased'}
    BY DEF LeasedIndices
  <2>2. \A l \in (seq + 1)..(seq + k) : l - seq \in 1..k
    BY <1>1
  <2>3. \A j \in 1..k : seq + j \in (seq + 1)..(seq + k) /\ (seq + j) - seq = j
    BY <1>1
  <2>4. \A j \in 1..k : leased'[seq + j].index = pool[j]
    BY <1>3, <2>3
  <2> QED
    BY <1>3, <2>1, <2>2, <2>3, <2>4
<1>6. Range(pool) = {pool[j] : j \in 1..k} \cup {pool[j] : j \in (k + 1)..Len(pool)}
  <2>1. Range(pool) = {pool[j] : j \in 1..Len(pool)}
    BY DEF Range
  <2> QED
    BY <1>1, <2>1
<1> QED
  BY <1>4, <1>5, <1>6

(* lease(): what it hands out was in the list after _reclaim, so it was    *)
(* nowhere else, and the worker had room for it.                           *)
LEMMA LeasePreserves ==
  ASSUME IInv, NEW w \in Workers, NEW n \in Batches, DoLease(w, n)
  PROVE  IInv'
<1> PICK pool \in Pools : HandOut(w, pool, Granted(pool, w, n))
  BY DEF DoLease
<1> DEFINE k == Granted(pool, w, n)
<1> USE DEF IInv
<1>1. /\ pool \in Seq(Units)
      /\ Range(pool) = Range(pending) \cup {leased[l].index : l \in Expired}
      /\ \A i, j \in 1..Len(pool) : pool[i] = pool[j] => i = j
  BY ReclaimKeepsUnits
<1>2. /\ k \in 0..Len(pool)
      /\ IsFiniteSet(InflightKept[w])
      /\ Cardinality(InflightKept[w]) \in Nat
      /\ k > 0 => Cardinality(InflightKept[w]) + k <= MaxInFlight
  BY <1>1, GrantedWithinRoom
<1>3. /\ HandOut(w, pool, k)
      /\ inflight' = [InflightKept EXCEPT ![w] = @ \cup (seq + 1)..(seq + k)]
      /\ UNCHANGED <<done, accepted, crashed>>
  BY DEF HandOut
<1> HIDE DEF k
<1>4. k \in Nat /\ Len(pool) \in Nat /\ seq \in Nat /\ k <= Len(pool)
  BY <1>1, <1>2 DEF TypeOK, seq
<1> PendingRest(pool, k) /\ LeasedAdded(w, pool, k) /\ LentAdded(w, pool, k) /\ NewIndices(w, pool, k)
  BY <1>1, <1>2, <1>3, HandOutEffect
<1>5. /\ pending' \in Seq(Units)
      /\ Len(pending') = Len(pool) - k
      /\ \A i \in 1..Len(pending') : pending'[i] = pool[k + i]
  BY DEF PendingRest
<1>6. /\ DOMAIN leased' = (DOMAIN leased \ Expired) \cup (seq + 1)..(seq + k)
      /\ leased' = [l \in DOMAIN leased' |-> leased'[l]]
      /\ \A l \in DOMAIN leased \ Expired : l \in 1..seq /\ leased'[l] = leased[l]
  BY Zenon DEF LeasedAdded
<1>7. /\ lent' \in Seq([worker : Workers, index : Units])
      /\ seq' = seq + k
      /\ \A m \in 1..seq : lent'[m] = lent[m]
  BY Zenon DEF LentAdded
<1>8. /\ \A l \in (seq + 1)..(seq + k) : leased'[l].index = pool[l - seq]
      /\ \A l \in (seq + 1)..(seq + k) : leased'[l].worker = w
      /\ \A l \in (seq + 1)..(seq + k) : lent'[l].index = pool[l - seq]
  BY Zenon DEF NewIndices
<1>9. \A l \in (seq + 1)..(seq + k) : l - seq \in 1..k /\ l - seq \in 1..Len(pool)
  BY <1>4
<1>10. \A j \in 1..Len(pool) :
        pool[j] \notin DOMAIN done /\ \A l \in DOMAIN leased \ Expired : pool[j] # leased[l].index
  <2>1. \A j \in 1..Len(pool) : pool[j] \in Range(pool)
    BY <1>1 DEF Range
  <2>2. \A l \in DOMAIN leased : leased[l].index \in LeasedIndices
    BY DEF LeasedIndices
  <2>3. \A l \in Expired : l \in DOMAIN leased
    BY DEF Expired
  <2>4. \A i \in Range(pool) : i \in Range(pending) \/ \E l \in Expired : i = leased[l].index
    BY <1>1
  <2>5. \A i \in Range(pool) : i \notin DOMAIN done
    BY <2>2, <2>3, <2>4 DEF OneCopy
  <2>6. \A i \in Range(pool), l \in DOMAIN leased \ Expired : i # leased[l].index
    BY <2>2, <2>3, <2>4 DEF OneCopy
  <2> QED
    BY <2>1, <2>5, <2>6
<1>11. TypeOK'
  <2>1. DOMAIN leased' \subseteq 1..seq'
    BY <1>4, <1>6, <1>7
  <2>2. leased' \in [DOMAIN leased' -> LeaseRecord]
    <3>1. \A j \in 1..Len(pool) : pool[j] \in Units
      BY <1>1
    <3>2. \A l \in (seq + 1)..(seq + k) : leased'[l] \in LeaseRecord
      <4>1. \A j \in 1..Len(pool) : [index |-> pool[j], worker |-> w, left |-> TTL] \in LeaseRecord
        BY <3>1, ParamAssumption DEF LeaseRecord
      <4> QED
        BY <1>9, <4>1, Zenon DEF LeasedAdded
    <3>3. \A l \in DOMAIN leased \ Expired : leased'[l] \in LeaseRecord
      BY <1>6 DEF TypeOK
    <3> QED
      BY <1>6, <3>2, <3>3
  <2>3. inflight' \in [Workers -> SUBSET (1..seq')]
    <3>1. InflightKept \in [Workers -> SUBSET (1..seq')]
      BY <1>4, <1>7 DEF InflightKept, TypeOK
    <3>2. (seq + 1)..(seq + k) \subseteq 1..seq'
      BY <1>4, <1>7
    <3> QED
      BY <1>3, <3>1, <3>2
  <2>4. 1..seq \subseteq 1..seq'
    BY <1>4, <1>7
  <2> QED
    BY <1>3, <1>5, <1>7, <2>1, <2>2, <2>3, <2>4 DEF TypeOK, Units
<1>12. OneCopy'
  <2>1. /\ Range(pending') = {pool[j] : j \in (k + 1)..Len(pool)}
        /\ LeasedIndices' = {leased[l].index : l \in DOMAIN leased \ Expired}
                              \cup {pool[j] : j \in 1..k}
        /\ Range(pool) = {pool[j] : j \in 1..k} \cup {pool[j] : j \in (k + 1)..Len(pool)}
    BY <1>1, <1>2, <1>3, HandOutPlaces
  <2>2. LeasedIndices =
          {leased[l].index : l \in Expired} \cup {leased[l].index : l \in DOMAIN leased \ Expired}
    BY DEF LeasedIndices, Expired
  <2>3. Range(pending') \cup LeasedIndices' = Range(pending) \cup LeasedIndices
    BY <1>1, <2>1, <2>2
  <2>4. Range(pending') \cap LeasedIndices' = {}
    <3>1. \A i \in 1..k, j \in (k + 1)..Len(pool) : pool[i] # pool[j]
      BY <1>1, <1>4
    <3>2. \A j \in (k + 1)..Len(pool) : j \in 1..Len(pool)
      BY <1>4
    <3> QED
      BY <1>10, <2>1, <3>1, <3>2
  <2>5. \A i, j \in 1..Len(pending') : pending'[i] = pending'[j] => i = j
    <3>1. \A i \in 1..Len(pending') : k + i \in 1..Len(pool)
      BY <1>4, <1>5
    <3>2. \A i, j \in 1..Len(pending') : k + i = k + j => i = j
      BY <1>4, <1>5
    <3> QED
      BY <1>1, <1>5, <3>1, <3>2
  <2>6. \A l, m \in DOMAIN leased' : leased'[l].index = leased'[m].index => l = m
    <3>1. \A l, m \in (seq + 1)..(seq + k) : l - seq = m - seq => l = m
      BY <1>4
    <3>2. \A l, m \in (seq + 1)..(seq + k) : leased'[l].index = leased'[m].index => l = m
      BY <1>1, <1>8, <1>9, <3>1
    <3>3. \A l, m \in DOMAIN leased \ Expired : leased'[l].index = leased'[m].index => l = m
      BY <1>6 DEF OneCopy
    <3> QED
      BY <1>6, <1>8, <1>9, <1>10, <3>2, <3>3
  <2> QED
    BY <1>3, <2>3, <2>4, <2>5, <2>6 DEF OneCopy, Units
<1>13. LimiterHolds'
  <2> SUFFICES ASSUME NEW v \in Workers
               PROVE  /\ inflight'[v] = {l \in DOMAIN leased' : leased'[l].worker = v}
                      /\ Cardinality(inflight'[v]) <= MaxInFlight
    BY DEF LimiterHolds
  <2>1. InflightKept[v] = {l \in DOMAIN leased \ Expired : leased[l].worker = v}
    BY DEF InflightKept, LimiterHolds, Expired
  <2>2. InflightKept \in [Workers -> SUBSET (1..seq)]
    BY DEF InflightKept, TypeOK
  <2>3. IsFiniteSet(1..seq) /\ IsFiniteSet((seq + 1)..(seq + k)) /\ Cardinality((seq + 1)..(seq + k)) = k
    <3>1. IsFiniteSet(1..seq)
      BY <1>4, FS_Interval
    <3>2. seq + 1 \in Int /\ seq + k \in Int
      BY <1>4
    <3>3. /\ IsFiniteSet((seq + 1)..(seq + k))
          /\ Cardinality((seq + 1)..(seq + k)) =
               IF seq + 1 > seq + k THEN 0 ELSE (seq + k) - (seq + 1) + 1
      BY <3>2, FS_Interval, Zenon
    <3> QED
      BY <1>4, <3>1, <3>3
  <2>4. Cardinality(InflightKept[v]) <= MaxInFlight
    <3>1. InflightKept[v] \subseteq inflight[v]
      BY DEF InflightKept
    <3> QED
      BY <3>1, FewerWithinLimit
  <2>5. {l \in DOMAIN leased' : leased'[l].worker = v} =
          InflightKept[v] \cup {l \in (seq + 1)..(seq + k) : w = v}
    BY <1>6, <1>8, <2>1
  <2>6. CASE v # w
    <3>1. inflight'[v] = InflightKept[v]
      BY <1>3, <2>2, <2>6
    <3> QED
      BY <2>4, <2>5, <2>6, <3>1
  <2>7. CASE v = w
    <3>1. inflight'[w] = InflightKept[w] \cup (seq + 1)..(seq + k)
      BY <1>3, <2>2
    <3>2. InflightKept[w] \cap (seq + 1)..(seq + k) = {}
      BY <1>4, <2>2
    <3>3. Cardinality(InflightKept[w] \cup (seq + 1)..(seq + k)) =
            Cardinality(InflightKept[w]) + k - Cardinality(InflightKept[w] \cap (seq + 1)..(seq + k))
      BY <1>2, <2>3, FS_Union
    <3>4. Cardinality(inflight'[w]) = Cardinality(InflightKept[w]) + k
      <4>1. Cardinality(InflightKept[w] \cap (seq + 1)..(seq + k)) = 0
        BY <3>2, FS_EmptySet, Zenon
      <4> QED
        BY <1>2, <1>4, <3>1, <3>3, <4>1
    <3> QED
      BY <1>2, <1>4, <2>4, <2>5, <2>7, <3>1, <3>4
  <2> QED
    BY <2>6, <2>7
<1>14. Authoritative'
  <2>1. \A i \in DOMAIN done : done[i] \in 1..seq
    BY DEF TypeOK
  <2> SUFFICES ASSUME NEW i \in DOMAIN done
               PROVE  /\ lent'[done[i]].index = i
                      /\ \A l \in 1..(seq + k) : lent'[l].index = i => l <= done[i]
    BY <1>3, <1>7 DEF Authoritative
  <2>2. lent'[done[i]].index = i
    BY <1>7, <2>1 DEF Authoritative
  <2>3. ASSUME NEW l \in 1..(seq + k), lent'[l].index = i
        PROVE  l <= done[i]
    <3>1. CASE l \in 1..seq
      BY <1>7, <2>3, <3>1 DEF Authoritative
    <3>2. CASE l \in (seq + 1)..(seq + k)
      BY <1>8, <1>9, <1>10, <2>3, <3>2
    <3> QED
      BY <1>4, <3>1, <3>2
  <2> QED
    BY <2>2, <2>3
<1>15. LentMatches'
  <2> SUFFICES ASSUME NEW l \in DOMAIN leased'
               PROVE  /\ lent'[l] = [worker |-> leased'[l].worker, index |-> leased'[l].index]
                      /\ \A m \in 1..(seq + k) : lent'[m].index = leased'[l].index => m <= l
    BY <1>7 DEF LentMatches
  <2>2. CASE l \in DOMAIN leased \ Expired
    <3>1. l \in 1..seq /\ leased'[l] = leased[l] /\ lent'[l] = lent[l]
      BY <1>6, <1>7, <2>2
    <3>2. ASSUME NEW m \in 1..(seq + k), lent'[m].index = leased'[l].index
          PROVE  m <= l
      <4>1. CASE m \in 1..seq
        BY <1>7, <2>2, <3>1, <3>2, <4>1 DEF LentMatches
      <4>2. CASE m \in (seq + 1)..(seq + k)
        BY <1>8, <1>9, <1>10, <2>2, <3>1, <3>2, <4>2
      <4> QED
        BY <1>4, <4>1, <4>2
    <3> QED
      BY <2>2, <3>1, <3>2 DEF LentMatches
  <2>3. CASE l \in (seq + 1)..(seq + k)
    <3>1. lent'[l] = [worker |-> w, index |-> pool[l - seq]]
      BY <2>3, Zenon DEF LentAdded
    <3>2. leased'[l].index = pool[l - seq] /\ leased'[l].worker = w
      BY <1>8, <2>3
    <3>3. ASSUME NEW m \in (seq + 1)..(seq + k), lent'[m].index = leased'[l].index
          PROVE  m <= l
      <4>1. pool[m - seq] = pool[l - seq]
        BY <1>8, <3>2, <3>3
      <4>2. m - seq = l - seq
        BY <1>1, <1>9, <2>3, <4>1
      <4> QED
        BY <1>4, <2>3, <4>2
    <3>4. \A m \in 1..(seq + k) : m \in (seq + 1)..(seq + k) \/ m <= l
      BY <1>4, <2>3
    <3> QED
      BY <3>1, <3>2, <3>3, <3>4
  <2> QED
    BY <1>6, <2>2, <2>3
<1> QED
  BY <1>11, <1>12, <1>13, <1>14, <1>15

(* drained(): _reclaim alone.                                              *)
LEMMA DrainedPreserves ==
  ASSUME IInv, Drained
  PROVE  IInv'
<1> USE DEF IInv
<1>1. /\ pending' \in Pools /\ leased' = Kept /\ inflight' = InflightKept
      /\ UNCHANGED <<done, lent, accepted, crashed>>
  BY DEF Drained
<1>2. /\ pending' \in Seq(Units)
      /\ Range(pending') = Range(pending) \cup {leased[l].index : l \in Expired}
      /\ \A i, j \in 1..Len(pending') : pending'[i] = pending'[j] => i = j
  BY <1>1, ReclaimKeepsUnits
<1>3. /\ DOMAIN leased' = DOMAIN leased \ Expired
      /\ \A l \in DOMAIN leased' : leased'[l] = leased[l]
      /\ leased' = [l \in DOMAIN leased' |-> leased'[l]]
  BY <1>1 DEF Kept
<1>4. seq' = seq
  BY <1>1 DEF seq
<1>5. TypeOK'
  <2>1. leased' \in [DOMAIN leased' -> LeaseRecord]
    BY <1>3 DEF TypeOK
  <2>2. inflight' \in [Workers -> SUBSET (1..seq)]
    BY <1>1 DEF InflightKept, TypeOK
  <2> QED
    BY <1>1, <1>2, <1>3, <1>4, <2>1, <2>2 DEF TypeOK, Units
<1>6. OneCopy'
  <2>1. LeasedIndices' = {leased[l].index : l \in DOMAIN leased \ Expired}
    BY <1>3 DEF LeasedIndices
  <2>2. LeasedIndices = LeasedIndices' \cup {leased[l].index : l \in Expired}
    BY <2>1 DEF LeasedIndices, Expired
  <2>3. {leased[l].index : l \in Expired} \cap LeasedIndices' = {}
    BY <2>1 DEF OneCopy, Expired
  <2>4. Range(pending) \cap LeasedIndices' = {}
    BY <2>2 DEF OneCopy
  <2>5. Range(pending') \cup LeasedIndices' = Range(pending) \cup LeasedIndices
    BY <1>2, <2>2
  <2>6. Range(pending') \cap LeasedIndices' = {}
    BY <1>2, <2>3, <2>4
  <2>7. \A l, m \in DOMAIN leased' : leased'[l].index = leased'[m].index => l = m
    BY <1>3 DEF OneCopy
  <2> QED
    BY <1>1, <1>2, <2>5, <2>6, <2>7 DEF OneCopy, Units
<1>7. LimiterHolds'
  <2> SUFFICES ASSUME NEW w \in Workers
               PROVE  /\ inflight'[w] = {l \in DOMAIN leased' : leased'[l].worker = w}
                      /\ Cardinality(inflight'[w]) <= MaxInFlight
    BY DEF LimiterHolds
  <2>1. inflight'[w] = inflight[w] \ {l \in Expired : leased[l].worker = w}
    BY <1>1 DEF InflightKept
  <2>2. inflight'[w] = {l \in DOMAIN leased' : leased'[l].worker = w}
    BY <1>3, <2>1 DEF LimiterHolds, Expired
  <2>3. inflight'[w] \subseteq inflight[w]
    BY <2>1
  <2> QED
    BY <2>2, <2>3, FewerWithinLimit
<1>8. Authoritative'
  BY <1>1, <1>4 DEF Authoritative
<1>9. LentMatches'
  BY <1>1, <1>3, <1>4 DEF LentMatches
<1> QED
  BY <1>5, <1>6, <1>7, <1>8, <1>9

(* complete() of a live lease: the unit moves from _leased to _done.       *)
LEMMA CompletePreserves ==
  ASSUME IInv, NEW l \in 1..seq, CompleteAccepted(l)
  PROVE  IInv'
<1> USE DEF IInv
<1> DEFINE i == leased[l].index
           w == leased[l].worker
<1>1. /\ l \in DOMAIN leased
      /\ leased' = [m \in DOMAIN leased \ {l} |-> leased[m]]
      /\ inflight' = [inflight EXCEPT ![w] = @ \ {l}]
      /\ done' = [j \in DOMAIN done \cup {i} |-> IF j \in DOMAIN done THEN done[j] ELSE l]
      /\ accepted' = accepted \cup {l}
      /\ UNCHANGED <<pending, lent, crashed>>
  BY DEF CompleteAccepted
<1>2. i \in Units /\ w \in Workers /\ i \in LeasedIndices
  BY <1>1 DEF TypeOK, LeaseRecord, LeasedIndices
<1>3. /\ DOMAIN leased' = DOMAIN leased \ {l}
      /\ \A m \in DOMAIN leased' : leased'[m] = leased[m]
      /\ leased' = [m \in DOMAIN leased' |-> leased'[m]]
  BY <1>1
<1>4. i \notin DOMAIN done
  BY <1>2 DEF OneCopy
<1>5. /\ DOMAIN done' = DOMAIN done \cup {i}
      /\ \A j \in DOMAIN done : done'[j] = done[j]
      /\ done'[i] = l
      /\ done' = [j \in DOMAIN done' |-> done'[j]]
  BY <1>1, <1>4
<1> HIDE DEF i, w
<1>6. seq' = seq
  BY <1>1 DEF seq
<1>7. TypeOK'
  <2>1. leased' \in [DOMAIN leased' -> LeaseRecord]
    BY <1>3 DEF TypeOK
  <2>2. done' \in [DOMAIN done' -> 1..seq]
    BY <1>5 DEF TypeOK
  <2>3. inflight' \in [Workers -> SUBSET (1..seq)]
    BY <1>1 DEF TypeOK
  <2> QED
    BY <1>1, <1>2, <1>3, <1>5, <1>6, <2>1, <2>2, <2>3 DEF TypeOK, Units
<1>8. OneCopy'
  <2>1. LeasedIndices' = {leased[m].index : m \in DOMAIN leased \ {l}}
    BY <1>3 DEF LeasedIndices
  <2>2. LeasedIndices = LeasedIndices' \cup {i} /\ i \notin LeasedIndices'
    BY <1>1, <2>1 DEF LeasedIndices, OneCopy, i
  <2>3. Range(pending') = Range(pending) /\ i \notin Range(pending)
    BY <1>1, <1>2 DEF OneCopy
  <2>4. \A m, n \in DOMAIN leased' : leased'[m].index = leased'[n].index => m = n
    BY <1>3 DEF OneCopy
  <2> QED
    BY <1>1, <1>4, <1>5, <2>2, <2>3, <2>4 DEF OneCopy, Units
<1>9. LimiterHolds'
  <2> SUFFICES ASSUME NEW v \in Workers
               PROVE  /\ inflight'[v] = {m \in DOMAIN leased' : leased'[m].worker = v}
                      /\ Cardinality(inflight'[v]) <= MaxInFlight
    BY DEF LimiterHolds
  <2>1. inflight'[v] = IF v = w THEN inflight[v] \ {l} ELSE inflight[v]
    BY <1>1, <1>2 DEF TypeOK
  <2>2. inflight'[v] = {m \in DOMAIN leased' : leased'[m].worker = v}
    BY <1>3, <2>1 DEF LimiterHolds, w
  <2>3. inflight'[v] \subseteq inflight[v]
    BY <2>1
  <2> QED
    BY <2>2, <2>3, FewerWithinLimit
<1>10. Authoritative'
  <2>1. Range(done') = Range(done) \cup {l}
    BY <1>4, <1>5 DEF Range
  <2>2. lent[l].index = i /\ \A m \in 1..seq : lent[m].index = i => m <= l
    <3>1. lent[l] = [worker |-> leased[l].worker, index |-> leased[l].index]
      BY <1>1 DEF LentMatches
    <3> QED
      BY <1>1, <3>1 DEF LentMatches, i
  <2> QED
    BY <1>1, <1>5, <1>6, <2>1, <2>2 DEF Authoritative
<1>11. LentMatches'
  BY <1>1, <1>3, <1>6 DEF LentMatches
<1> QED
  BY <1>7, <1>8, <1>9, <1>10, <1>11

(* heartbeat() and the clock change nothing of a lease but its deadline.   *)
LEMMA DeadlinesPreserve ==
  ASSUME IInv,
         DOMAIN leased' = DOMAIN leased,
         leased' \in [DOMAIN leased -> LeaseRecord],
         \A l \in DOMAIN leased : /\ leased'[l].index = leased[l].index
                                  /\ leased'[l].worker = leased[l].worker,
         UNCHANGED <<pending, done, inflight, lent, accepted>>,
         crashed' \subseteq Workers
  PROVE  IInv'
<1> USE DEF IInv
<1>1. seq' = seq
  BY DEF seq
<1>2. TypeOK'
  BY <1>1 DEF TypeOK, Units
<1>3. OneCopy'
  <2>1. LeasedIndices' = LeasedIndices
    BY DEF LeasedIndices
  <2> QED
    BY <2>1 DEF OneCopy, Units
<1>4. LimiterHolds'
  BY DEF LimiterHolds
<1>5. Authoritative'
  BY <1>1 DEF Authoritative
<1>6. LentMatches'
  BY <1>1 DEF LentMatches
<1> QED
  BY <1>2, <1>3, <1>4, <1>5, <1>6

LEMMA ExtendPreserves ==
  ASSUME IInv, NEW w \in Workers, NEW L, Extend(w, L)
  PROVE  IInv'
<1>1. /\ DOMAIN leased' = DOMAIN leased
      /\ leased' \in [DOMAIN leased -> LeaseRecord]
      /\ \A l \in DOMAIN leased : /\ leased'[l].index = leased[l].index
                                  /\ leased'[l].worker = leased[l].worker
  <2>1. leased' = [l \in DOMAIN leased |->
                     IF leased[l].worker = w /\ l \in L
                       THEN [leased[l] EXCEPT !.left = TTL] ELSE leased[l]]
    BY DEF Extend
  <2>2. ASSUME NEW l \in DOMAIN leased
        PROVE  /\ leased'[l] \in LeaseRecord
               /\ leased'[l].index = leased[l].index
               /\ leased'[l].worker = leased[l].worker
    <3>1. leased[l] \in LeaseRecord
      BY DEF IInv, TypeOK
    <3>2. \/ leased'[l] = [leased[l] EXCEPT !.left = TTL]
          \/ leased'[l] = leased[l]
      BY <2>1
    <3> QED
      BY <3>1, <3>2, ParamAssumption DEF LeaseRecord
  <2> QED
    <3>1. DOMAIN leased' = DOMAIN leased /\ leased' = [l \in DOMAIN leased |-> leased'[l]]
      BY <2>1, Zenon
    <3> QED
      BY <2>2, <3>1
<1> QED
  BY <1>1, DeadlinesPreserve DEF Extend, IInv, TypeOK

LEMMA TickPreserves ==
  ASSUME IInv, Tick
  PROVE  IInv'
<1>1. /\ DOMAIN leased' = DOMAIN leased
      /\ leased' \in [DOMAIN leased -> LeaseRecord]
      /\ \A l \in DOMAIN leased : /\ leased'[l].index = leased[l].index
                                  /\ leased'[l].worker = leased[l].worker
  <2>1. \A l \in DOMAIN leased : leased[l] \in LeaseRecord
    BY DEF IInv, TypeOK
  <2> DEFINE Less(x) == IF x < 0 THEN x ELSE x - 1
  <2>2. \A x \in -1..TTL : Less(x) \in -1..TTL
    BY ParamAssumption
  <2>3. leased' = [l \in DOMAIN leased |-> [leased[l] EXCEPT !.left = Less(leased[l].left)]]
    BY DEF Tick
  <2> HIDE DEF Less
  <2>4. ASSUME NEW l \in DOMAIN leased
        PROVE  /\ leased'[l] \in LeaseRecord
               /\ leased'[l].index = leased[l].index
               /\ leased'[l].worker = leased[l].worker
    <3>1. leased'[l] = [leased[l] EXCEPT !.left = Less(leased[l].left)]
      BY <2>3
    <3>2. leased[l].left \in -1..TTL
      BY <2>1 DEF LeaseRecord
    <3> QED
      BY <2>1, <2>2, <3>1, <3>2 DEF LeaseRecord
  <2> QED
    <3>1. DOMAIN leased' = DOMAIN leased /\ leased' = [l \in DOMAIN leased |-> leased'[l]]
      BY <2>3, Zenon
    <3> QED
      BY <2>4, <3>1
<1> QED
  BY <1>1, DeadlinesPreserve DEF Tick, IInv, TypeOK

LEMMA CrashPreserves ==
  ASSUME IInv, NEW w \in Workers, Crash(w)
  PROVE  IInv'
  BY DeadlinesPreserve DEF Crash, IInv, TypeOK

LEMMA InvariantStep == IInv /\ [Next]_vars => IInv'
<1> SUFFICES ASSUME IInv, [Next]_vars PROVE IInv'
  OBVIOUS
<1>1. CASE UNCHANGED vars
  BY <1>1 DEF vars, IInv, TypeOK, OneCopy, LimiterHolds, Authoritative, LentMatches,
              LeasedIndices, seq
<1>2. ASSUME NEW w \in Workers, NEW n \in Batches, DoLease(w, n) PROVE IInv'
  BY <1>2, LeasePreserves
<1>3. ASSUME NEW l \in 1..seq, CompleteAccepted(l) PROVE IInv'
  BY <1>3, CompletePreserves
<1>4. ASSUME NEW l \in 1..seq, CompleteLate(l) PROVE IInv'
  BY <1>1, <1>4 DEF CompleteLate
<1>5. ASSUME NEW w \in Workers, HeartbeatAll(w) PROVE IInv'
  BY <1>5, ExtendPreserves DEF HeartbeatAll
<1>6. ASSUME NEW w \in Workers, NEW l \in 1..seq, HeartbeatOne(w, l) PROVE IInv'
  BY <1>6, ExtendPreserves DEF HeartbeatOne
<1>7. CASE Drained
  BY <1>7, DrainedPreserves
<1>8. CASE Tick
  BY <1>8, TickPreserves
<1>9. ASSUME NEW w \in Workers, Crash(w) PROVE IInv'
  BY <1>9, CrashPreserves
<1> QED
  BY <1>1, <1>2, <1>3, <1>4, <1>5, <1>6, <1>7, <1>8, <1>9 DEF Next, WorkerStep

-----------------------------------------------------------------------------
(* The theorems.                                                           *)

(* The inductive invariant holds in every reachable state.                 *)
THEOREM Invariant == Spec => []IInv
  BY InitInvariant, InvariantStep, PTL DEF Spec

(* Every field keeps its type, whatever the workers call.                  *)
THEOREM TypeCorrect == Spec => []TypeOK
<1>1. IInv => TypeOK
  BY DEF IInv
<1> QED
  BY <1>1, Invariant, PTL

(* "One copy of a Work Unit to at most one worker at a time ... nothing is *)
(* lost": whatever the number of units and workers and however often       *)
(* leases expire, each unit is in exactly one place, once.                 *)
THEOREM NothingLostOrDoubled == Spec => []OneCopy
<1>1. IInv => OneCopy
  BY DEF IInv
<1> QED
  BY <1>1, Invariant, PTL

(* "A Limiter caps in-flight leases per worker", and counts what the       *)
(* worker really holds.                                                    *)
THEOREM LimiterRespected == Spec => []LimiterHolds
<1>1. IInv => LimiterHolds
  BY DEF IInv
<1> QED
  BY <1>1, Invariant, PTL

(* "Its late result is dropped, the re-lent copy is authoritative": the    *)
(* results kept are those complete() accepted, each produced under the     *)
(* last lease of its unit.                                                 *)
THEOREM ResultsAuthoritative == Spec => []Authoritative
<1>1. IInv => Authoritative
  BY DEF IInv
<1> QED
  BY <1>1, Invariant, PTL

(* drained() never answers True with a unit unfinished.                    *)
THEOREM DrainedIsDone == Spec => []DrainedMeansDone
<1>1. IInv => DrainedMeansDone
  <2> SUFFICES ASSUME IInv, IsDrained PROVE DOMAIN done = Units
    BY DEF DrainedMeansDone
  <2>1. Range(pending) = {}
    BY DEF IsDrained, Range
  <2>2. LeasedIndices = {}
    BY DEF IsDrained, LeasedIndices
  <2> QED
    BY <2>1, <2>2 DEF IInv, OneCopy
<1> QED
  BY <1>1, Invariant, PTL

-----------------------------------------------------------------------------
(* What a step may never do.                                               *)

(* A live lease ends by being completed or by missing its deadline: no     *)
(* call of another worker takes it away early.                             *)
THEOREM LeaseKeptUntilDeadline == Spec => NoEarlyReclaim
<1> DEFINE A == \A l \in DOMAIN leased \ DOMAIN leased' :
                   leased[l].left < 0 \/ l \in accepted'
<1>1. ASSUME IInv, [Next]_vars PROVE [A]_vars
  <2>1. CASE UNCHANGED vars
    BY <2>1 DEF vars
  <2>2. ASSUME NEW w \in Workers, NEW pool, NEW k, HandOut(w, pool, k) PROVE A
    BY <2>2 DEF HandOut, Kept, Expired
  <2>3. ASSUME NEW w \in Workers, NEW n \in Batches, DoLease(w, n) PROVE A
    BY <2>2, <2>3 DEF DoLease
  <2>4. ASSUME NEW l \in 1..seq, CompleteAccepted(l) PROVE A
    BY <2>4 DEF CompleteAccepted
  <2>5. ASSUME NEW w \in Workers, NEW L, Extend(w, L) PROVE A
    BY <2>5 DEF Extend
  <2>6. CASE Drained
    BY <2>6 DEF Drained, Kept, Expired
  <2>7. CASE Tick
    BY <2>7 DEF Tick
  <2>8. ASSUME NEW w \in Workers, Crash(w) PROVE A
    BY <2>8 DEF Crash
  <2> QED
    BY <1>1, <2>1, <2>3, <2>4, <2>5, <2>6, <2>7, <2>8
       DEF Next, WorkerStep, CompleteLate, HeartbeatAll, HeartbeatOne
<1> QED
  BY <1>1, Invariant, PTL DEF Spec, NoEarlyReclaim

(* The first result of a unit stands: setdefault never replaces it, and    *)
(* nothing removes it.                                                     *)
THEOREM FirstResultKept == Spec => FirstResultStands
<1> DEFINE A == \A i \in DOMAIN done : i \in DOMAIN done' /\ done'[i] = done[i]
<1>1. ASSUME [Next]_vars PROVE [A]_vars
  <2>1. CASE UNCHANGED vars
    BY <2>1 DEF vars
  <2>2. ASSUME NEW l \in 1..seq, CompleteAccepted(l) PROVE A
    BY <2>2 DEF CompleteAccepted
  <2>3. CASE UNCHANGED done
    BY <2>3
  <2>4. ASSUME NEW w \in Workers, NEW n \in Batches, DoLease(w, n) PROVE UNCHANGED done
    BY <2>4 DEF DoLease, HandOut
  <2>5. ASSUME NEW w \in Workers, NEW L, Extend(w, L) PROVE UNCHANGED done
    BY <2>5 DEF Extend
  <2>6. ASSUME Drained \/ Tick \/ \E w \in Workers : Crash(w) PROVE UNCHANGED done
    BY <2>6 DEF Drained, Tick, Crash
  <2> QED
    BY <1>1, <2>1, <2>2, <2>3, <2>4, <2>5, <2>6
       DEF Next, WorkerStep, CompleteLate, HeartbeatAll, HeartbeatOne
<1> QED
  BY <1>1, PTL DEF Spec, FirstResultStands

-----------------------------------------------------------------------------
(* The order of the list.                                                  *)

(* _reclaim returns a sorted list if it was given one: it re-sorts when    *)
(* anything expired, and otherwise touches nothing.                        *)
LEMMA ReclaimSorts ==
  ASSUME Ordered(pending), NEW pool \in Pools
  PROVE  Ordered(pool)
  BY DEF Pools

LEMMA OrderedStep == IInv /\ Ordered(pending) /\ [Next]_vars => Ordered(pending)'
<1> SUFFICES ASSUME IInv, Ordered(pending), [Next]_vars PROVE Ordered(pending')
  BY DEF Ordered
<1>1. CASE UNCHANGED pending
  BY <1>1
<1>2. ASSUME NEW w \in Workers, NEW n \in Batches, DoLease(w, n) PROVE Ordered(pending')
  <2> PICK pool \in Pools : HandOut(w, pool, Granted(pool, w, n))
    BY <1>2 DEF DoLease
  <2> DEFINE k == Granted(pool, w, n)
  <2>1. pool \in Seq(Units) /\ k \in 0..Len(pool)
    BY ReclaimKeepsUnits, GrantedWithinRoom DEF IInv
  <2>2. PendingRest(pool, k)
    BY <2>1, HandOutEffect DEF IInv
  <2> HIDE DEF k
  <2>3. k \in Nat /\ Len(pool) \in Nat /\ Len(pending') = Len(pool) - k
    BY <2>1, <2>2 DEF PendingRest
  <2> SUFFICES ASSUME NEW i \in 1..Len(pending'), NEW j \in 1..Len(pending'), i < j
               PROVE  pending'[i] <= pending'[j]
    BY DEF Ordered
  <2>4. k + i \in 1..Len(pool) /\ k + j \in 1..Len(pool) /\ k + i < k + j
    BY <2>3
  <2>5. pending'[i] = pool[k + i] /\ pending'[j] = pool[k + j]
    BY <2>2 DEF PendingRest
  <2> QED
    BY <2>4, <2>5, ReclaimSorts DEF Ordered
<1>3. CASE Drained
  BY <1>3, ReclaimSorts DEF Drained
<1>4. ASSUME NEW w \in Workers, NEW L, Extend(w, L) PROVE UNCHANGED pending
  BY <1>4 DEF Extend
<1>5. ASSUME NEW l \in 1..seq, CompleteAccepted(l) PROVE UNCHANGED pending
  BY <1>5 DEF CompleteAccepted
<1>6. ASSUME Tick \/ (\E w \in Workers : Crash(w)) \/ UNCHANGED vars PROVE UNCHANGED pending
  BY <1>6 DEF Tick, Crash, vars
<1> QED
  BY <1>1, <1>2, <1>3, <1>4, <1>5, <1>6
     DEF Next, WorkerStep, CompleteLate, HeartbeatAll, HeartbeatOne

(* Units are handed out in index order, re-lent ones included.             *)
THEOREM HandedOutInOrder == Spec => LowestFirst
<1> DEFINE A == \A l \in DOMAIN leased' \ DOMAIN leased, k \in 1..Len(pending') :
                   leased'[l].index < pending'[k]
<1>1. ASSUME IInv, Ordered(pending), [Next]_vars PROVE [A]_vars
  <2>1. ASSUME NEW w \in Workers, NEW n \in Batches, DoLease(w, n) PROVE A
    <3> PICK pool \in Pools : HandOut(w, pool, Granted(pool, w, n))
      BY <2>1 DEF DoLease
    <3> DEFINE k == Granted(pool, w, n)
    <3>1. /\ pool \in Seq(Units) /\ k \in 0..Len(pool)
          /\ \A i, j \in 1..Len(pool) : pool[i] = pool[j] => i = j
      BY <1>1, ReclaimKeepsUnits, GrantedWithinRoom DEF IInv
    <3>2. PendingRest(pool, k) /\ LeasedAdded(w, pool, k) /\ NewIndices(w, pool, k)
      BY <1>1, <3>1, HandOutEffect DEF IInv
    <3> HIDE DEF k
    <3>3. k \in Nat /\ Len(pool) \in Nat /\ seq \in Nat /\ Len(pending') = Len(pool) - k
      BY <1>1, <3>1, <3>2 DEF PendingRest, IInv, TypeOK, seq
    <3> SUFFICES ASSUME NEW l \in DOMAIN leased' \ DOMAIN leased, NEW i \in 1..Len(pending')
                 PROVE  leased'[l].index < pending'[i]
      OBVIOUS
    <3>4. l \in (seq + 1)..(seq + k)
      BY <3>2, Zenon DEF LeasedAdded
    <3>5. leased'[l].index = pool[l - seq] /\ pending'[i] = pool[k + i]
      BY <3>2, <3>4 DEF NewIndices, PendingRest
    <3>6. l - seq \in 1..Len(pool) /\ k + i \in 1..Len(pool) /\ l - seq < k + i
      BY <3>1, <3>3, <3>4
    <3>7. pool[l - seq] <= pool[k + i] /\ pool[l - seq] # pool[k + i]
      BY <1>1, <3>1, <3>6, ReclaimSorts DEF Ordered
    <3>8. pool[l - seq] \in Nat /\ pool[k + i] \in Nat
      <4>1. Units \subseteq Nat
        BY ParamAssumption DEF Units
      <4>2. \A j \in 1..Len(pool) : pool[j] \in Units
        BY <3>1
      <4> QED
        BY <3>6, <4>1, <4>2
    <3> QED
      BY <3>5, <3>7, <3>8
  <2>2. ASSUME DOMAIN leased' \subseteq DOMAIN leased PROVE A
    BY <2>2
  <2>3. CASE UNCHANGED vars
    BY <2>3 DEF vars
  <2>4. ASSUME Drained \/ Tick \/ (\E w \in Workers : Crash(w))
        PROVE  DOMAIN leased' \subseteq DOMAIN leased
    BY <2>4 DEF Drained, Kept, Tick, Crash
  <2>5. ASSUME NEW w \in Workers, NEW L, Extend(w, L)
        PROVE  DOMAIN leased' \subseteq DOMAIN leased
    BY <2>5 DEF Extend
  <2>6. ASSUME NEW l \in 1..seq, CompleteAccepted(l)
        PROVE  DOMAIN leased' \subseteq DOMAIN leased
    BY <2>6 DEF CompleteAccepted
  <2> QED
    BY <1>1, <2>1, <2>2, <2>3, <2>4, <2>5, <2>6
       DEF Next, WorkerStep, CompleteLate, HeartbeatAll, HeartbeatOne
<1>2. Init => Ordered(pending)
  BY ParamAssumption DEF Init, Ordered, Units
<1>3. Spec => []Ordered(pending)
  BY <1>2, OrderedStep, Invariant, PTL DEF Spec
<1>4. Spec => [][A]_vars
  BY <1>1, <1>3, Invariant, PTL DEF Spec
<1> QED
  BY <1>4 DEF LowestFirst

-----------------------------------------------------------------------------
(* The scheduler implements WorkPool.                                      *)

Loan(l) == <<leased[l].index, leased[l].worker>>
Loans == {Loan(l) : l \in DOMAIN leased}
ExpiredLoans == {Loan(l) : l \in Expired}

(* _reclaim takes back exactly the loans of the expired leases.            *)
LEMMA LoansKept ==
  ASSUME IInv
  PROVE  /\ ExpiredLoans \subseteq Loans
         /\ Loans \ ExpiredLoans = {Loan(l) : l \in DOMAIN leased \ Expired}
         /\ Abstract!UnitsOf(ExpiredLoans) = {leased[l].index : l \in Expired}
<1>1. Expired \subseteq DOMAIN leased
  BY DEF Expired
<1>2. \A l, m \in DOMAIN leased : Loan(l) = Loan(m) => l = m
  BY DEF Loan, IInv, OneCopy
<1>3. ExpiredLoans \subseteq Loans
  BY <1>1 DEF ExpiredLoans, Loans
<1>4. Loans \ ExpiredLoans = {Loan(l) : l \in DOMAIN leased \ Expired}
  BY <1>1, <1>2 DEF ExpiredLoans, Loans
<1>5. Abstract!UnitsOf(ExpiredLoans) = {leased[l].index : l \in Expired}
  <2>1. Abstract!UnitsOf(ExpiredLoans) = {p[1] : p \in ExpiredLoans}
    BY DEF Abstract!UnitsOf
  <2>2. \A l \in Expired : Loan(l)[1] = leased[l].index
    BY DEF Loan
  <2> QED
    BY <2>1, <2>2 DEF ExpiredLoans
<1> QED
  BY <1>3, <1>4, <1>5

(* Within the Limiter, as WorkPool counts it: a worker has as many loans   *)
(* as live leases, so each of them can have a slot to itself.              *)
LoansWithinLimit ==
  \A w \in Workers : Abstract!WithinLimit({p \in Loans : p[2] = w})

LEMMA LoanLimit == IInv => LoansWithinLimit
<1> SUFFICES ASSUME IInv, NEW w \in Workers
             PROVE  \E s \in [{x \in Loans : x[2] = w} -> 1..MaxInFlight] :
                      \A p, q \in {x \in Loans : x[2] = w} : s[p] = s[q] => p = q
  BY DEF LoansWithinLimit, Abstract!WithinLimit
<1> DEFINE H == {x \in Loans : x[2] = w}
           n == Cardinality(inflight[w])
<1>1. inflight[w] = {l \in DOMAIN leased : leased[l].worker = w}
  BY DEF IInv, LimiterHolds
<1>2. H = {Loan(l) : l \in inflight[w]}
  BY <1>1 DEF Loans, Loan
<1>3. inflight[w] \subseteq 1..seq /\ seq \in Nat
  BY DEF IInv, TypeOK, seq
<1>4. IsFiniteSet(inflight[w])
  <2>1. IsFiniteSet(1..seq)
    BY <1>3, IdsFinite
  <2> QED
    BY <1>3, <2>1, FS_Subset
<1>5. n \in Nat /\ n <= MaxInFlight
  BY <1>4, FS_CardinalityType DEF IInv, LimiterHolds
<1>6. ExistsBijection(1..n, inflight[w])
  BY <1>4, FS_CardinalityType
<1>7. PICK b \in [1..n -> inflight[w]] : \A l \in inflight[w] : \E i \in 1..n : b[i] = l
  BY <1>6 DEF ExistsBijection, Bijection, Surjection
<1> HIDE DEF n, H
<1>8. \A p \in H : \E i \in 1..n : Loan(b[i]) = p
  BY <1>2, <1>7
<1> DEFINE slot == [p \in H |-> CHOOSE i \in 1..n : Loan(b[i]) = p]
<1>9. \A p \in H : slot[p] \in 1..n /\ Loan(b[slot[p]]) = p
  BY <1>8
<1>10. \A p, q \in H : slot[p] = slot[q] => p = q
  <2> SUFFICES ASSUME NEW p \in H, NEW q \in H, slot[p] = slot[q] PROVE p = q
    OBVIOUS
  <2>1. Loan(b[slot[p]]) = p /\ Loan(b[slot[q]]) = q
    BY <1>9
  <2> HIDE DEF slot
  <2> QED
    BY <2>1
<1>11. slot \in [H -> 1..MaxInFlight]
  <2>1. 1..n \subseteq 1..MaxInFlight
    BY <1>5, ParamAssumption
  <2> QED
    BY <1>9, <2>1
<1> HIDE DEF slot
<1> QED
  BY <1>10, <1>11 DEF H

(* lease() lends the head of the list after taking back what expired.      *)
LEMMA LeaseLends ==
  ASSUME IInv, LoansWithinLimit', NEW w \in Workers, NEW n \in Batches, DoLease(w, n)
  PROVE  \E R \in SUBSET Loans, S \in SUBSET Units : Abstract!Lend(w, R, S)
<1> PICK pool \in Pools : HandOut(w, pool, Granted(pool, w, n))
  BY DEF DoLease
<1> DEFINE k == Granted(pool, w, n)
           S == {pool[j] : j \in 1..k}
<1>1. /\ pool \in Seq(Units) /\ k \in 0..Len(pool)
      /\ Range(pool) = Range(pending) \cup {leased[l].index : l \in Expired}
      /\ \A i, j \in 1..Len(pool) : pool[i] = pool[j] => i = j
  BY ReclaimKeepsUnits, GrantedWithinRoom DEF IInv
<1>2. LeasedAdded(w, pool, k) /\ NewIndices(w, pool, k) /\ HandOut(w, pool, k)
  BY <1>1, HandOutEffect DEF IInv
<1> HIDE DEF k
<1>3. k \in Nat /\ Len(pool) \in Nat /\ seq \in Nat /\ k <= Len(pool)
  BY <1>1 DEF IInv, TypeOK, seq
<1>4. /\ Range(pending') = {pool[j] : j \in (k + 1)..Len(pool)}
      /\ Range(pool) = S \cup {pool[j] : j \in (k + 1)..Len(pool)}
  <2>1. TypeOK /\ pool \in Seq(Units) /\ k \in 0..Len(pool) /\ HandOut(w, pool, k)
    BY <1>1, <1>2 DEF IInv
  <2> QED
    BY <2>1, HandOutPlaces
<1>5. Range(pending') = (Range(pending) \cup Abstract!UnitsOf(ExpiredLoans)) \ S
  <2>1. \A i \in 1..k, j \in (k + 1)..Len(pool) : pool[i] # pool[j]
    BY <1>1, <1>3
  <2>2. Range(pending') = Range(pool) \ S
    BY <1>4, <2>1
  <2> QED
    BY <1>1, <2>2, LoansKept
<1>6. S \subseteq Range(pending) \cup Abstract!UnitsOf(ExpiredLoans) /\ S \subseteq Units
  <2>1. \A j \in 1..k : pool[j] \in Units
    BY <1>1, <1>3
  <2> QED
    BY <1>1, <1>4, <2>1, LoansKept
<1>7. Loans' = (Loans \ ExpiredLoans) \cup (S \X {w})
  <2>1. Loans' = {<<leased'[l].index, leased'[l].worker>> : l \in DOMAIN leased'}
    BY DEF Loans, Loan
  <2>2. /\ DOMAIN leased' = (DOMAIN leased \ Expired) \cup (seq + 1)..(seq + k)
        /\ \A l \in DOMAIN leased \ Expired : leased'[l] = leased[l]
    BY <1>2, Zenon DEF LeasedAdded
  <2>3. \A l \in (seq + 1)..(seq + k) :
          l - seq \in 1..k /\ leased'[l].index = pool[l - seq] /\ leased'[l].worker = w
    BY <1>2, <1>3 DEF NewIndices
  <2>4. \A j \in 1..k : /\ seq + j \in (seq + 1)..(seq + k)
                        /\ leased'[seq + j].index = pool[j] /\ leased'[seq + j].worker = w
    <3>1. \A j \in 1..k : seq + j \in (seq + 1)..(seq + k) /\ (seq + j) - seq = j
      BY <1>3
    <3> QED
      BY <2>3, <3>1
  <2>5. {<<leased'[l].index, leased'[l].worker>> : l \in (seq + 1)..(seq + k)} = S \X {w}
    BY <2>3, <2>4
  <2>6. {<<leased'[l].index, leased'[l].worker>> : l \in DOMAIN leased \ Expired} = Loans \ ExpiredLoans
    BY <2>2, LoansKept DEF Loan
  <2> QED
    BY <2>1, <2>2, <2>5, <2>6
<1>8. Abstract!WithinLimit({p \in Loans' : p[2] = w})
  BY DEF LoansWithinLimit
<1> HIDE DEF S
<1> PICK R, T : R = ExpiredLoans /\ T = S
  OBVIOUS
<1>9. Abstract!Lend(w, R, T)
  <2>1. Loans = {<<leased[l].index, leased[l].worker>> : l \in DOMAIN leased}
    BY DEF Loans, Loan
  <2>2. Loans' = {<<leased'[l].index, leased'[l].worker>> : l \in DOMAIN leased'}
    BY DEF Loans, Loan
  <2>3. UNCHANGED DOMAIN done
    BY <1>2 DEF HandOut
  <2>4. /\ R \subseteq Loans /\ T \subseteq Range(pending) \cup Abstract!UnitsOf(R)
        /\ Range(pending') = (Range(pending) \cup Abstract!UnitsOf(R)) \ T
        /\ Loans' = (Loans \ R) \cup (T \X {w})
    BY <1>5, <1>6, <1>7, LoansKept
  <2>5. Abstract!WithinLimit(
          {p \in {<<leased'[l].index, leased'[l].worker>> : l \in DOMAIN leased'} : p[2] = w})
    BY <1>8, <2>2
  <2>6. /\ R \subseteq {<<leased[l].index, leased[l].worker>> : l \in DOMAIN leased}
        /\ {<<leased'[l].index, leased'[l].worker>> : l \in DOMAIN leased'} =
             ({<<leased[l].index, leased[l].worker>> : l \in DOMAIN leased} \ R) \cup (T \X {w})
    BY <2>1, <2>2, <2>4
  <2> QED
    BY <2>3, <2>4, <2>5, <2>6, Zenon DEF Abstract!Lend, Abstract!HeldBy
<1>10. R \in SUBSET Loans /\ T \in SUBSET Units
  BY <1>6, LoansKept
<1> QED
  BY <1>9, <1>10

(* drained() only takes back what expired, if anything did.                *)
LEMMA DrainedTakesBack ==
  ASSUME IInv, Drained
  PROVE  \/ UNCHANGED <<Range(pending), Loans, DOMAIN done>>
         \/ \E w \in Workers, R \in SUBSET Loans, S \in SUBSET Units : Abstract!Lend(w, R, S)
<1>1. /\ pending' \in Pools /\ leased' = Kept /\ UNCHANGED done
  BY DEF Drained
<1>2. Range(pending') = Range(pending) \cup Abstract!UnitsOf(ExpiredLoans)
  BY <1>1, ReclaimKeepsUnits, LoansKept DEF IInv
<1>3. Loans' = Loans \ ExpiredLoans
  <2>1. DOMAIN leased' = DOMAIN leased \ Expired /\ \A l \in DOMAIN leased' : leased'[l] = leased[l]
    BY <1>1 DEF Kept
  <2>2. Loans' = {<<leased'[l].index, leased'[l].worker>> : l \in DOMAIN leased'}
    BY DEF Loans, Loan
  <2> QED
    BY <2>1, <2>2, LoansKept DEF Loan
<1>4. CASE Expired = {}
  <2>1. ExpiredLoans = {} /\ Abstract!UnitsOf(ExpiredLoans) = {}
    BY <1>4 DEF ExpiredLoans, Abstract!UnitsOf
  <2> QED
    BY <1>1, <1>2, <1>3, <2>1
<1>5. CASE Expired # {}
  <2>1. PICK w \in Workers : TRUE
    BY <1>5 DEF Expired, IInv, TypeOK, LeaseRecord
  <2>2. Abstract!Lend(w, ExpiredLoans, {})
    BY <1>1, <1>2, <1>3, LoansKept DEF Abstract!Lend, Loans, Loan
  <2> QED
    BY <2>2, LoansKept
<1> QED
  BY <1>4, <1>5

(* complete() of a live lease finishes its loan.                           *)
LEMMA CompleteFinishes ==
  ASSUME IInv, NEW l \in 1..seq, CompleteAccepted(l)
  PROVE  \E p \in Loans : Abstract!Finish(p)
<1>1. /\ l \in DOMAIN leased
      /\ leased' = [m \in DOMAIN leased \ {l} |-> leased[m]]
      /\ DOMAIN done' = DOMAIN done \cup {leased[l].index}
      /\ UNCHANGED pending
  BY DEF CompleteAccepted
<1>2. Loan(l) \in Loans /\ Loan(l)[1] = leased[l].index
  BY <1>1 DEF Loans, Loan
<1>3. Loans' = Loans \ {Loan(l)}
  <2>1. Loans' = {Loan(m) : m \in DOMAIN leased \ {l}}
    BY <1>1 DEF Loans, Loan
  <2>2. \A m \in DOMAIN leased : Loan(m) = Loan(l) => m = l
    BY <1>1 DEF Loan, IInv, OneCopy
  <2> QED
    BY <2>1, <2>2 DEF Loans
<1> PICK p : p = Loan(l)
  OBVIOUS
<1>4. Abstract!Finish(p)
  BY <1>1, <1>2, <1>3 DEF Abstract!Finish, Loans, Loan
<1> QED
  BY <1>2, <1>4

(* Every behaviour of the scheduler is one of the pool: lists, lease ids,  *)
(* deadlines and late results are invisible in what WorkPool promises.     *)
THEOREM Refinement == Spec => RefinesWorkPool
<1>1. Init => Abstract!Init
  <2> SUFFICES ASSUME Init PROVE Abstract!Init
    OBVIOUS
  <2>1. Range(pending) = Units
    BY DEF Init, Range
  <2>2. DOMAIN leased = {} /\ DOMAIN done = {}
    BY DEF Init
  <2> QED
    BY <2>1, <2>2 DEF Abstract!Init
<1>2. ASSUME IInv, LoansWithinLimit', [Next]_vars PROVE [Abstract!Next]_(Abstract!vars)
  <2> DEFINE Same == UNCHANGED <<Range(pending), Loans, DOMAIN done>>
  <2>1. Same => UNCHANGED Abstract!vars
    BY DEF Abstract!vars, Loans, Loan
  <2>2. ASSUME NEW w \in Workers, NEW R \in SUBSET Loans, NEW S \in SUBSET Units, Abstract!Lend(w, R, S)
        PROVE  Abstract!Next
    BY <2>2 DEF Abstract!Next, Loans, Loan
  <2>3. ASSUME NEW w \in Workers, NEW n \in Batches, DoLease(w, n) PROVE Abstract!Next
    BY <1>2, <2>2, <2>3, LeaseLends
  <2>4. ASSUME NEW l \in 1..seq, CompleteAccepted(l) PROVE Abstract!Next
    <3>1. \E p \in Loans : Abstract!Finish(p)
      BY <1>2, <2>4, CompleteFinishes
    <3>2. Loans = {<<leased[m].index, leased[m].worker>> : m \in DOMAIN leased}
      BY DEF Loans, Loan
    <3> QED
      BY <3>1, <3>2 DEF Abstract!Next
  <2>5. CASE Drained
    BY <1>2, <2>1, <2>2, <2>5, DrainedTakesBack
  <2>6. ASSUME NEW w \in Workers, NEW L, Extend(w, L) PROVE Same
    BY <2>6 DEF Extend, Loans, Loan
  <2>7. ASSUME Tick PROVE Same
    <3>1. DOMAIN leased' = DOMAIN leased /\ UNCHANGED <<pending, done>>
      BY <2>7 DEF Tick
    <3>2. \A l \in DOMAIN leased : Loan(l)' = Loan(l)
      BY <1>2, <2>7 DEF Tick, Loan, IInv, TypeOK, LeaseRecord
    <3> QED
      BY <3>1, <3>2 DEF Loans, Loan
  <2>8. ASSUME UNCHANGED vars \/ \E w \in Workers : Crash(w) PROVE Same
    BY <2>8 DEF vars, Crash, Loans, Loan
  <2>9. CASE UNCHANGED vars
    BY <2>1, <2>8, <2>9
  <2>10. CASE WorkerStep
    <3>1. ASSUME \E w \in Workers : \E L : Extend(w, L) PROVE [Abstract!Next]_(Abstract!vars)
      BY <2>1, <2>6, <3>1
    <3>2. (\E w \in Workers : HeartbeatAll(w)) \/ (\E w \in Workers, l \in 1..seq : HeartbeatOne(w, l))
            => \E w \in Workers : \E L : Extend(w, L)
      BY DEF HeartbeatAll, HeartbeatOne
    <3>3. ASSUME \E l \in 1..seq : CompleteLate(l) PROVE UNCHANGED vars
      BY <3>3 DEF CompleteLate
    <3> QED
      BY <2>3, <2>4, <2>5, <2>9, <2>10, <3>1, <3>2, <3>3, Zenon DEF WorkerStep
  <2>11. CASE Tick \/ \E w \in Workers : Crash(w)
    BY <2>1, <2>7, <2>8, <2>11
  <2> QED
    BY <1>2, <2>9, <2>10, <2>11 DEF Next
<1> QED
  BY <1>1, <1>2, Invariant, LoanLimit, PTL DEF Spec, RefinesWorkPool, Abstract!Spec
=============================================================================
