--------------------------- MODULE Results_proofs ---------------------------
(***************************************************************************)
(* Proofs about what is kept of results, WorkUnit and Commons: for every set*)
(* of units and workers, replication factor and number of liars and late   *)
(* results of the one, and for every set of resolutions, estate of CapDs and*)
(* workloads, digest without collisions and bound of the other.            *)
(***************************************************************************)
EXTENDS WorkUnit, Commons, DataLemmas, FiniteSetTheorems, SequenceTheorems, TLAPS

-----------------------------------------------------------------------------
(* Verification by redundancy: the quorum of a Work Unit.                  *)

(* What an honest worker returned is what the task yields.                 *)
HonestTrue ==
  \A u \in Units : \A i \in 1..Len(results[u]) :
    results[u][i].worker \in Honest => results[u][i].output = Correct

(* Those of the first n results of u that have output d.                   *)
Agreeing(u, n, d) == {i \in 1..n : results[u][i].output = d}

(* An accepted output had a quorum in the results it was judged by.        *)
VerdictHolds ==
  \A u \in Redundant :
    accepted[u] # None =>
      Cardinality(Agreeing(u, judged[u], accepted[u])) >= Threshold(Replication[u])

IInv == TypeOK /\ HonestTrue /\ VerdictHolds /\ AcceptedIsTrue

-----------------------------------------------------------------------------
(* Positions are finitely many, and fewer of them are no more.             *)
LEMMA Positions ==
  ASSUME NEW n \in Nat, NEW T \in SUBSET (1..n)
  PROVE  /\ IsFiniteSet(T) /\ Cardinality(T) \in Nat
         /\ \A S \in SUBSET T : IsFiniteSet(S) /\ Cardinality(S) \in Nat
                                 /\ Cardinality(S) <= Cardinality(T)
<1>1. IsFiniteSet(1..n)
  BY FS_Interval
<1>2. IsFiniteSet(T) /\ Cardinality(T) \in Nat
  BY <1>1, FS_Subset, FS_CardinalityType
<1>3. ASSUME NEW S \in SUBSET T
      PROVE  IsFiniteSet(S) /\ Cardinality(S) \in Nat /\ Cardinality(S) <= Cardinality(T)
  BY <1>2, FS_Subset, FS_CardinalityType
<1> QED
  BY <1>2, <1>3

LEMMA Counted == \A n \in Nat : Cardinality(1..n) = n
<1> SUFFICES ASSUME NEW n \in Nat PROVE Cardinality(1..n) = n
  OBVIOUS
<1>1. Cardinality(1..n) = IF 1 > n THEN 0 ELSE n - 1 + 1
  BY FS_Interval
<1> QED
  BY <1>1

LEMMA ResultsTyped ==
  ASSUME TypeOK, NEW u \in Units
  PROVE  /\ results[u] \in Seq(Result) /\ Len(results[u]) \in Nat
         /\ \A i \in 1..Len(results[u]) :
              results[u][i].worker \in Workers /\ results[u][i].output \in Outputs
<1>1. results[u] \in Seq(Result) /\ Len(results[u]) \in Nat
  BY LenProperties DEF TypeOK
<1>2. ASSUME NEW i \in 1..Len(results[u]) PROVE results[u][i] \in Result
  BY <1>1, ElementOfSeq
<1> QED
  BY <1>1, <1>2 DEF Result

LEMMA GroupTyped ==
  ASSUME TypeOK, NEW u \in Units, NEW d
  PROVE  Group(results[u], d) \in SUBSET (1..Len(results[u])) /\ Size(results[u], d) \in Nat
<1>1. Len(results[u]) \in Nat /\ Group(results[u], d) \in SUBSET (1..Len(results[u]))
  BY ResultsTyped DEF Group
<1> QED
  BY <1>1, Positions DEF Size

LEMMA VotesTyped ==
  ASSUME TypeOK, NEW u \in Units, NEW w, NEW agree
  PROVE  Votes(results[u], w, agree) \in Nat
<1> DEFINE V == {i \in 1..Len(results[u]) :
                   results[u][i].worker = w /\ (results[u][i].output = Winner(results[u])) = agree}
<1>1. Len(results[u]) \in Nat /\ V \in SUBSET (1..Len(results[u]))
  BY ResultsTyped
<1> HIDE DEF V
<1>2. Cardinality(V) \in Nat
  BY <1>1, Positions
<1> QED
  BY <1>2 DEF Votes, V

(* A quorum is somebody's output.                                          *)
LEMMA QuorumIsReturned ==
  ASSUME TypeOK, NEW u \in Units, Quorum(results[u], Replication[u])
  PROVE  /\ Winner(results[u]) \in Outputs
         /\ Size(results[u], Winner(results[u])) >= Threshold(Replication[u])
<1> DEFINE d == Winner(results[u])
<1>1. /\ Replication[u] \in Nat \ {0} /\ Size(results[u], d) \in Nat
      /\ Size(results[u], d) >= Threshold(Replication[u])
  BY GroupTyped, ParamAssumption DEF Quorum
<1>2. Group(results[u], d) # {}
  <2>1. Size(results[u], d) # 0
    BY <1>1 DEF Threshold
  <2> QED
    BY <2>1, FS_EmptySet DEF Size
<1> QED
  BY <1>1, <1>2, ResultsTyped DEF Group

(* A quorum without a quorum of liars is what the task yields.             *)
LEMMA QuorumIsTrue ==
  ASSUME TypeOK, HonestTrue, NEW u \in Units, Quorum(results[u], Replication[u]), FewLies(u)
  PROVE  Winner(results[u]) = Correct
<1> DEFINE d == Winner(results[u])
           Liars == {i \in 1..Len(results[u]) : results[u][i].worker \notin Honest}
<1> SUFFICES ASSUME d # Correct PROVE FALSE
  OBVIOUS
<1>1. /\ Len(results[u]) \in Nat /\ Liars \in SUBSET (1..Len(results[u]))
      /\ Group(results[u], d) \in SUBSET Liars
  BY ResultsTyped DEF HonestTrue, Group
<1>2. Cardinality(Liars) <= Replication[u] \div 2
  BY DEF FewLies
<1> HIDE DEF Liars
<1>3. /\ Size(results[u], d) <= Cardinality(Liars)
      /\ Size(results[u], d) \in Nat /\ Cardinality(Liars) \in Nat
  BY <1>1, Positions DEF Size
<1>4. Size(results[u], d) >= Threshold(Replication[u]) /\ Replication[u] \in Nat
  BY QuorumIsReturned, ParamAssumption
<1> QED
  BY <1>2, <1>3, <1>4 DEF Threshold

(* The larger group of two: an output that more than half of the results   *)
(* have is the winner.                                                     *)
LEMMA MajorityWins ==
  ASSUME TypeOK, NEW u \in Units, NEW d \in Outputs,
         2 * Size(results[u], d) > Len(results[u])
  PROVE  Winner(results[u]) = d
<1> DEFINE rs == results[u]
<1>1. \A e : Size(rs, e) \in Nat
  BY GroupTyped
<1>2. ASSUME NEW e \in Outputs \ {d} PROVE Size(rs, d) > Size(rs, e)
  <2> DEFINE G == Group(rs, d)
             H == Group(rs, e)
  <2>1. /\ Len(rs) \in Nat /\ G \cup H \in SUBSET (1..Len(rs)) /\ G \cap H = {}
        /\ G \in SUBSET (1..Len(rs)) /\ H \in SUBSET (1..Len(rs))
    BY ResultsTyped DEF Group
  <2> HIDE DEF G, H
  <2>2. /\ Cardinality(G \cup H) <= Cardinality(1..Len(rs))
        /\ IsFiniteSet(G) /\ IsFiniteSet(H)
    <3>1. IsFiniteSet(1..Len(rs))
      BY <2>1, FS_Interval
    <3> HIDE DEF rs
    <3>2. \A T \in SUBSET (1..Len(rs)) :
            IsFiniteSet(T) /\ Cardinality(T) <= Cardinality(1..Len(rs))
      BY <3>1, FS_Subset
    <3> QED
      BY <2>1, <3>2
  <2>3. Cardinality(G \cup H) = Cardinality(G) + Cardinality(H)
    <3>1. Cardinality(G \cup H) = Cardinality(G) + Cardinality(H) - Cardinality(G \cap H)
      BY <2>2, FS_Union
    <3>2. Cardinality(G) \in Nat /\ Cardinality(H) \in Nat
      BY <2>2, FS_CardinalityType
    <3>3. Cardinality(G \cap H) = 0
      BY <2>1, FS_EmptySet
    <3> QED
      BY <3>1, <3>2, <3>3
  <2>4. Cardinality(1..Len(rs)) = Len(rs)
    BY <2>1, Counted
  <2>5. Size(rs, d) = Cardinality(G) /\ Size(rs, e) = Cardinality(H)
    BY DEF Size, G, H
  <2> HIDE DEF rs
  <2> QED
    BY <1>1, <2>1, <2>2, <2>3, <2>4, <2>5 DEF rs
<1> DEFINE Leads(c) == \A e \in Outputs \ {c} :
             \/ Size(rs, c) > Size(rs, e)
             \/ /\ Size(rs, c) = Size(rs, e)
                /\ \E i \in Group(rs, c) : \A j \in Group(rs, e) : i < j
<1>3. Leads(d)
  BY <1>2
<1>4. \A c \in Outputs \ {d} : ~ Leads(c)
  <2> SUFFICES ASSUME NEW c \in Outputs \ {d}, Leads(c) PROVE FALSE
    OBVIOUS
  <2>1. Size(rs, c) >= Size(rs, d)
    BY <1>1
  <2> QED
    BY <1>1, <1>2, <2>1
<1>5. Winner(rs) = CHOOSE c \in Outputs : Leads(c)
  BY DEF Winner
<1> HIDE DEF Leads, rs
<1>6. Winner(rs) = d
  BY <1>3, <1>4, <1>5
<1> QED
  BY <1>6 DEF rs

-----------------------------------------------------------------------------
LEMMA InitInvariant == Init => IInv
<1> SUFFICES ASSUME Init PROVE IInv
  OBVIOUS
<1>1. \A u \in Units : results[u] = << >> /\ Len(results[u]) = 0 /\ accepted[u] = None
  BY DEF Init
<1>2. TypeOK
  BY <1>1 DEF Init, TypeOK
<1> QED
  BY <1>1, <1>2 DEF IInv, HonestTrue, VerdictHolds, AcceptedIsTrue, Redundant

LEMMA ReturnPreserves ==
  ASSUME IInv, NEW u \in Units, NEW w \in Workers, Return(u, w)
  PROVE  IInv'
<1>1. PICK d \in IF w \in Honest THEN {Correct} ELSE Outputs :
        results' = [results EXCEPT ![u] = Append(@, [worker |-> w, output |-> d])]
  BY DEF Return
<1> DEFINE r == [worker |-> w, output |-> d]
<1>2. r \in Result /\ (w \in Honest => d = Correct) /\ d \in Outputs
  BY <1>1, ParamAssumption DEF Result
<1>3. UNCHANGED <<judged, accepted, rep>>
  BY DEF Return
<1>4. \A v \in Units : results[v] \in Seq(Result) /\ Len(results[v]) \in Nat
  BY ResultsTyped DEF IInv
<1>5. /\ results'[u] = Append(results[u], r)
      /\ \A v \in Units \ {u} : results'[v] = results[v]
      /\ results' \in [Units -> Seq(Result)]
  BY <1>1, <1>2, <1>4, AppendProperties DEF IInv, TypeOK
<1> HIDE DEF r
<1>6. /\ Len(results'[u]) = Len(results[u]) + 1 /\ results'[u][Len(results[u]) + 1] = r
      /\ \A i \in 1..Len(results[u]) : results'[u][i] = results[u][i]
  BY <1>2, <1>4, <1>5, AppendProperties
<1>7. \A v \in Units : /\ Len(results[v]) <= Len(results'[v]) /\ Len(results'[v]) \in Nat
                       /\ \A i \in 1..Len(results[v]) : results'[v][i] = results[v][i]
  <2>1. CASE u \in Units /\ results'[u] \in Seq(Result)
    <3>1. Len(results[u]) <= Len(results'[u]) /\ Len(results'[u]) \in Nat
      BY <1>4, <1>6
    <3>2. \A v \in Units \ {u} : results'[v] = results[v] /\ Len(results[v]) <= Len(results[v])
      BY <1>4, <1>5
    <3> QED
      BY <1>4, <1>6, <3>1, <3>2
  <2> QED
    BY <1>5, <2>1
<1>8. TypeOK'
  <2>1. ASSUME NEW v \in Units PROVE judged'[v] <= Len(results'[v])
    BY <1>3, <1>4, <1>7 DEF IInv, TypeOK
  <2> QED
    BY <1>3, <1>5, <2>1 DEF IInv, TypeOK
<1>9. HonestTrue'
  <2> SUFFICES ASSUME NEW v \in Units, NEW i \in 1..Len(results'[v]),
                      results'[v][i].worker \in Honest
               PROVE  results'[v][i].output = Correct
    BY DEF HonestTrue
  <2>1. CASE i \in 1..Len(results[v])
    BY <1>7, <2>1 DEF IInv, HonestTrue
  <2>2. CASE i \notin 1..Len(results[v])
    <3>1. v = u
      BY <1>5, <2>2
    <3>2. i \in 1..(Len(results[u]) + 1) /\ i \notin 1..Len(results[u])
      BY <1>6, <2>2, <3>1
    <3>3. i = Len(results[u]) + 1
      BY <1>4, <3>2
    <3> QED
      BY <1>2, <1>6, <3>1, <3>3 DEF r
  <2> QED
    BY <2>1, <2>2
<1>10. VerdictHolds'
  <2> SUFFICES ASSUME NEW v \in Redundant, accepted[v] # None
               PROVE  Cardinality(Agreeing(v, judged[v], accepted[v])')
                        >= Threshold(Replication[v])
    BY <1>3 DEF VerdictHolds, Agreeing
  <2>1. v \in Units /\ judged[v] \in Nat /\ judged[v] <= Len(results[v])
    BY DEF Redundant, IInv, TypeOK
  <2>2. \A i \in 1..judged[v] : results'[v][i] = results[v][i]
    BY <1>4, <1>7, <2>1
  <2>3. Agreeing(v, judged[v], accepted[v])' = Agreeing(v, judged[v], accepted[v])
    BY <1>3, <2>2 DEF Agreeing
  <2> QED
    BY <2>3 DEF IInv, VerdictHolds
<1>11. ASSUME NEW v \in Units, FewLies(v)' PROVE FewLies(v)
  <2> DEFINE L == {i \in 1..Len(results[v]) : results[v][i].worker \notin Honest}
             M == {i \in 1..Len(results'[v]) : results'[v][i].worker \notin Honest}
  <2>1. L \in SUBSET M /\ M \in SUBSET (1..Len(results'[v])) /\ Len(results'[v]) \in Nat
    BY <1>4, <1>7
  <2>2. Cardinality(M) <= Replication[v] \div 2 /\ Replication[v] \in Nat
    BY <1>11, ParamAssumption DEF FewLies
  <2> HIDE DEF L, M
  <2>3. Cardinality(L) <= Cardinality(M) /\ Cardinality(L) \in Nat /\ Cardinality(M) \in Nat
    BY <2>1, Positions
  <2>4. Cardinality(L) <= Replication[v] \div 2
    BY <2>2, <2>3
  <2> QED
    BY <2>4 DEF FewLies, L
<1>12. AcceptedIsTrue'
  BY <1>3, <1>11 DEF IInv, AcceptedIsTrue
<1> QED
  BY <1>8, <1>9, <1>10, <1>12 DEF IInv

(* What a verdict does to the unit it is about.                            *)
LEMMA VerdictOf ==
  ASSUME IInv, NEW u \in Redundant, Verify(u)
  PROVE  /\ u \in Units /\ judged'[u] = Len(results[u]) /\ results' = results
         /\ ~ Quorum(results[u], Replication[u]) => accepted'[u] = None
         /\ Quorum(results[u], Replication[u]) =>
              /\ accepted'[u] = Winner(results[u]) /\ accepted'[u] \in Outputs
              /\ accepted'[u] # None
         /\ \A v \in Units \ {u} : accepted'[v] = accepted[v] /\ judged'[v] = judged[v]
<1>1. u \in Units /\ TypeOK
  BY DEF Redundant, IInv
<1>2. Quorum(results[u], Replication[u]) => Winner(results[u]) \in Outputs
  BY <1>1, QuorumIsReturned
<1> QED
  BY <1>1, <1>2, ParamAssumption DEF Verify, TypeOK

LEMMA VerifyPreserves ==
  ASSUME IInv, NEW u \in Redundant, Verify(u)
  PROVE  IInv'
<1>1. u \in Units /\ TypeOK /\ Len(results[u]) \in Nat
  BY ResultsTyped DEF Redundant, IInv
<1>2. \A w \in Workers : rep'[w] \in [verified : Nat, total : Nat] /\ rep'[w].verified <= rep'[w].total
  <2> SUFFICES ASSUME NEW w \in Workers
               PROVE  rep'[w] \in [verified : Nat, total : Nat] /\ rep'[w].verified <= rep'[w].total
    OBVIOUS
  <2> DEFINE y == Votes(results[u], w, TRUE)
             n == Votes(results[u], w, FALSE)
  <2>1. y \in Nat /\ n \in Nat
    BY <1>1, VotesTyped
  <2>2. rep'[w] = [verified |-> rep[w].verified + y, total |-> rep[w].total + y + n]
    BY DEF Verify, Recorded
  <2>3. rep[w].verified \in Nat /\ rep[w].total \in Nat /\ rep[w].verified <= rep[w].total
    BY <1>1 DEF TypeOK
  <2> HIDE DEF y, n
  <2> QED
    BY <2>1, <2>2, <2>3
<1>3. TypeOK'
  <2>1. judged' \in [Units -> Nat] /\ \A v \in Units : judged'[v] <= Len(results'[v])
    BY <1>1, VerdictOf DEF TypeOK, Verify
  <2> QED
    BY <1>1, <1>2, <2>1, VerdictOf DEF TypeOK, Verify, Recorded
<1>4. HonestTrue'
  BY VerdictOf DEF IInv, HonestTrue
<1>5. VerdictHolds'
  <2> SUFFICES ASSUME NEW v \in Redundant, accepted'[v] # None
               PROVE  Cardinality(Agreeing(v, judged[v], accepted[v])')
                        >= Threshold(Replication[v])
    BY DEF VerdictHolds
  <2>1. CASE v = u
    <3>1. /\ Quorum(results[u], Replication[u]) /\ accepted'[u] = Winner(results[u])
          /\ judged'[u] = Len(results[u]) /\ results' = results
      BY <2>1, VerdictOf
    <3>2. Agreeing(v, judged[v], accepted[v])' = Group(results[u], Winner(results[u]))
      BY <2>1, <3>1 DEF Agreeing, Group
    <3> QED
      BY <1>1, <2>1, <3>1, <3>2, QuorumIsReturned DEF Size
  <2>2. CASE v # u
    <3>1. accepted'[v] = accepted[v] /\ judged'[v] = judged[v] /\ results' = results
      BY <2>2, VerdictOf DEF Redundant
    <3>2. Agreeing(v, judged[v], accepted[v])' = Agreeing(v, judged[v], accepted[v])
      BY <3>1 DEF Agreeing
    <3> QED
      BY <3>1, <3>2 DEF IInv, VerdictHolds
  <2> QED
    BY <2>1, <2>2
<1>6. AcceptedIsTrue'
  <2> SUFFICES ASSUME NEW v \in Units
               PROVE  /\ v \in Redundant /\ FewLies(v)' => accepted'[v] \in {None, Correct}
                      /\ v \in Canaries => accepted'[v] \in {None, Correct}
    BY DEF AcceptedIsTrue
  <2>1. FewLies(v)' = FewLies(v)
    BY VerdictOf DEF FewLies
  <2>2. CASE v = u
    BY <1>1, <2>1, <2>2, VerdictOf, QuorumIsTrue DEF IInv, Redundant
  <2>3. CASE v # u
    BY <2>1, <2>3, VerdictOf DEF IInv, AcceptedIsTrue
  <2> QED
    BY <2>2, <2>3
<1> QED
  BY <1>3, <1>4, <1>5, <1>6 DEF IInv

LEMMA SpotCheckPreserves ==
  ASSUME IInv, NEW u \in Canaries, NEW i \in 1..Len(results[u]), SpotCheck(u, i)
  PROVE  IInv'
<1>1. /\ u \in Units /\ UNCHANGED <<results, judged, rep>> /\ accepted'[u] \in {Correct, None}
      /\ \A v \in Units \ {u} : accepted'[v] = accepted[v]
      /\ accepted' \in [Units -> Outputs \cup {None}]
  BY ParamAssumption DEF SpotCheck, IInv, TypeOK
<1>2. TypeOK'
  BY <1>1 DEF IInv, TypeOK
<1>3. VerdictHolds'
  BY <1>1 DEF IInv, VerdictHolds, Redundant, Agreeing
<1>4. AcceptedIsTrue'
  BY <1>1 DEF IInv, AcceptedIsTrue, Redundant, FewLies
<1> QED
  BY <1>1, <1>2, <1>3, <1>4 DEF IInv, HonestTrue

LEMMA InvariantStep == IInv /\ [Next]_vars => IInv'
<1> SUFFICES ASSUME IInv, [Next]_vars PROVE IInv'
  OBVIOUS
<1>1. CASE UNCHANGED vars
  BY <1>1 DEF vars, IInv, TypeOK, HonestTrue, VerdictHolds, Agreeing, AcceptedIsTrue, FewLies
<1>2. CASE Next
  BY <1>2, ReturnPreserves, VerifyPreserves, SpotCheckPreserves DEF Next
<1> QED
  BY <1>1, <1>2

-----------------------------------------------------------------------------
(* Every reachable state satisfies the inductive invariant.                *)
THEOREM Invariant == Spec => []IInv
  BY InitInvariant, InvariantStep, PTL DEF Spec

(* Results, verdicts and reputations keep their types, and nobody is       *)
(* verified more often than judged.                                        *)
THEOREM TypeCorrect == Spec => []TypeOK
<1>1. IInv => TypeOK
  BY DEF IInv
<1> QED
  BY <1>1, Invariant, PTL

(* What is accepted is what the task yields, unless liars are a quorum.    *)
THEOREM AcceptanceSound == Spec => []AcceptedIsTrue
<1>1. IInv => AcceptedIsTrue
  BY DEF IInv
<1> QED
  BY <1>1, Invariant, PTL

(* Within the replication factor a verdict is final: two quorums of at     *)
(* most that many results have a result in common.                         *)
THEOREM VerdictFinal == Spec => AcceptedStands
<1> DEFINE A == \A u \in Redundant :
             accepted[u] # None /\ judged'[u] <= Replication[u] => accepted'[u] = accepted[u]
<1>1. ASSUME IInv, [Next]_vars PROVE [A]_vars
  <2> SUFFICES ASSUME Next, NEW u \in Redundant, accepted[u] # None, judged'[u] <= Replication[u]
               PROVE  accepted'[u] = accepted[u]
    BY <1>1
  <2>1. TypeOK /\ u \in Units /\ u \notin Canaries
    BY <1>1 DEF Redundant, IInv
  <2>2. ASSUME NEW v \in Units, NEW w \in Workers, Return(v, w) PROVE accepted'[u] = accepted[u]
    BY <2>2 DEF Return
  <2>3. ASSUME NEW v \in Redundant \ {u}, Verify(v) PROVE accepted'[u] = accepted[u]
    BY <1>1, <2>1, <2>3, VerdictOf
  <2>4. ASSUME NEW v \in Canaries, NEW i \in 1..Len(results[v]), SpotCheck(v, i)
        PROVE  accepted'[u] = accepted[u]
    BY <2>1, <2>4 DEF SpotCheck, TypeOK
  <2>5. ASSUME Verify(u) PROVE accepted'[u] = accepted[u]
    <3> DEFINE d == accepted[u]
               S == Agreeing(u, judged[u], d)
    <3>1. /\ judged[u] \in Nat /\ judged[u] <= Len(results[u]) /\ Len(results[u]) \in Nat
          /\ Len(results[u]) <= Replication[u] /\ Replication[u] \in Nat \ {0} /\ d \in Outputs
      BY <1>1, <2>1, <2>5, VerdictOf, ResultsTyped, ParamAssumption DEF TypeOK
    <3>2. Cardinality(S) >= Threshold(Replication[u])
      BY <1>1 DEF IInv, VerdictHolds
    <3>3. S \in SUBSET Group(results[u], d) /\ Group(results[u], d) \in SUBSET (1..Len(results[u]))
      BY <3>1 DEF Agreeing, Group
    <3> HIDE DEF S, d
    <3>4. /\ Cardinality(S) <= Size(results[u], d)
          /\ Cardinality(S) \in Nat /\ Size(results[u], d) \in Nat
      BY <3>1, <3>3, Positions DEF Size
    <3>5. /\ Size(results[u], d) >= Threshold(Replication[u])
          /\ 2 * Size(results[u], d) > Len(results[u])
      BY <3>1, <3>2, <3>4 DEF Threshold
    <3>6. Winner(results[u]) = d
      BY <2>1, <3>1, <3>5, MajorityWins
    <3>7. Quorum(results[u], Replication[u])
      BY <3>5, <3>6 DEF Quorum
    <3> QED
      BY <1>1, <2>5, <3>6, <3>7, VerdictOf DEF d
  <2> QED
    BY <2>2, <2>3, <2>4, <2>5 DEF Next
<1> QED
  BY <1>1, Invariant, PTL DEF Spec, AcceptedStands

(* A verdict with a quorum costs no honest worker anything, unless liars   *)
(* are a quorum.                                                           *)
THEOREM HonestUnharmed == Spec => HonestKeepStanding
<1> DEFINE A == \A u \in Redundant :
             judged'[u] # judged[u] /\ accepted'[u] # None /\ FewLies(u) =>
               \A w \in Honest : Lost(w)' = Lost(w)
<1>1. ASSUME IInv, [Next]_vars PROVE [A]_vars
  <2> SUFFICES ASSUME Next, NEW u \in Redundant, judged'[u] # judged[u], accepted'[u] # None,
                      FewLies(u), NEW w \in Honest
               PROVE  Lost(w)' = Lost(w)
    BY <1>1
  <2>1. TypeOK /\ u \in Units /\ HonestTrue /\ w \in Workers
    BY <1>1, ParamAssumption DEF Redundant, IInv
  <2>2. Verify(u)
    <3>1. \A v \in Units, x \in Workers : ~ Return(v, x)
      BY DEF Return
    <3>2. \A v \in Redundant \ {u} : ~ Verify(v)
      BY <2>1 DEF Verify, TypeOK
    <3>3. \A v \in Canaries : \A i \in 1..Len(results[v]) : ~ SpotCheck(v, i)
      BY DEF SpotCheck
    <3> QED
      BY <3>1, <3>2, <3>3 DEF Next
  <2>3. Winner(results[u]) = Correct
    BY <1>1, <2>1, <2>2, VerdictOf, QuorumIsTrue
  <2>4. Votes(results[u], w, FALSE) = 0
    <3>1. {i \in 1..Len(results[u]) :
             results[u][i].worker = w /\ (results[u][i].output = Winner(results[u])) = FALSE} = {}
      BY <2>1, <2>3 DEF HonestTrue
    <3> QED
      BY <3>1, FS_EmptySet DEF Votes
  <2> DEFINE y == Votes(results[u], w, TRUE)
  <2>5. rep'[w] = [verified |-> rep[w].verified + y, total |-> rep[w].total + y + 0]
    BY <2>1, <2>2, <2>4 DEF Verify, Recorded
  <2>6. y \in Nat /\ rep[w].verified \in Nat /\ rep[w].total \in Nat
    BY <2>1, VotesTyped DEF TypeOK
  <2> HIDE DEF y
  <2> QED
    BY <2>5, <2>6 DEF Lost
<1> QED
  BY <1>1, Invariant, PTL DEF Spec, HonestKeepStanding

-----------------------------------------------------------------------------
(* The knowledge commons and the ranking of its resolutions.               *)

-----------------------------------------------------------------------------
(* The documents that can be deposited, and the records made of them.      *)
Docs ==
  {ResolutionRecord(r) : r \in Resolutions}
  \cup {CapdRecord(f) : f \in Range(CapdFiles)}
  \cup {WorkloadRecord(w) : w \in Range(Workloads)}

Reuse == [uses : Nat, evaluations : Nat, score : Nat]

Kept(d, u) ==
  [id |-> d.id, type |-> d.type, category |-> d.category,
   content_digest |-> d.content_digest, reproducible |-> d.reproducible, tags |-> d.tags,
   reuse |-> u]

Shelf == {Kept(d, u) : d \in Docs, u \in Reuse}

LEMMA DocKept ==
  ASSUME NEW d \in Docs
  PROVE  d = Kept(d, Unused) /\ d \in Shelf /\ d.reuse = Unused
<1>1. Unused \in Reuse
  BY DEF Unused, Reuse
<1>2. ASSUME NEW a, NEW b, NEW c, NEW t, NEW e, NEW x, NEW p, NEW g
      PROVE  Record(a, b, c, t, e, x, p, g) = Kept(Record(a, b, c, t, e, x, p, g), Unused)
  BY DEF Record, Kept
<1>3. d = Kept(d, Unused)
  BY <1>2 DEF Docs, ResolutionRecord, CapdRecord, WorkloadRecord
<1>4. Kept(d, Unused).reuse = Unused
  BY DEF Kept
<1> QED
  BY <1>1, <1>3, <1>4 DEF Shelf

LEMMA ShelfKept ==
  ASSUME NEW r \in Shelf
  PROVE  /\ r = Kept(r, r.reuse) /\ r.reuse \in Reuse
         /\ \A u \in Reuse : [r EXCEPT !.reuse = u] = Kept(r, u) /\ Kept(r, u) \in Shelf
         /\ \E d \in Docs : /\ d.id = r.id /\ d.content_digest = r.content_digest
                            /\ d.reproducible = r.reproducible
<1>1. PICK d \in Docs, v \in Reuse : r = Kept(d, v)
  BY DEF Shelf
<1>2. \A u \in Reuse : Kept(r, u) = Kept(d, u)
  BY <1>1 DEF Kept
<1>3. r.reuse = v /\ r.id = d.id /\ r.content_digest = d.content_digest
      /\ r.reproducible = d.reproducible
  BY <1>1 DEF Kept
<1>4. \A u \in Reuse : [r EXCEPT !.reuse = u] = Kept(r, u)
  BY <1>1 DEF Kept
<1> QED
  BY <1>1, <1>2, <1>3, <1>4 DEF Shelf

(* An id is minted for one content, and what a content is reproduced from  *)
(* is part of it.                                                          *)
LEMMA IdsAgree ==
  ASSUME NEW d \in Docs, NEW e \in Docs, d.id = e.id
  PROVE  d.content_digest = e.content_digest /\ d.reproducible = e.reproducible
<1>1. \A x \in Docs : x.content_digest = x.id.digest
  BY DEF Docs, ResolutionRecord, CapdRecord, WorkloadRecord, Record, MintId
<1>2. d.content_digest = e.content_digest
  BY <1>1
<1>4. ASSUME NEW r \in Resolutions, NEW s \in Resolutions,
             d = ResolutionRecord(r), e = ResolutionRecord(s)
      PROVE  d.reproducible = e.reproducible
  <2>1. Digest[r.content] = Digest[s.content]
    BY <1>2, <1>4 DEF ResolutionRecord, Record
  <2>2. r.content = s.content
    BY <2>1, DigestAssumption, ContentAssumption
  <2>3. r.graph = s.graph
    BY <2>2, ContentAssumption
  <2> QED
    BY <1>4, <2>3 DEF ResolutionRecord, Record
<1>5. ASSUME NEW f \in Range(CapdFiles), NEW g \in Range(CapdFiles),
             d = CapdRecord(f), e = CapdRecord(g)
      PROVE  d.reproducible = e.reproducible
  <2>1. Digest[f.content] = Digest[g.content]
    BY <1>2, <1>5 DEF CapdRecord, Record
  <2>2. f.content = g.content
    BY <2>1, DigestAssumption, ContentAssumption
  <2>3. f.links = g.links
    BY <2>2, ContentAssumption
  <2> QED
    BY <1>5, <2>3 DEF CapdRecord, Record
<1>6. ASSUME NEW v \in Range(Workloads), NEW w \in Range(Workloads),
             d = WorkloadRecord(v), e = WorkloadRecord(w)
      PROVE  d.reproducible = e.reproducible
  BY <1>6 DEF WorkloadRecord, Record
<1>7. ASSUME NEW x \in Docs, NEW y \in Docs, x.content_digest = y.content_digest
      PROVE  /\ ~ (\E r \in Resolutions, f \in Range(CapdFiles) :
                     x = ResolutionRecord(r) /\ y = CapdRecord(f))
             /\ ~ (\E r \in Resolutions, w \in Range(Workloads) :
                     x = ResolutionRecord(r) /\ y = WorkloadRecord(w))
             /\ ~ (\E f \in Range(CapdFiles), w \in Range(Workloads) :
                     x = CapdRecord(f) /\ y = WorkloadRecord(w))
  <2>1. /\ \A r \in Resolutions : ResolutionRecord(r).content_digest = Digest[r.content]
        /\ \A f \in Range(CapdFiles) : CapdRecord(f).content_digest = Digest[f.content]
        /\ \A w \in Range(Workloads) : WorkloadRecord(w).content_digest = Digest[w.content]
    BY DEF ResolutionRecord, CapdRecord, WorkloadRecord, Record
  <2>2. /\ \A r \in Resolutions : r.content \in DOMAIN Digest
        /\ \A f \in Range(CapdFiles) : f.content \in DOMAIN Digest
        /\ \A w \in Range(Workloads) : w.content \in DOMAIN Digest
    BY ContentAssumption
  <2>3. /\ \A r \in Resolutions, f \in Range(CapdFiles) : r.content # f.content
        /\ \A r \in Resolutions, w \in Range(Workloads) : r.content # w.content
        /\ \A f \in Range(CapdFiles), w \in Range(Workloads) : f.content # w.content
    <3> DEFINE A == {r.content : r \in Resolutions}
               B == {f.content : f \in Range(CapdFiles)}
               C == {w.content : w \in Range(Workloads)}
    <3>1. A \cap B = {} /\ A \cap C = {} /\ B \cap C = {}
      BY ContentAssumption
    <3>2. /\ \A r \in Resolutions : r.content \in A
          /\ \A f \in Range(CapdFiles) : f.content \in B
          /\ \A w \in Range(Workloads) : w.content \in C
      OBVIOUS
    <3> HIDE DEF A, B, C
    <3> QED
      BY <3>1, <3>2
  <2> QED
    BY <1>7, <2>1, <2>2, <2>3, DigestAssumption
<1> QED
  BY <1>2, <1>4, <1>5, <1>6, <1>7 DEF Docs

(* The estate is a sequence of documents.                                  *)
LEMMA EstateTyped == Estate \in Seq([readable : BOOLEAN, rec : Docs])
<1> DEFINE E == [readable : BOOLEAN, rec : Docs]
           a == [i \in DOMAIN CapdFiles |->
                   [readable |-> CapdFiles[i].readable, rec |-> CapdRecord(CapdFiles[i])]]
           b == [i \in DOMAIN Workloads |->
                   [readable |-> TRUE, rec |-> WorkloadRecord(Workloads[i])]]
<1>1. \A i \in DOMAIN CapdFiles : CapdFiles[i] \in Range(CapdFiles)
  BY DEF Range
<1>2. \A i \in DOMAIN Workloads : Workloads[i] \in Range(Workloads)
  BY DEF Range
<1>3. PICK m \in Nat : DOMAIN CapdFiles = 1..m
  BY ContentAssumption
<1>4. PICK n \in Nat : DOMAIN Workloads = 1..n
  BY ContentAssumption
<1>5. \A i \in 1..m : a[i] \in E
  BY <1>1, <1>3, ContentAssumption DEF Docs
<1>6. \A i \in 1..n : b[i] \in E
  BY <1>2, <1>4 DEF Docs
<1>7. DOMAIN a = 1..m /\ DOMAIN b = 1..n /\ a = [i \in 1..m |-> a[i]] /\ b = [i \in 1..n |-> b[i]]
  BY <1>3, <1>4
<1>8. Estate = a \o b
  BY DEF Estate
<1> HIDE DEF a, b, E
<1>9. a \in [1..m -> E] /\ b \in [1..n -> E]
  BY <1>5, <1>6, <1>7
<1>10. a \in Seq(E) /\ b \in Seq(E)
  BY <1>9
<1> QED
  BY <1>8, <1>10 DEF E

-----------------------------------------------------------------------------
(* What deposits make of a list of records: what is deposited is unused,   *)
(* the rest is as it was, and every record keeps its place, its content    *)
(* and its claim.                                                          *)
IdsOf(recs) == {recs[i].id : i \in DOMAIN recs}
Distinct(recs) == \A i, j \in DOMAIN recs : recs[i].id = recs[j].id => i = j
Continues(recs, new) ==
  \A i \in DOMAIN recs : /\ i \in DOMAIN new
                         /\ new[i].id = recs[i].id
                         /\ new[i].content_digest = recs[i].content_digest
                         /\ new[i].reproducible = recs[i].reproducible

Deposited(recs, new, ids) ==
  /\ new \in Seq(Shelf) /\ Distinct(new)
  /\ IdsOf(new) = IdsOf(recs) \cup ids
  /\ Continues(recs, new)
  /\ \A k \in DOMAIN new :
       IF new[k].id \in ids THEN new[k].reuse = Unused
       ELSE \E i \in DOMAIN recs : new[k] = recs[i]

LEMMA NothingDeposited ==
  ASSUME NEW recs \in Seq(Shelf), Distinct(recs) PROVE Deposited(recs, recs, {})
  BY DEF Deposited, Continues

LEMMA DepositsFollow ==
  ASSUME NEW recs, NEW mid, NEW new, NEW A, NEW B,
         Deposited(recs, mid, A), Deposited(mid, new, B)
  PROVE  Deposited(recs, new, A \cup B)
<1>1. Continues(recs, new)
  BY DEF Deposited, Continues
<1>2. IdsOf(new) = IdsOf(recs) \cup (A \cup B)
  BY DEF Deposited
<1>3. ASSUME NEW k \in DOMAIN new
      PROVE  IF new[k].id \in A \cup B THEN new[k].reuse = Unused
             ELSE \E i \in DOMAIN recs : new[k] = recs[i]
  <2>1. CASE new[k].id \in B
    BY <2>1 DEF Deposited
  <2>2. CASE new[k].id \notin B
    <3>1. PICK j \in DOMAIN mid : new[k] = mid[j]
      BY <2>2 DEF Deposited
    <3> QED
      BY <2>2, <3>1 DEF Deposited
  <2> QED
    BY <2>1, <2>2
<1> QED
  BY <1>1, <1>2, <1>3 DEF Deposited

LEMMA PutDeposits ==
  ASSUME NEW recs \in Seq(Shelf), Distinct(recs), NEW rec \in Docs
  PROVE  Deposited(recs, Put(recs, rec), {rec.id})
<1> DEFINE new == Put(recs, rec)
<1>0. rec \in Shelf /\ rec.reuse = Unused
  BY DocKept
<1>1. CASE \E i \in DOMAIN recs : recs[i].id = rec.id
  <2>1. new = [i \in DOMAIN recs |-> IF recs[i].id = rec.id THEN rec ELSE recs[i]]
    BY <1>1 DEF Put
  <2>2. PICK n \in Nat : DOMAIN recs = 1..n /\ n = Len(recs)
    OBVIOUS
  <2> HIDE DEF new
  <2>3. DOMAIN new = DOMAIN recs /\ \A i \in DOMAIN recs : recs[i] \in Shelf
    BY <2>1
  <2>4. \A i \in DOMAIN recs : new[i] = IF recs[i].id = rec.id THEN rec ELSE recs[i]
    BY <2>1
  <2>5. new \in [1..n -> Shelf]
    BY <1>0, <2>1, <2>2, <2>3, <2>4
  <2>6. new \in Seq(Shelf)
    BY <2>5
  <2>7. \A i \in DOMAIN recs : new[i].id = recs[i].id
    BY <2>4
  <2>8. Distinct(new)
    BY <2>3, <2>7 DEF Distinct
  <2>9. IdsOf(new) = IdsOf(recs) \cup {rec.id}
    BY <1>1, <2>3, <2>7 DEF IdsOf
  <2>10. ASSUME NEW i \in DOMAIN recs
         PROVE  /\ new[i].content_digest = recs[i].content_digest
                /\ new[i].reproducible = recs[i].reproducible
    <3>1. CASE recs[i].id = rec.id
      <4>1. PICK d \in Docs : /\ d.id = recs[i].id
                              /\ d.content_digest = recs[i].content_digest
                              /\ d.reproducible = recs[i].reproducible
        BY <2>3, ShelfKept
      <4> QED
        BY <2>4, <3>1, <4>1, IdsAgree
    <3>2. CASE recs[i].id # rec.id
      BY <2>4, <3>2
    <3> QED
      BY <3>1, <3>2
  <2>11. Continues(recs, new)
    BY <2>3, <2>7, <2>10 DEF Continues
  <2>12. ASSUME NEW k \in DOMAIN new
         PROVE  IF new[k].id \in {rec.id} THEN new[k].reuse = Unused
                ELSE \E i \in DOMAIN recs : new[k] = recs[i]
    BY <1>0, <2>3, <2>4, <2>7
  <2>13. Deposited(recs, new, {rec.id})
    BY <2>6, <2>8, <2>9, <2>11, <2>12 DEF Deposited
  <2> QED
    BY <2>13 DEF new
<1>2. CASE ~ \E i \in DOMAIN recs : recs[i].id = rec.id
  <2>1. new = Append(recs, rec)
    BY <1>2 DEF Put
  <2>2. PICK n \in Nat : DOMAIN recs = 1..n /\ n = Len(recs)
    OBVIOUS
  <2> HIDE DEF new
  <2>3. new \in Seq(Shelf) /\ Len(new) = n + 1
    BY <1>0, <2>1, <2>2
  <2>4. DOMAIN new = 1..(n + 1) /\ new[n + 1] = rec /\ \A i \in 1..n : new[i] = recs[i]
    BY <1>0, <2>1, <2>2, <2>3
  <2>5. DOMAIN new = DOMAIN recs \cup {n + 1} /\ n + 1 \notin DOMAIN recs
    BY <2>2, <2>4
  <2>6. Distinct(new)
    BY <1>2, <2>2, <2>4, <2>5 DEF Distinct
  <2>7. IdsOf(new) = IdsOf(recs) \cup {rec.id}
    BY <2>2, <2>4, <2>5 DEF IdsOf
  <2>8. Continues(recs, new)
    BY <2>2, <2>4, <2>5 DEF Continues
  <2>9. ASSUME NEW k \in DOMAIN new
        PROVE  IF new[k].id \in {rec.id} THEN new[k].reuse = Unused
               ELSE \E i \in DOMAIN recs : new[k] = recs[i]
    <3>1. CASE k = n + 1
      BY <1>0, <2>4, <3>1
    <3>2. CASE k # n + 1
      BY <1>2, <2>2, <2>4, <2>5, <3>2
    <3> QED
      BY <3>1, <3>2
  <2>10. Deposited(recs, new, {rec.id})
    BY <2>3, <2>6, <2>7, <2>8, <2>9 DEF Deposited
  <2> QED
    BY <2>10 DEF new
<1> QED
  BY <1>1, <1>2

-----------------------------------------------------------------------------
(* A run of deposits, one after the other.                                 *)
Steps(g, recs, docs, n) ==
  g[0] = recs /\ \A k \in 0..(n - 1) : g[k + 1] = Ingest(g[k], docs[k + 1])

LEMMA HighestIs ==
  ASSUME NEW n \in Nat, NEW s \in SUBSET (1..(n + 1)), n + 1 \in s PROVE Max(s) = n + 1
<1>1. \A y \in s : y \in Int /\ n + 1 >= y
  OBVIOUS
<1>2. \A x \in s : (\A y \in s : x >= y) <=> x = n + 1
  BY <1>1
<1> QED
  BY <1>2 DEF Max

LEMMA FoldSteps ==
  ASSUME NEW recs, NEW docs, NEW N \in Nat, DOMAIN docs = 1..N
  PROVE  \E g : Steps(g, recs, docs, N) /\ FoldLeft(Ingest, recs, docs) = g[N]
<1> DEFINE D == 1..N
           Folds(g, s) == g[s] = IF s = {} THEN recs
                                 ELSE Ingest(g[s \ {Max(s)}], docs[Max(s)])
           P(n) == \E g : /\ g = [s \in SUBSET D |-> g[s]]
                          /\ \A s \in SUBSET (1..n) : Folds(g, s)
           Bad == {n \in 0..N : ~ P(n)}
<1>1. P(0)
  <2> DEFINE g == [s \in SUBSET D |-> recs]
  <2>1. g = [s \in SUBSET D |-> g[s]] /\ g[{}] = recs
    OBVIOUS
  <2>2. \A s \in SUBSET (1..0) : s = {}
    OBVIOUS
  <2> QED
    BY <2>1, <2>2
<1>2. ASSUME NEW n \in 0..(N - 1), P(n) PROVE P(n + 1)
  <2>1. PICK g : g = [s \in SUBSET D |-> g[s]] /\ \A s \in SUBSET (1..n) : Folds(g, s)
    BY <1>2
  <2> DEFINE h == [s \in SUBSET D |->
                     IF n + 1 \in s THEN Ingest(g[s \ {n + 1}], docs[n + 1]) ELSE g[s]]
  <2>2. h = [s \in SUBSET D |-> h[s]]
    OBVIOUS
  <2>3. ASSUME NEW s \in SUBSET (1..(n + 1)) PROVE Folds(h, s)
    <3>1. s \in SUBSET D
      OBVIOUS
    <3>2. CASE n + 1 \in s
      <4>1. Max(s) = n + 1
        BY <3>2, HighestIs
      <4>2. s \ {n + 1} \in SUBSET D /\ n + 1 \notin s \ {n + 1}
        BY <3>1
      <4>3. h[s \ {n + 1}] = g[s \ {n + 1}] /\ h[s] = Ingest(g[s \ {n + 1}], docs[n + 1])
        BY <3>1, <3>2, <4>2
      <4> HIDE DEF h
      <4> QED
        BY <3>2, <4>1, <4>3
    <3>3. CASE n + 1 \notin s
      <4>1. s \in SUBSET (1..n)
        BY <3>3
      <4>2. h[s] = g[s] /\ Folds(g, s)
        BY <2>1, <3>1, <3>3, <4>1
      <4>3. s # {} => h[s \ {Max(s)}] = g[s \ {Max(s)}]
        BY <3>1, <3>3
      <4> HIDE DEF h
      <4> QED
        BY <4>2, <4>3
    <3> QED
      BY <3>2, <3>3
  <2> QED
    BY <2>2, <2>3
<1> HIDE DEF P
<1>3. P(N)
  <2> SUFFICES ASSUME ~ P(N) PROVE FALSE
    OBVIOUS
  <2>1. Bad # {} /\ Bad \in SUBSET Nat
    OBVIOUS
  <2>2. PICK m \in Bad : \A k \in Bad : m <= k
    BY <2>1, LeastNat
  <2>3. m # 0 /\ m - 1 \in 0..(N - 1)
    BY <1>1, <2>2
  <2>4. P(m - 1)
    BY <2>2, <2>3
  <2>5. P((m - 1) + 1)
    BY <1>2, <2>3, <2>4
  <2> QED
    BY <2>2, <2>5
<1> DEFINE Def(g) == g = [s \in SUBSET D |->
                           IF s = {} THEN recs
                           ELSE LET x == Max(s) IN Ingest(g[s \ {x}], docs[x])]
           f == CHOOSE g : Def(g)
<1>4. \E g : Def(g)
  BY <1>3 DEF P
<1>5. Def(f)
  BY <1>4
<1>6. FoldLeft(Ingest, recs, docs) = f[DOMAIN docs]
  BY DEF FoldLeft, MapThenFoldSet
<1> HIDE DEF f
<1> DEFINE g == [n \in 0..N |-> f[1..n]]
<1>7. g[0] = recs
  <2>1. 1..0 = {} /\ {} \in SUBSET D
    OBVIOUS
  <2> QED
    BY <1>5, <2>1
<1>8. ASSUME NEW k \in 0..(N - 1) PROVE g[k + 1] = Ingest(g[k], docs[k + 1])
  <2>1. Max(1..(k + 1)) = k + 1
    BY HighestIs
  <2>2. 1..(k + 1) \in SUBSET D /\ 1..(k + 1) # {} /\ (1..(k + 1)) \ {k + 1} = 1..k
    OBVIOUS
  <2>3. f[1..(k + 1)] = Ingest(f[1..k], docs[k + 1])
    BY <1>5, <2>1, <2>2
  <2> QED
    BY <2>3
<1>9. FoldLeft(Ingest, recs, docs) = g[N]
  BY <1>6
<1> HIDE DEF g
<1> QED
  BY <1>7, <1>8, <1>9 DEF Steps

LEMMA ElementOf ==
  ASSUME NEW E, NEW s \in Seq(E) PROVE \A i \in 1..Len(s) : s[i] \in E
  OBVIOUS

(* Any sequence of documents is deposited as a whole.                      *)
LEMMA FoldDeposits ==
  ASSUME NEW recs \in Seq(Shelf), Distinct(recs),
         NEW docs \in Seq([readable : BOOLEAN, rec : Docs])
  PROVE  Deposited(recs, FoldLeft(Ingest, recs, docs),
                   {docs[i].rec.id : i \in {i \in DOMAIN docs : docs[i].readable}})
<1> DEFINE Read(n) == {docs[i].rec.id : i \in {i \in 1..n : docs[i].readable}}
           N == Len(docs)
<1>1. N \in Nat /\ DOMAIN docs = 1..N
  OBVIOUS
<1>2. PICK g : Steps(g, recs, docs, N) /\ FoldLeft(Ingest, recs, docs) = g[N]
  BY <1>1, FoldSteps
<1> DEFINE Good(n) == Deposited(recs, g[n], Read(n))
           Bad == {n \in 0..N : ~ Good(n)}
<1>3. \A i \in 1..N : docs[i].rec \in Docs /\ docs[i].readable \in BOOLEAN
  <2>1. \A i \in 1..N : docs[i] \in [readable : BOOLEAN, rec : Docs]
    BY ElementOf
  <2>2. \A doc \in [readable : BOOLEAN, rec : Docs] : doc.rec \in Docs /\ doc.readable \in BOOLEAN
    OBVIOUS
  <2> QED
    BY <2>1, <2>2
<1> HIDE DEF N
<1>4. Good(0)
  <2>1. g[0] = recs /\ Read(0) = {}
    BY <1>2 DEF Steps
  <2> QED
    BY <2>1, NothingDeposited
<1>5. ASSUME NEW n \in 0..(N - 1), Good(n) PROVE Good(n + 1)
  <2>1. g[n + 1] = Ingest(g[n], docs[n + 1]) /\ n + 1 \in 1..N
    BY <1>1, <1>2 DEF Steps
  <2>2. g[n] \in Seq(Shelf) /\ Distinct(g[n])
    BY <1>5 DEF Deposited
  <2>3. CASE docs[n + 1].readable
    <3>1. Deposited(g[n], g[n + 1], {docs[n + 1].rec.id})
      BY <1>3, <2>1, <2>2, <2>3, PutDeposits DEF Ingest
    <3>2. Read(n + 1) = Read(n) \cup {docs[n + 1].rec.id}
      BY <1>1, <2>3
    <3> HIDE DEF Read
    <3> QED
      BY <1>5, <3>1, <3>2, DepositsFollow
  <2>4. CASE ~ docs[n + 1].readable
    <3>1. g[n + 1] = g[n] /\ Read(n + 1) = Read(n)
      BY <1>1, <2>1, <2>4 DEF Ingest
    <3> QED
      BY <1>5, <3>1
  <2> QED
    BY <1>3, <2>1, <2>3, <2>4
<1> HIDE DEF Good
<1>6. Good(N)
  <2> SUFFICES ASSUME ~ Good(N) PROVE FALSE
    OBVIOUS
  <2>1. Bad # {} /\ Bad \in SUBSET Nat
    BY <1>1
  <2>2. PICK m \in Bad : \A k \in Bad : m <= k
    BY <2>1, LeastNat
  <2>3. m # 0 /\ m - 1 \in 0..(N - 1)
    BY <1>1, <1>4, <2>2
  <2>4. Good(m - 1)
    BY <1>1, <2>2, <2>3
  <2>5. Good((m - 1) + 1)
    BY <1>5, <2>3, <2>4
  <2> QED
    BY <1>1, <2>2, <2>5
<1> QED
  BY <1>1, <1>2, <1>6 DEF Good

-----------------------------------------------------------------------------
(* Scores.                                                                 *)
LEMMA DivMod ==
  ASSUME NEW a \in Nat, NEW u \in Nat \ {0}
  PROVE  /\ a \div u \in Nat /\ a % u \in Nat /\ a % u < u
         /\ a = u * (a \div u) + (a % u)
  OBVIOUS

(* A score is the nearest number of thousandths.                           *)
Nearest(e, u, s) == 2000 * e - u <= 2 * (u * s) /\ 2 * (u * s) <= 2000 * e + u

LEMMA ScoreNearest ==
  ASSUME NEW e \in Nat, NEW u \in Nat \ {0}
  PROVE  Score(e, u) \in Nat /\ Nearest(e, u, Score(e, u))
<1> DEFINE a == 1000 * e
           q == a \div u
           r == a % u
<1>1. a \in Nat
  OBVIOUS
<1>2. q \in Nat /\ r \in Nat /\ r < u /\ a = u * q + r
  BY <1>1, DivMod
<1>3. Score(e, u) = IF 2 * r > u \/ (2 * r = u /\ q % 2 = 1) THEN q + 1 ELSE q
  BY DEF Score
<1>4. 2000 * e = 2 * a
  OBVIOUS
<1> HIDE DEF a, q, r
<1>5. u * (q + 1) = u * q + u /\ u * q \in Nat
  BY <1>2
<1>6. CASE 2 * r > u \/ (2 * r = u /\ q % 2 = 1)
  <2>1. Score(e, u) = q + 1 /\ 2 * r >= u
    BY <1>2, <1>3, <1>6
  <2> QED
    BY <1>1, <1>2, <1>4, <1>5, <2>1 DEF Nearest
<1>7. CASE ~ (2 * r > u \/ (2 * r = u /\ q % 2 = 1))
  <2>1. Score(e, u) = q /\ 2 * r <= u
    BY <1>2, <1>3, <1>7
  <2> QED
    BY <1>1, <1>2, <1>4, <1>5, <2>1 DEF Nearest
<1> QED
  BY <1>6, <1>7

LEMMA ScoreBounded ==
  ASSUME NEW e \in Nat, NEW u \in Nat \ {0}, e <= u
  PROVE  Score(e, u) \in Nat /\ Score(e, u) <= 1000
<1> DEFINE s == Score(e, u)
<1>1. s \in Nat /\ 2 * (u * s) <= 2000 * e + u
  BY ScoreNearest DEF Nearest
<1> HIDE DEF s
<1>2. 2 * (u * s) <= 2001 * u
  BY <1>1
<1>3. ASSUME s >= 1001 PROVE FALSE
  <2>1. u * s >= u * 1001
    BY <1>1, <1>3
  <2> QED
    BY <1>1, <1>2, <2>1
<1>4. s \in Nat /\ s <= 1000
  BY <1>1, <1>3
<1> QED
  BY <1>4 DEF s

LEMMA ProductBelow ==
  ASSUME NEW u \in 1..32, NEW v \in 1..32, u # v PROVE u * v <= 992
<1>1. CASE u < v
  <2>1. u * v <= 31 * v
    BY <1>1
  <2> QED
    BY <2>1
<1>2. CASE v < u
  <2>1. u * v <= u * 31
    BY <1>2
  <2> QED
    BY <2>1
<1> QED
  BY <1>1, <1>2

(* Of two rates over at most 32 uses each, the better one scores higher.   *)
LEMMA ScoreFollows ==
  ASSUME NEW d \in Nat, NEW u \in 1..32, NEW e \in Nat, NEW v \in 1..32, d * v > e * u
  PROVE  Score(d, u) > Score(e, v)
<1>0. u \in Nat \ {0} /\ v \in Nat \ {0}
  OBVIOUS
<1> DEFINE s == Score(d, u)
           t == Score(e, v)
<1>a. s \in Nat /\ Nearest(d, u, s) /\ t \in Nat /\ Nearest(e, v, t)
  BY <1>0, ScoreNearest
<1> HIDE DEF s, t
<1>1. s \in Nat /\ 2000 * d - u <= 2 * (u * s)
  BY <1>a DEF Nearest
<1>2. t \in Nat /\ 2 * (v * t) <= 2000 * e + v
  BY <1>a DEF Nearest
<1>3. ASSUME s <= t PROVE FALSE
  <2>1. (u * v) * s <= (u * v) * t /\ u * v \in Nat
    BY <1>1, <1>2, <1>3
  <2>2. 2000 * (d * v) - u * v <= 2 * ((u * v) * s)
    <3>1. v * (2000 * d - u) <= v * (2 * (u * s))
      BY <1>1
    <3> QED
      BY <1>1, <3>1
  <2>3. 2 * ((u * v) * t) <= 2000 * (e * u) + u * v
    <3>1. u * (2 * (v * t)) <= u * (2000 * e + v)
      BY <1>2
    <3> QED
      BY <1>2, <3>1
  <2>4. 2000 * (d * v - e * u) <= 2 * (u * v)
    <3> DEFINE uv == u * v
               dv == d * v
               eu == e * u
               uvs == uv * s
               uvt == uv * t
    <3>1. uv \in Int /\ dv \in Int /\ eu \in Int /\ uvs \in Int /\ uvt \in Int
      BY <1>1, <1>2
    <3>2. uvs <= uvt /\ 2000 * dv - uv <= 2 * uvs /\ 2 * uvt <= 2000 * eu + uv
      BY <2>1, <2>2, <2>3
    <3> HIDE DEF uv, dv, eu, uvs, uvt
    <3>3. 2000 * (dv - eu) <= 2 * uv
      BY <3>1, <3>2
    <3> QED
      BY <3>3 DEF uv, dv, eu
  <2>5. CASE u = v
    <3>1. d * v - e * u = u * (d - e) /\ d > e
      BY <2>5
    <3>2. u * (d - e) >= u
      BY <3>1
    <3>3. 1000 * u <= u * u
      BY <2>4, <2>5, <3>1, <3>2
    <3>4. u * u <= 32 * u
      OBVIOUS
    <3> QED
      BY <3>3, <3>4
  <2>6. CASE u # v
    <3>1. u * v <= 992
      BY <2>6, ProductBelow
    <3>2. d * v - e * u >= 1
      OBVIOUS
    <3> QED
      BY <2>1, <2>4, <3>1, <3>2
  <2> QED
    BY <2>5, <2>6
<1> QED
  BY <1>1, <1>2, <1>3 DEF s, t

(* Further on two rates can meet in one score.                             *)
LEMMA ScoresMeet == Score(1, 34) = 29 /\ Score(1, 35) = 29
  BY DEF Score

-----------------------------------------------------------------------------
(* What a record says of its reuse is what was reported of it.             *)
Tally == [ok : Nat, not_ok : Nat]

Reported(reuse, tally) ==
  /\ tally \in Tally
  /\ reuse.evaluations = tally.ok
  /\ reuse.uses = tally.ok + tally.not_ok
  /\ reuse.uses <= MaxUses
  /\ reuse.score = IF reuse.uses = 0 THEN 0 ELSE Score(reuse.evaluations, reuse.uses)

CommonsInv ==
  /\ records \in Seq(Shelf)
  /\ Distinct(records)
  /\ DOMAIN applied = Ids
  /\ \A i \in DOMAIN records : Reported(records[i].reuse, applied[records[i].id])

LEMMA CommonsInitInvariant == CommonsInit => CommonsInv
  BY DEF CommonsInit, CommonsInv, Distinct, Ids

(* Deposits of documents, whichever ones, keep the invariant and every     *)
(* citation.                                                               *)
LEMMA DepositKeeps ==
  ASSUME CommonsInv, NEW ids, Deposited(records, records', ids),
         applied' = [id \in DOMAIN applied \cup ids |->
                       IF id \in ids THEN Fresh ELSE applied[id]]
  PROVE  CommonsInv' /\ Continues(records, records')
<1>1. records' \in Seq(Shelf) /\ Distinct(records') /\ Continues(records, records')
  BY DEF Deposited
<1>2. DOMAIN applied' = Ids'
  BY DEF CommonsInv, Ids, IdsOf, Deposited
<1>3. ASSUME NEW k \in DOMAIN records'
      PROVE  Reported(records'[k].reuse, applied'[records'[k].id])
  <2>0. records'[k].id \in DOMAIN applied \cup ids
    BY <1>2 DEF Ids
  <2>1. CASE records'[k].id \in ids
    <3>1. records'[k].reuse = Unused /\ applied'[records'[k].id] = Fresh
      BY <2>0, <2>1 DEF Deposited
    <3> QED
      BY <3>1, BoundAssumption DEF Reported, Unused, Fresh, Tally
  <2>2. CASE records'[k].id \notin ids
    <3>1. PICK i \in DOMAIN records : records'[k] = records[i]
      BY <2>2 DEF Deposited
    <3>2. applied'[records'[k].id] = applied[records[i].id]
      BY <2>0, <2>2, <3>1
    <3> QED
      BY <3>1, <3>2 DEF CommonsInv
  <2> QED
    BY <2>1, <2>2
<1> QED
  BY <1>1, <1>2, <1>3 DEF CommonsInv

LEMMA DepositResolutionKeeps ==
  ASSUME CommonsInv, DepositResolution PROVE CommonsInv' /\ Continues(records, records')
<1>1. PICK r \in Resolutions :
        /\ records' = Put(records, ResolutionRecord(r))
        /\ applied' = [id \in DOMAIN applied \cup {ResolutionRecord(r).id} |->
                         IF id = ResolutionRecord(r).id THEN Fresh ELSE applied[id]]
  BY DEF DepositResolution
<1> DEFINE rec == ResolutionRecord(r)
<1>2. rec \in Docs
  BY DEF Docs
<1> HIDE DEF rec
<1>3. Deposited(records, Put(records, rec), {rec.id})
  BY <1>2, PutDeposits DEF CommonsInv
<1>4. Deposited(records, records', {rec.id})
  BY <1>1, <1>3 DEF rec
<1>5. applied' = [id \in DOMAIN applied \cup {rec.id} |->
                    IF id \in {rec.id} THEN Fresh ELSE applied[id]]
  BY <1>1 DEF rec
<1> QED
  BY <1>4, <1>5, DepositKeeps

LEMMA IngestEstateKeeps ==
  ASSUME CommonsInv, IngestEstate PROVE CommonsInv' /\ Continues(records, records')
<1> DEFINE ids == {Estate[i].rec.id : i \in {i \in DOMAIN Estate : Estate[i].readable}}
<1>1. /\ records' = FoldLeft(Ingest, records, Estate)
      /\ applied' = [id \in DOMAIN applied \cup ids |->
                       IF id \in ids THEN Fresh ELSE applied[id]]
  BY DEF IngestEstate
<1>2. Deposited(records, FoldLeft(Ingest, records, Estate), ids)
  BY EstateTyped, FoldDeposits DEF CommonsInv
<1> HIDE DEF ids
<1> QED
  BY <1>1, <1>2, DepositKeeps

LEMMA RecordUseKeeps ==
  ASSUME CommonsInv, NEW i \in DOMAIN records, NEW ok \in BOOLEAN, RecordUse(i, ok)
  PROVE  CommonsInv' /\ Continues(records, records')
<1> DEFINE r == records[i]
           u == Used(r.reuse, ok)
           old == applied[r.id]
           new == Reporting(old, ok)
<1>1. /\ r \in Shelf /\ r.id \in DOMAIN applied /\ Reported(r.reuse, old)
      /\ r.reuse.uses < MaxUses
  BY ElementOf DEF CommonsInv, Ids, RecordUse
<1>2. records' = [records EXCEPT ![i] = [r EXCEPT !.reuse = u]]
  BY DEF RecordUse
<1>3. applied' = [applied EXCEPT ![r.id] = new]
  BY DEF RecordUse
<1>4. u \in Reuse /\ Reported(u, new)
  <2> DEFINE v == r.reuse
  <2>1. v \in Reuse /\ old \in Tally
    BY <1>1, ShelfKept DEF Reported
  <2> HIDE DEF v, old
  <2>2. /\ v.uses \in Nat /\ v.evaluations \in Nat /\ old.ok \in Nat /\ old.not_ok \in Nat
        /\ v.evaluations = old.ok /\ v.uses = old.ok + old.not_ok /\ v.uses < MaxUses
    BY <1>1, <2>1 DEF Reuse, Tally, Reported, v
  <2> DEFINE e == v.evaluations + (IF ok THEN 1 ELSE 0)
             n == v.uses + 1
  <2>3. u = [uses |-> n, evaluations |-> e, score |-> Score(e, n)]
    BY DEF Used, v
  <2>4. e \in Nat /\ n \in Nat \ {0} /\ n <= MaxUses
    BY <2>2, BoundAssumption
  <2>5. Score(e, n) \in Nat
    BY <2>4, ScoreNearest
  <2>6. new \in Tally /\ e = new.ok /\ n = new.ok + new.not_ok
    <3>1. CASE ok
      <4>1. new = [ok |-> old.ok + 1, not_ok |-> old.not_ok]
        BY <2>1, <3>1 DEF Tally, Reporting
      <4>2. new.ok = old.ok + 1 /\ new.not_ok = old.not_ok
        BY <4>1
      <4>3. new \in Tally
        BY <2>2, <4>1 DEF Tally
      <4> HIDE DEF new, u
      <4> QED
        BY <2>2, <3>1, <4>2, <4>3
    <3>2. CASE ~ ok
      <4>1. new = [ok |-> old.ok, not_ok |-> old.not_ok + 1]
        BY <2>1, <3>2 DEF Tally, Reporting
      <4>2. new.ok = old.ok /\ new.not_ok = old.not_ok + 1
        BY <4>1
      <4>3. new \in Tally
        BY <2>2, <4>1 DEF Tally
      <4> HIDE DEF new, u
      <4> QED
        BY <2>2, <3>2, <4>2, <4>3
    <3> QED
      BY <3>1, <3>2
  <2> HIDE DEF e, n, u, new
  <2>7. u.uses = n /\ u.evaluations = e /\ u.score = Score(e, n)
    BY <2>3
  <2> QED
    BY <2>3, <2>4, <2>5, <2>6, <2>7 DEF Reuse, Reported
<1> HIDE DEF u, new
<1>5. [r EXCEPT !.reuse = u] = Kept(r, u) /\ Kept(r, u) \in Shelf
  BY <1>1, <1>4, ShelfKept
<1>6. /\ Kept(r, u).id = r.id /\ Kept(r, u).content_digest = r.content_digest
      /\ Kept(r, u).reproducible = r.reproducible /\ Kept(r, u).reuse = u
  BY DEF Kept
<1> DEFINE k == Kept(r, u)
<1>7. records' = [records EXCEPT ![i] = k] /\ k \in Shelf
  BY <1>2, <1>5
<1> HIDE DEF k
<1>8. records' \in Seq(Shelf) /\ DOMAIN records' = DOMAIN records
  BY <1>7 DEF CommonsInv
<1>9. /\ records'[i] = k
      /\ \A j \in DOMAIN records : j # i => records'[j] = records[j]
  BY <1>7 DEF CommonsInv
<1>10. /\ k.id = r.id /\ k.content_digest = r.content_digest
       /\ k.reproducible = r.reproducible /\ k.reuse = u
  BY <1>6 DEF k
<1>11. \A j \in DOMAIN records : records'[j].id = records[j].id
  BY <1>9, <1>10
<1>12. Distinct(records')
  BY <1>8, <1>11 DEF CommonsInv, Distinct
<1>13. DOMAIN applied' = Ids'
  BY <1>3, <1>8, <1>11 DEF CommonsInv, Ids
<1>14. Continues(records, records')
  BY <1>8, <1>9, <1>10 DEF Continues
<1>15. ASSUME NEW j \in DOMAIN records'
       PROVE  Reported(records'[j].reuse, applied'[records'[j].id])
  <2>1. CASE j = i
    BY <1>1, <1>3, <1>4, <1>9, <1>10, <2>1
  <2>2. CASE j # i
    <3>1. records[j].id # r.id /\ records'[j] = records[j]
      BY <1>8, <1>9, <2>2 DEF CommonsInv, Distinct
    <3> HIDE DEF r
    <3>2. applied'[records[j].id] = applied[records[j].id]
      BY <1>3, <1>8, <3>1 DEF CommonsInv, Ids
    <3> QED
      BY <1>8, <3>1, <3>2 DEF CommonsInv
  <2> QED
    BY <2>1, <2>2
<1> QED
  BY <1>8, <1>12, <1>13, <1>14, <1>15 DEF CommonsInv

LEMMA CommonsKeeps ==
  ASSUME CommonsInv, CommonsNext PROVE CommonsInv' /\ Continues(records, records')
<1>1. CASE Apply
  <2>1. PICK i \in DOMAIN records, ok \in BOOLEAN : RecordUse(i, ok)
    BY <1>1 DEF Apply
  <2> QED
    BY <2>1, RecordUseKeeps
<1> QED
  BY <1>1, DepositResolutionKeeps, IngestEstateKeeps DEF CommonsNext

LEMMA CommonsInvariantStep == CommonsInv /\ [CommonsNext]_commonsVars => CommonsInv'
<1>1. ASSUME CommonsInv, UNCHANGED commonsVars PROVE CommonsInv'
  BY <1>1 DEF commonsVars, CommonsInv, Distinct, Ids
<1> QED
  BY <1>1, CommonsKeeps

(* Every reachable state of the commons satisfies the inductive invariant. *)
THEOREM CommonsInvariant == CommonsSpec => []CommonsInv
  BY CommonsInitInvariant, CommonsInvariantStep, PTL DEF CommonsSpec

(* One record per id, with counts and a score that can be.                 *)
THEOREM CommonsTyped == CommonsSpec => []CommonsTypeOK
<1>1. CommonsInv => CommonsTypeOK
  <2> SUFFICES ASSUME CommonsInv PROVE CommonsTypeOK
    OBVIOUS
  <2>1. ASSUME NEW i \in DOMAIN records
        PROVE  /\ records[i].reuse.evaluations \in 0 .. records[i].reuse.uses
               /\ records[i].reuse.uses \in 0 .. MaxUses
               /\ records[i].reuse.score \in 0 .. 1000
    <3> DEFINE v == records[i].reuse
               t == applied[records[i].id]
    <3>1. Reported(v, t)
      BY DEF CommonsInv
    <3> HIDE DEF v, t
    <3>2. t.ok \in Nat /\ t.not_ok \in Nat
      BY <3>1 DEF Reported, Tally
    <3>3. /\ v.evaluations \in Nat /\ v.uses \in Nat /\ v.evaluations <= v.uses
          /\ v.uses <= MaxUses
      BY <3>1, <3>2 DEF Reported
    <3>4. v.score \in Nat /\ v.score <= 1000
      <4>1. CASE v.uses = 0
        BY <3>1, <4>1 DEF Reported
      <4>2. CASE v.uses # 0
        <5>1. v.uses \in Nat \ {0} /\ v.score = Score(v.evaluations, v.uses)
          BY <3>1, <3>3, <4>2 DEF Reported
        <5> DEFINE e == v.evaluations
                   n == v.uses
        <5>2. e \in Nat /\ n \in Nat \ {0} /\ e <= n
          BY <3>3, <5>1
        <5> HIDE DEF e, n
        <5>3. Score(e, n) \in Nat /\ Score(e, n) <= 1000
          BY <5>2, ScoreBounded
        <5>4. v.score = Score(e, n)
          BY <5>1 DEF e, n
        <5> QED
          BY <5>3, <5>4
      <4> QED
        BY <4>1, <4>2
    <3>5. v.evaluations \in 0..v.uses
      BY <3>3
    <3>6. v.uses \in 0..MaxUses
      BY <3>3, BoundAssumption
    <3>7. v.score \in 0..1000
      BY <3>4
    <3>8. v = records[i].reuse
      BY DEF v
    <3> QED
      BY <3>5, <3>6, <3>7, <3>8, Zenon
  <2> QED
    BY <2>1 DEF CommonsInv, CommonsTypeOK, Distinct
<1> QED
  BY <1>1, CommonsInvariant, PTL

(* An id resolves for ever to its content, with the claim it was minted    *)
(* with.                                                                   *)
THEOREM CitationsStand == CommonsSpec => CitationStands
<1>1. CommonsInv /\ [CommonsNext]_commonsVars =>
        [\A i \in DOMAIN records :
           \E j \in DOMAIN records' :
             /\ records'[j].id = records[i].id
             /\ records'[j].content_digest = records[i].content_digest
             /\ records'[j].reproducible = records[i].reproducible]_commonsVars
  BY CommonsKeeps DEF Continues
<1> QED
  BY <1>1, CommonsInvariant, PTL DEF CommonsSpec, CitationStands

-----------------------------------------------------------------------------
(* Ranking.  The order of a pool of records is strict and total, and every *)
(* record has a place in it of its own.                                    *)
OrderOf(pool) == {p \in pool \X pool : RankBefore(p[1], p[2])}

LEMMA PoolOrdered ==
  ASSUME CommonsInv, NEW pool \in SUBSET DOMAIN records
  PROVE  /\ IsFiniteSet(pool) /\ Orders(OrderOf(pool), pool)
         /\ \A i \in pool : PlaceIn(pool, i) = Rank(i, OrderOf(pool), pool)
<1>1. IsFiniteSet(pool)
  <2>1. DOMAIN records = 1..Len(records) /\ Len(records) \in Nat
    BY DEF CommonsInv
  <2>2. \A n \in Nat : IsFiniteSet(1..n)
    BY FS_Interval
  <2> QED
    BY <2>1, <2>2, FS_Subset
<1>2. \A i \in pool : /\ records[i].reuse.score \in Int /\ records[i].reuse.uses \in Int
                       /\ i \in Int
  <2> TAKE i \in pool
  <2>1. records[i] \in Shelf /\ i \in Int
    BY ElementOf DEF CommonsInv
  <2> QED
    BY <2>1, ShelfKept DEF Reuse
<1>3. \A i, j \in pool : <<i, j>> \in OrderOf(pool) <=> RankBefore(i, j)
  BY DEF OrderOf
<1>4. Orders(OrderOf(pool), pool)
  <2>1. \A i \in pool : ~ RankBefore(i, i)
    BY <1>2 DEF RankBefore
  <2>2. \A i, j, k \in pool : RankBefore(i, j) /\ RankBefore(j, k) => RankBefore(i, k)
    BY <1>2 DEF RankBefore
  <2>3. \A i, j \in pool : i # j => RankBefore(i, j) \/ RankBefore(j, i)
    BY <1>2 DEF RankBefore
  <2> QED
    BY <1>3, <2>1, <2>2, <2>3 DEF Orders
<1>5. ASSUME NEW i \in pool PROVE PlaceIn(pool, i) = Rank(i, OrderOf(pool), pool)
  <2>1. {j \in pool : RankBefore(j, i)} = Before(i, OrderOf(pool), pool)
    BY <1>3 DEF Before
  <2> QED
    BY <2>1 DEF PlaceIn, Rank
<1> QED
  BY <1>1, <1>4, <1>5

(* The k-th of a ranked pool is the record whose place is k.               *)
LEMMA RankedIs ==
  ASSUME CommonsInv, NEW pool \in SUBSET DOMAIN records, NEW k \in DOMAIN Ranked(pool)
  PROVE  /\ k \in Nat \ {0} /\ \A l \in 1..k : l \in DOMAIN Ranked(pool)
         /\ \E j \in pool : PlaceIn(pool, j) = k /\ Ranked(pool)[k] = records[j]
         /\ \A j \in pool : PlaceIn(pool, j) = k => Ranked(pool)[k] = records[j]
<1> DEFINE n == Cardinality(pool)
           m == IF n < Limit THEN n ELSE Limit
<1>1. n \in Nat
  BY PoolOrdered, FS_CardinalityType
<1>2. m \in Nat /\ m <= n
  BY <1>1, BoundAssumption
<1>3. Ranked(pool) = [l \in 1..m |-> records[CHOOSE i \in pool : PlaceIn(pool, i) = l]]
  BY DEF Ranked
<1> HIDE DEF m
<1>4. k \in 1..m /\ DOMAIN Ranked(pool) = 1..m
  BY <1>3
<1>5. /\ \E x \in pool : PlaceIn(pool, x) = k
      /\ \A x, y \in pool : PlaceIn(pool, x) = PlaceIn(pool, y) => x = y
  <2>1. k \in 1..n
    BY <1>1, <1>2, <1>4
  <2>2. /\ \A i \in 1..n : \E x \in pool : Rank(x, OrderOf(pool), pool) = i
        /\ \A x, y \in pool : Rank(x, OrderOf(pool), pool) = Rank(y, OrderOf(pool), pool) => x = y
    BY PoolOrdered, RankOnto
  <2> QED
    BY <2>1, <2>2, PoolOrdered
<1> DEFINE c == CHOOSE i \in pool : PlaceIn(pool, i) = k
<1>6. c \in pool /\ PlaceIn(pool, c) = k
  BY <1>5
<1>7. Ranked(pool)[k] = records[c]
  BY <1>3, <1>4
<1>8. \A j \in pool : PlaceIn(pool, j) = k => j = c
  BY <1>5, <1>6
<1> HIDE DEF c
<1> QED
  BY <1>2, <1>4, <1>6, <1>7, <1>8

LEMMA BetterIsBefore ==
  ASSUME MaxUses <= 32, CommonsInv, NEW i \in DOMAIN records, NEW j \in DOMAIN records,
         Tried(records[i].id), Tried(records[j].id),
         Rate(records[i].id, records[j].id) > Rate(records[j].id, records[i].id)
  PROVE  RankBefore(i, j)
<1> DEFINE a == applied[records[i].id]
           b == applied[records[j].id]
           d == a.ok
           u == a.ok + a.not_ok
           e == b.ok
           v == b.ok + b.not_ok
<1>1. Reported(records[i].reuse, a) /\ Reported(records[j].reuse, b)
  BY DEF CommonsInv
<1>2. d * v > e * u /\ u > 0 /\ v > 0
  BY DEF Rate, Tried
<1>3. /\ a.ok \in Nat /\ a.not_ok \in Nat /\ b.ok \in Nat /\ b.not_ok \in Nat
      /\ records[i].reuse.uses = u /\ records[i].reuse.evaluations = d /\ u <= MaxUses
      /\ records[j].reuse.uses = v /\ records[j].reuse.evaluations = e /\ v <= MaxUses
  <2> HIDE DEF a, b
  <2> QED
    BY <1>1 DEF Reported, Tally
<1>4. d \in Nat /\ e \in Nat /\ u \in 1..32 /\ v \in 1..32
  <2>1. u > 0 /\ v > 0
    BY <1>2
  <2> HIDE DEF a, b
  <2>2. d \in Nat /\ e \in Nat /\ u \in Nat /\ v \in Nat /\ u <= MaxUses /\ v <= MaxUses
    BY <1>3
  <2> HIDE DEF d, e, u, v
  <2> QED
    BY <2>1, <2>2, BoundAssumption
<1>5. records[i].reuse.score = Score(d, u) /\ records[j].reuse.score = Score(e, v)
  <2>1. /\ \A r, t : Reported(r, t) /\ r.uses # 0 => r.score = Score(r.evaluations, r.uses)
    BY DEF Reported
  <2>2. u # 0 /\ v # 0
    BY <1>4
  <2> HIDE DEF a, b, d, e, u, v
  <2>3. records[i].reuse.uses # 0 /\ records[j].reuse.uses # 0
    BY <1>3, <2>2
  <2> QED
    BY <1>1, <1>3, <2>1, <2>3
<1> HIDE DEF d, e, u, v
<1>6. Score(d, u) > Score(e, v)
  BY <1>2, <1>4, ScoreFollows
<1> QED
  BY <1>5, <1>6 DEF RankBefore

(* The resolution that succeeded more often is listed first, for as many   *)
(* uses as thousandths can tell rates apart (ScoresMeet).                  *)
THEOREM ProvenComeFirst == MaxUses <= 32 => (CommonsSpec => []ProvenFirst)
<1> SUFFICES ASSUME MaxUses <= 32 PROVE CommonsSpec => []ProvenFirst
  OBVIOUS
<1>1. CommonsInv => ProvenFirst
  <2> SUFFICES ASSUME CommonsInv, NEW class,
                      NEW k \in DOMAIN NextBestAction(class, Missing, Missing),
                      NEW i \in DOMAIN records,
                      records[i].type = "resolution", records[i].category = class,
                      Tried(records[i].id),
                      Tried(NextBestAction(class, Missing, Missing)[k].id),
                      Rate(records[i].id, NextBestAction(class, Missing, Missing)[k].id)
                        > Rate(NextBestAction(class, Missing, Missing)[k].id, records[i].id)
               PROVE  \E l \in 1 .. (k - 1) :
                        NextBestAction(class, Missing, Missing)[l].id = records[i].id
    BY DEF ProvenFirst
  <2> DEFINE pool == Pool(class, Missing, Missing)
             list == Ranked(pool)
  <2>1. NextBestAction(class, Missing, Missing) = list
    BY DEF NextBestAction
  <2>2. pool \in SUBSET DOMAIN records /\ i \in pool
    BY DEF Pool, LangsMatch
  <2> HIDE DEF pool
  <2>3. /\ k \in Nat \ {0} /\ \A l \in 1..k : l \in DOMAIN list
        /\ \E j \in pool : PlaceIn(pool, j) = k /\ list[k] = records[j]
    BY <2>1, <2>2, RankedIs
  <2>4. PICK j \in pool : PlaceIn(pool, j) = k /\ list[k] = records[j]
    BY <2>3
  <2>5. RankBefore(i, j)
    BY <2>1, <2>2, <2>4, BetterIsBefore
  <2>6. <<i, j>> \in OrderOf(pool)
    BY <2>2, <2>5 DEF OrderOf
  <2> DEFINE l == PlaceIn(pool, i)
  <2>7. l \in 1..Cardinality(pool) /\ l < k
    BY <2>2, <2>4, <2>6, PoolOrdered, RankGrows
  <2>8. l \in 1..(k - 1) /\ l \in 1..k
    <3>1. Cardinality(pool) \in Nat
      BY <2>2, PoolOrdered, FS_CardinalityType
    <3> HIDE DEF l
    <3> QED
      BY <2>3, <2>7, <3>1
  <2>9. list[l] = records[i]
    BY <2>2, <2>3, <2>8, RankedIs
  <2> HIDE DEF l, list
  <2> QED
    BY <2>1, <2>8, <2>9
<1> QED
  BY <1>1, CommonsInvariant, PTL
=============================================================================
