----------------------------- MODULE DataLemmas -----------------------------
(***************************************************************************)
(* Facts about the data the components compute with, for the proofs about  *)
(* them: least numbers, the best of a set, sums over a set, and sorted     *)
(* lists of a set.  An order is a set of pairs, and a weight a function,   *)
(* so that every fact is about values; induction is the search for a least *)
(* counterexample.                                                         *)
(***************************************************************************)
EXTENDS Integers, Sequences, SequencesExt, FiniteSetTheorems, TLAPS

(* A set of numbers that is not empty has a least one.                     *)
LEMMA LeastNat ==
  ASSUME NEW T \in SUBSET Nat, T # {}
  PROVE  \E n \in T : \A m \in T : n <= m
<1>1. PICK n \in T : \A m \in T : ~ (<<m, n>> \in OpToRel(<, Nat))
  BY NatLessThanWellFounded, WFMin
<1>2. \A m \in T : ~ (m < n)
  BY <1>1 DEF OpToRel
<1> QED
  BY <1>2

-----------------------------------------------------------------------------
(* A strict total order on a set, and what comes before an element of it.  *)
Orders(R, S) ==
  /\ \A x \in S : <<x, x>> \notin R
  /\ \A x, y, z \in S : <<x, y>> \in R /\ <<y, z>> \in R => <<x, z>> \in R
  /\ \A x, y \in S : x # y => <<x, y>> \in R \/ <<y, x>> \in R

Before(x, R, S) == {y \in S : <<y, x>> \in R}
Rank(x, R, S) == Cardinality(Before(x, R, S)) + 1

(* What comes later has more before it.                                    *)
LEMMA RankGrows ==
  ASSUME NEW S, IsFiniteSet(S), NEW R, Orders(R, S)
  PROVE  /\ \A x \in S : Rank(x, R, S) \in 1..Cardinality(S)
         /\ \A x, y \in S : <<x, y>> \in R => Rank(x, R, S) < Rank(y, R, S)
<1>1. \A x \in S : /\ Before(x, R, S) \in SUBSET (S \ {x})
                   /\ IsFiniteSet(Before(x, R, S))
                   /\ Cardinality(Before(x, R, S)) \in 0..(Cardinality(S) - 1)
  <2> TAKE x \in S
  <2>1. Before(x, R, S) \in SUBSET (S \ {x})
    BY DEF Before, Orders
  <2>2. IsFiniteSet(S \ {x}) /\ Cardinality(S \ {x}) = Cardinality(S) - 1
    BY FS_RemoveElement
  <2>3. /\ IsFiniteSet(Before(x, R, S))
        /\ Cardinality(Before(x, R, S)) <= Cardinality(S \ {x})
    BY <2>1, <2>2, FS_Subset
  <2>4. Cardinality(Before(x, R, S)) \in Nat /\ Cardinality(S) \in Nat
    BY <2>3, FS_CardinalityType
  <2> QED
    BY <2>1, <2>2, <2>3, <2>4
<1>2. Cardinality(S) \in Nat
  BY FS_CardinalityType
<1>3. ASSUME NEW x \in S, NEW y \in S, <<x, y>> \in R
      PROVE  Rank(x, R, S) < Rank(y, R, S)
  <2> DEFINE A == Before(x, R, S)
             B == Before(y, R, S)
  <2>1. A \subseteq B /\ x \in B /\ x \notin A
    BY <1>3 DEF Before, Orders
  <2> HIDE DEF A, B
  <2>2. /\ IsFiniteSet(A) /\ IsFiniteSet(B)
        /\ Cardinality(A) \in Nat /\ Cardinality(B) \in Nat
    BY <1>1 DEF A, B
  <2>3. Cardinality(A) <= Cardinality(B) /\ Cardinality(A) # Cardinality(B)
    BY <2>1, <2>2, FS_Subset
  <2> QED
    BY <2>2, <2>3 DEF Rank, A, B
<1> QED
  BY <1>1, <1>2, <1>3 DEF Rank

(* A finite set that is not empty has a first element.                     *)
LEMMA FirstExists ==
  ASSUME NEW S, IsFiniteSet(S), S # {}, NEW R, Orders(R, S)
  PROVE  \E x \in S : \A y \in S \ {x} : <<x, y>> \in R
<1> DEFINE T == {Rank(x, R, S) : x \in S}
<1>1. T \in SUBSET Nat /\ T # {}
  BY RankGrows, FS_CardinalityType
<1>2. PICK n \in T : \A m \in T : n <= m
  BY <1>1, LeastNat
<1>3. PICK x \in S : n = Rank(x, R, S)
  BY <1>2
<1>4. ASSUME NEW y \in S \ {x} PROVE <<x, y>> \in R
  <2>1. Rank(x, R, S) <= Rank(y, R, S) /\ Rank(x, R, S) \in Int /\ Rank(y, R, S) \in Int
    BY <1>1, <1>2, <1>3
  <2>2. <<y, x>> \notin R
    BY <2>1, RankGrows
  <2> QED
    BY <2>2 DEF Orders
<1> QED
  BY <1>4

(* Of n elements, each of the ranks from 1 to n is that of exactly one.    *)
LEMMA RankOnto ==
  ASSUME NEW S, IsFiniteSet(S), NEW R, Orders(R, S)
  PROVE  /\ \A i \in 1..Cardinality(S) : \E x \in S : Rank(x, R, S) = i
         /\ \A x, y \in S : Rank(x, R, S) = Rank(y, R, S) => x = y
<1> DEFINE n == Cardinality(S)
           rank == [x \in S |-> Rank(x, R, S)]
<1>1. n \in Nat /\ IsFiniteSet(1..n) /\ Cardinality(1..n) = n
  BY FS_CardinalityType, FS_Interval
<1>2. rank \in [S -> 1..n]
  BY RankGrows
<1>3. \A x, y \in S : <<x, y>> \in R => rank[x] < rank[y]
  BY RankGrows
<1>4. \A x \in S : rank[x] = Rank(x, R, S)
  OBVIOUS
<1> HIDE DEF rank
<1>5. ASSUME NEW x \in S, NEW y \in S, rank[x] = rank[y] PROVE x = y
  <2>1. rank[x] \in Int /\ ~ (rank[x] < rank[y]) /\ ~ (rank[y] < rank[x])
    BY <1>1, <1>2, <1>5
  <2>2. <<x, y>> \notin R /\ <<y, x>> \notin R
    BY <2>1, <1>3
  <2> QED
    BY <2>2 DEF Orders
<1>6. rank \in Injection(S, 1..n)
  BY <1>2, <1>5 DEF Injection, IsInjective
<1>7. rank \in Surjection(S, 1..n)
  BY <1>1, <1>6, FS_Injection
<1>8. \A i \in 1..n : \E x \in S : rank[x] = i
  BY <1>7 DEF Surjection
<1> QED
  BY <1>4, <1>5, <1>8

-----------------------------------------------------------------------------
(* Sums over a set, one element after another in some order.               *)
Pick(T) == CHOOSE x \in T : TRUE

Unfolds(g, w, T) == g[T] = IF T = {} THEN 0 ELSE w[Pick(T)] + g[T \ {Pick(T)}]

(* g gives the sum of the weights w over every subset of S.                *)
Sums(g, w, S) == \A T \in SUBSET S : Unfolds(g, w, T)

LEMMA PickIn == ASSUME NEW T, T # {} PROVE Pick(T) \in T
  BY DEF Pick

LEMMA FiniteParts ==
  ASSUME NEW S, IsFiniteSet(S)
  PROVE  \A T \in SUBSET S : IsFiniteSet(T) /\ Cardinality(T) \in Nat
  BY FS_Subset, FS_CardinalityType

(* Over a finite set the sums exist.                                       *)
LEMMA SumExists ==
  ASSUME NEW S, IsFiniteSet(S), NEW w \in [S -> Nat]
  PROVE  \E g \in [SUBSET S -> Nat] : Sums(g, w, S)
<1> DEFINE Small(n) == {T \in SUBSET S : Cardinality(T) <= n}
           P(n) == \E g \in [SUBSET S -> Nat] : \A T \in Small(n) : Unfolds(g, w, T)
           Bad == {n \in Nat : ~ P(n)}
<1>1. \A T \in SUBSET S : IsFiniteSet(T) /\ Cardinality(T) \in Nat
  BY FiniteParts
<1>2. P(0)
  <2> DEFINE g == [T \in SUBSET S |-> 0]
  <2>1. \A T \in Small(0) : T = {}
    BY <1>1, FS_EmptySet
  <2>2. \A T \in Small(0) : Unfolds(g, w, T)
    BY <2>1 DEF Unfolds
  <2>3. g \in [SUBSET S -> Nat]
    OBVIOUS
  <2> QED
    BY <2>2, <2>3
<1>3. ASSUME NEW n \in Nat, P(n) PROVE P(n + 1)
  <2>1. PICK g \in [SUBSET S -> Nat] : \A T \in Small(n) : Unfolds(g, w, T)
    BY <1>3
  <2> DEFINE h == [T \in SUBSET S |->
                     IF T = {} \/ Cardinality(T) <= n THEN g[T] ELSE w[Pick(T)] + g[T \ {Pick(T)}]]
  <2>2. h \in [SUBSET S -> Nat]
    BY PickIn
  <2>3. ASSUME NEW T \in Small(n + 1) PROVE Unfolds(h, w, T)
    <3>1. CASE T = {}
      <4>1. Cardinality(T) <= n
        BY <3>1, FS_EmptySet
      <4> QED
        BY <3>1, <4>1, <2>1 DEF Unfolds
    <3>2. CASE T # {}
      <4> DEFINE c == Pick(T)
                 U == T \ {c}
      <4>1. c \in T /\ U \in SUBSET S /\ Cardinality(U) = Cardinality(T) - 1
        BY <3>2, <1>1, PickIn, FS_RemoveElement
      <4>2. Cardinality(U) <= n
        BY <4>1, <1>1
      <4>3. h[U] = g[U]
        BY <4>1, <4>2
      <4>4. h[T] = w[c] + g[U]
        <5>1. CASE Cardinality(T) <= n
          BY <5>1, <3>2, <2>1 DEF Unfolds
        <5>2. CASE ~ (Cardinality(T) <= n)
          BY <5>2, <3>2
        <5> QED
          BY <5>1, <5>2
      <4> QED
        BY <3>2, <4>3, <4>4 DEF Unfolds
    <3> QED
      BY <3>1, <3>2
  <2> QED
    BY <2>2, <2>3
<1> HIDE DEF P
<1>4. Bad = {}
  <2> SUFFICES ASSUME Bad # {} PROVE FALSE
    OBVIOUS
  <2>1. PICK n \in Bad : \A m \in Bad : n <= m
    BY LeastNat
  <2>2. n # 0 /\ n - 1 \in Nat /\ n - 1 \notin Bad
    BY <2>1, <1>2
  <2>3. P((n - 1) + 1)
    BY <2>2, <1>3
  <2> QED
    BY <2>1, <2>3
<1>5. P(Cardinality(S))
  BY <1>4, FS_CardinalityType
<1>6. Small(Cardinality(S)) = SUBSET S
  BY <1>1, FS_Subset
<1> QED
  BY <1>5, <1>6 DEF P, Sums

(* The sums over a larger set extend those over a smaller one.             *)
LEMMA SumAgrees ==
  ASSUME NEW S, IsFiniteSet(S), NEW S2, S \subseteq S2, NEW w, NEW w2,
         \A x \in S : w[x] = w2[x],
         NEW g, Sums(g, w, S), NEW h, Sums(h, w2, S2),
         NEW T \in SUBSET S
  PROVE  h[T] = g[T]
<1> DEFINE Bad == {n \in Nat : \E U \in SUBSET S : Cardinality(U) = n /\ h[U] # g[U]}
<1>1. \A U \in SUBSET S : IsFiniteSet(U) /\ Cardinality(U) \in Nat
  BY FiniteParts
<1>2. Bad = {}
  <2> SUFFICES ASSUME Bad # {} PROVE FALSE
    OBVIOUS
  <2>1. PICK n \in Bad : \A m \in Bad : n <= m
    BY LeastNat
  <2>2. PICK U \in SUBSET S : Cardinality(U) = n /\ h[U] # g[U]
    BY <2>1
  <2>3. U # {}
    BY <2>2 DEF Sums, Unfolds
  <2> DEFINE c == Pick(U)
  <2>4. c \in U /\ g[U] = w[c] + g[U \ {c}] /\ h[U] = w2[c] + h[U \ {c}] /\ w[c] = w2[c]
    BY <2>3, PickIn DEF Sums, Unfolds
  <2> HIDE DEF c
  <2>5. Cardinality(U \ {c}) = n - 1 /\ n - 1 \in Nat /\ n - 1 < n
    <3>1. IsFiniteSet(U) /\ Cardinality(U) = n /\ n \in Nat /\ c \in U
      BY <1>1, <2>2, <2>4
    <3>2. Cardinality(U \ {c}) = n - 1
      BY <3>1, FS_RemoveElement
    <3>3. Cardinality(U \ {c}) \in Nat
      BY <1>1
    <3> QED
      BY <3>1, <3>2, <3>3
  <2>6. n - 1 \notin Bad
    BY <2>1, <2>5
  <2>7. h[U \ {c}] = g[U \ {c}]
    BY <2>5, <2>6
  <2> QED
    BY <2>2, <2>4, <2>7
<1> QED
  BY <1>1, <1>2

(* Sums of natural numbers are natural numbers.                            *)
LEMMA SumType ==
  ASSUME NEW S, IsFiniteSet(S), NEW w \in [S -> Nat], NEW g, Sums(g, w, S)
  PROVE  \A T \in SUBSET S : g[T] \in Nat
<1>1. PICK h \in [SUBSET S -> Nat] : Sums(h, w, S)
  BY SumExists
<1>2. \A T \in SUBSET S : h[T] = g[T]
  BY <1>1, SumAgrees
<1> QED
  BY <1>2

(* It does not matter which element is taken out first.                    *)
LEMMA SumTakes ==
  ASSUME NEW S, IsFiniteSet(S), NEW w \in [S -> Nat], NEW g, Sums(g, w, S),
         NEW T \in SUBSET S, NEW x \in T
  PROVE  g[T] = w[x] + g[T \ {x}]
<1> DEFINE Wrong(U, y) == g[U] # w[y] + g[U \ {y}]
           Bad == {n \in Nat : \E U \in SUBSET S : Cardinality(U) = n /\ \E y \in U : Wrong(U, y)}
<1>1. \A U \in SUBSET S : IsFiniteSet(U) /\ Cardinality(U) \in Nat
  BY FiniteParts
<1>2. Bad = {}
  <2> SUFFICES ASSUME Bad # {} PROVE FALSE
    OBVIOUS
  <2>1. PICK n \in Bad : \A m \in Bad : n <= m
    BY LeastNat
  <2>0. PICK U \in SUBSET S : Cardinality(U) = n /\ \E y \in U : Wrong(U, y)
    BY <2>1
  <2>2. PICK y \in U : Cardinality(U) = n /\ Wrong(U, y)
    BY <2>0
  <2> DEFINE c == Pick(U)
  <2>3. c \in U /\ g[U] = w[c] + g[U \ {c}]
    BY PickIn, <2>2 DEF Sums, Unfolds
  <2>4. c # y
    BY <2>2, <2>3
  <2> HIDE DEF c
  <2>5. /\ Cardinality(U \ {c}) = n - 1 /\ Cardinality(U \ {y}) = n - 1
        /\ n - 1 \in Nat /\ n - 1 < n
    <3>1. IsFiniteSet(U) /\ Cardinality(U) = n /\ n \in Nat /\ c \in U /\ y \in U
      BY <1>1, <2>2, <2>3
    <3>2. Cardinality(U \ {c}) = n - 1 /\ Cardinality(U \ {y}) = n - 1
      BY <3>1, FS_RemoveElement
    <3>3. Cardinality(U \ {c}) \in Nat
      BY <1>1
    <3> QED
      BY <3>1, <3>2, <3>3
  <2>6. n - 1 \notin Bad
    BY <2>1, <2>5
  <2>7. ~ Wrong(U \ {c}, y) /\ ~ Wrong(U \ {y}, c)
    BY <2>3, <2>4, <2>5, <2>6
  <2>8. (U \ {c}) \ {y} = (U \ {y}) \ {c}
    OBVIOUS
  <2>9. /\ w[c] \in Nat /\ w[y] \in Nat /\ g[(U \ {c}) \ {y}] \in Nat
        /\ g[U \ {y}] \in Nat /\ g[U \ {c}] \in Nat
    BY <2>3, SumType
  <2>10. g[U] = w[c] + g[U \ {c}]
    BY <2>3
  <2>11. g[U \ {c}] = w[y] + g[(U \ {c}) \ {y}] /\ g[U \ {y}] = w[c] + g[(U \ {c}) \ {y}]
    BY <2>7, <2>8
  <2>12. g[U] # w[y] + g[U \ {y}]
    BY <2>2
  <2> HIDE DEF Wrong, Bad
  <2> QED
    BY <2>9, <2>10, <2>11, <2>12
<1> QED
  BY <1>1, <1>2

(* One element more adds its weight.                                       *)
LEMMA SumAdds ==
  ASSUME NEW S, IsFiniteSet(S), NEW x, x \notin S, NEW w, NEW w2 \in [S \cup {x} -> Nat],
         \A y \in S : w[y] = w2[y],
         NEW g, Sums(g, w, S), NEW h, Sums(h, w2, S \cup {x})
  PROVE  h[S \cup {x}] = g[S] + w2[x]
<1>1. IsFiniteSet(S \cup {x}) /\ (S \cup {x}) \ {x} = S
  BY FS_AddElement
<1>2. h[S \cup {x}] = w2[x] + h[S]
  BY <1>1, SumTakes
<1>3. h[S] = g[S]
  BY SumAgrees
<1>4. g[S] \in Nat /\ w2[x] \in Nat
  <2>1. \A y \in S : w2[y] \in Nat
    OBVIOUS
  <2>2. Sums(h, w2, S)
    BY DEF Sums
  <2> QED
    BY <1>1, <1>3, SumType
<1> QED
  BY <1>2, <1>3, <1>4

(* A part weighs no more than the whole.                                   *)
LEMMA SumGrows ==
  ASSUME NEW S, IsFiniteSet(S), NEW w \in [S -> Nat], NEW g, Sums(g, w, S),
         NEW T \in SUBSET S
  PROVE  g[T] <= g[S]
<1> DEFINE Larger(U) == T \subseteq U /\ ~ (g[T] <= g[U])
           Bad == {n \in Nat : \E U \in SUBSET S : Cardinality(U) = n /\ Larger(U)}
<1>1. \A U \in SUBSET S : IsFiniteSet(U) /\ Cardinality(U) \in Nat /\ g[U] \in Nat
  BY FiniteParts, SumType
<1>2. Bad = {}
  <2> SUFFICES ASSUME Bad # {} PROVE FALSE
    OBVIOUS
  <2>1. PICK n \in Bad : \A m \in Bad : n <= m
    BY LeastNat
  <2>2. PICK U \in SUBSET S : Cardinality(U) = n /\ Larger(U)
    BY <2>1
  <2>3. PICK x \in U : x \notin T
    <3>1. U # T
      BY <1>1, <2>2
    <3> QED
      BY <2>2, <3>1
  <2>4. g[U] = w[x] + g[U \ {x}] /\ w[x] \in Nat
    BY SumTakes
  <2>5. Cardinality(U \ {x}) = n - 1 /\ n - 1 \in Nat /\ n - 1 < n
    <3>1. IsFiniteSet(U) /\ Cardinality(U) = n /\ n \in Nat
      BY <1>1, <2>2
    <3>2. Cardinality(U \ {x}) = n - 1
      BY <3>1, FS_RemoveElement
    <3>3. Cardinality(U \ {x}) \in Nat
      BY <1>1
    <3> QED
      BY <3>1, <3>2, <3>3
  <2>6. n - 1 \notin Bad /\ T \subseteq U \ {x} /\ U \ {x} \in SUBSET S
    BY <2>1, <2>2, <2>3, <2>5
  <2>7. g[T] <= g[U \ {x}]
    BY <2>5, <2>6
  <2>8. g[T] \in Nat /\ g[U \ {x}] \in Nat /\ g[U] \in Nat
    BY <1>1, <2>6
  <2> HIDE DEF Bad
  <2> QED
    BY <2>2, <2>4, <2>7, <2>8
<1>3. ~ Larger(S)
  BY <1>1, <1>2
<1> QED
  BY <1>3
=============================================================================
