------------------------ MODULE ReleaseLedger_proofs ------------------------
(***************************************************************************)
(* Proofs about ReleaseLedger, for any number of webhook threads and       *)
(* rollback commands, any trees and any bound on the files.                *)
(***************************************************************************)
EXTENDS ReleaseLedger, DataLemmas

(* The processes whose record() has not created its file yet: there is     *)
(* room for each of them.                                                  *)
Pending == {p \in Procs : op[p].pc \in {"count", "create"}}
RoomLeft == Cardinality(DOMAIN files) + Cardinality(Pending) <= MaxFiles

(* A sequence number is one of a count of the files, which only grows: the *)
(* files that were there when it was taken have smaller ones.              *)
Counted ==
  /\ \A n \in DOMAIN files :
       n.seq < Cardinality(DOMAIN files) /\ \A m \in files[n].after : m.seq < n.seq
  /\ \A p \in Procs :
       /\ op[p].pc = "create" => /\ op[p].seq <= Cardinality(DOMAIN files)
                                 /\ \A m \in op[p].after : m.seq < op[p].seq
       /\ op[p].pc = "write" => \A m \in op[p].after : m.seq < op[p].name.seq

(* Every release is the image of its source, and a complete file is that   *)
(* of a release in the log.                                                *)
Logged(rel) == \E i \in DOMAIN log : log[i] = rel
Recording(p) == op[p].pc \in {"count", "create", "write"}

Sealed ==
  /\ \A i \in DOMAIN log : log[i].digest = BuildDigest(log[i].source)
  /\ \A n \in Readable : Logged(files[n].rel)
  /\ \A p \in Procs : Recording(p) => op[p].rel.digest = BuildDigest(op[p].rel.source)

(* A release that rolls back was given a target that the log has.          *)
HasTarget(rel) ==
  rel.status = "rolled-back" =>
    \E i \in DOMAIN log : log[i].id = rel.to /\ log[i].digest = rel.digest
Aimed == \A p \in Procs : Recording(p) => HasTarget(op[p].rel)

(* A release has a file that is complete, or whose name was opened again.  *)
(* No step undoes that: what truncates a complete file opens it again.     *)
OnFile(id) ==
  \E n \in DOMAIN files : n.id = id /\ (files[n].whole \/ files[n].again)

(* A push that is about to announce its release has it on file, and one    *)
(* that is about to fill a file has opened the one of its release.         *)
Announced ==
  \A p \in Procs :
    /\ op[p].pc = "receipt" => OnFile(op[p].id)
    /\ op[p].pc = "write" => op[p].name.id = op[p].rel.id

IInv == /\ TypeOK /\ RoomLeft /\ Counted /\ Sealed /\ Aimed /\ Announced
        /\ RollbackToPrior /\ ReceiptIsRecorded

-----------------------------------------------------------------------------
(* The history.                                                            *)
LEMMA NamesDiffer ==
  ASSUME NEW x \in FileName, NEW y \in FileName,
         x.seq = y.seq, x.stamp = y.stamp, x.id = y.id
  PROVE  x = y
  BY DEF FileName

LEMMA NameFields ==
  ASSUME NEW x \in FileName
  PROVE  x.seq \in Int /\ x.stamp \in Int /\ x.id \in Ids /\ HashRank[x.id] \in Int
  BY LedgerAssumption DEF FileName

(* Its entries are the releases of the complete files.                     *)
LEMMA HistoryPlaces ==
  ASSUME TypeOK
  PROVE  /\ DOMAIN History = 1..Cardinality(Readable) /\ Cardinality(Readable) \in Nat
         /\ Len(History) = Cardinality(Readable)
         /\ \A i \in DOMAIN History : \E n \in Readable : Place(n) = i
         /\ \A n \in Readable : Place(n) \in DOMAIN History
                                 /\ History[Place(n)] = files[n].rel
         /\ \A n, m \in Readable : Place(n) = Place(m) => n = m
         /\ \A n, m \in Readable : Newer(n, m) => Place(n) < Place(m)
<1> DEFINE S == Readable
           R == {x \in S \X S : Newer(x[1], x[2])}
<1>1. S \in SUBSET FileName /\ IsFiniteSet(S) /\ Cardinality(S) \in Nat
  <2>1. S \in SUBSET DOMAIN files
    BY DEF Readable
  <2> QED
    BY <2>1, FS_Subset, FS_CardinalityType DEF TypeOK
<1>2. \A x, y \in S : <<x, y>> \in R <=> Newer(x, y)
  OBVIOUS
<1>3. \A n \in S : Place(n) = Rank(n, R, S)
  <2> TAKE n \in S
  <2>1. {m \in S : Newer(m, n)} = {m \in S : <<m, n>> \in R}
    BY <1>2
  <2> QED
    BY <2>1 DEF Place, Rank, Before
<1> HIDE DEF R
<1>4. Orders(R, S)
  <2>1. \A x, y \in S : x # y => x.seq # y.seq \/ x.stamp # y.stamp \/ x.id # y.id
    BY <1>1, NamesDiffer
  <2>2. \A x, y \in S : x # y => \/ x.seq # y.seq \/ x.stamp # y.stamp
                                \/ HashRank[x.id] # HashRank[y.id]
    BY <1>1, <2>1, NameFields, LedgerAssumption
  <2>3. \A x \in S : x.seq \in Int /\ x.stamp \in Int /\ HashRank[x.id] \in Int
    BY <1>1, NameFields
  <2> QED
    BY <1>2, <2>2, <2>3 DEF Orders, Newer
<1>5. \A i \in 1..Cardinality(S) : \E n \in S : Place(n) = i
  BY <1>1, <1>3, <1>4, RankOnto
<1>6. /\ \A n \in S : Place(n) \in 1..Cardinality(S)
      /\ \A n, m \in S : <<n, m>> \in R => Place(n) < Place(m)
  <2>1. /\ \A n \in S : Rank(n, R, S) \in 1..Cardinality(S)
        /\ \A n, m \in S : <<n, m>> \in R => Rank(n, R, S) < Rank(m, R, S)
    BY <1>1, <1>4, RankGrows
  <2> QED
    BY <1>3, <2>1
<1>7. ASSUME NEW n \in S, NEW m \in S, Place(n) = Place(m) PROVE n = m
  <2>1. <<n, m>> \notin R /\ <<m, n>> \notin R
    BY <1>1, <1>6, <1>7
  <2> QED
    BY <1>4, <2>1 DEF Orders
<1>8. History = [i \in 1..Cardinality(S) |-> files[CHOOSE n \in S : Place(n) = i].rel]
  BY DEF History
<1> HIDE DEF S
<1>9. DOMAIN History = 1..Cardinality(S) /\ Len(History) = Cardinality(S)
  BY <1>1, <1>8
<1>10. ASSUME NEW n \in S PROVE History[Place(n)] = files[n].rel
  <2> DEFINE m == CHOOSE m \in S : Place(m) = Place(n)
  <2>1. m \in S /\ Place(m) = Place(n)
    OBVIOUS
  <2>2. History[Place(n)] = files[m].rel
    BY <1>6, <1>8
  <2> HIDE DEF m
  <2>3. m = n
    BY <1>7, <2>1
  <2> QED
    BY <2>2, <2>3
<1>11. \A n, m \in S : Newer(n, m) => Place(n) < Place(m)
  BY <1>2, <1>6
<1> QED
  BY <1>1, <1>5, <1>6, <1>7, <1>9, <1>10, <1>11 DEF S

LEMMA HistoryRan ==
  ASSUME TypeOK
  PROVE  /\ DOMAIN History = 1..Cardinality(Readable) /\ Cardinality(Readable) \in Nat
         /\ Len(History) = Cardinality(Readable)
         /\ \A i \in DOMAIN History : \E n \in Readable : History[i] = files[n].rel
  BY HistoryPlaces

(* A target is an entry of the history.                                    *)
LEMMA FirstIn ==
  ASSUME NEW hist, NEW hits, hits \subseteq DOMAIN hist, hits \subseteq Nat,
         First(hist, hits) # << >>
  PROVE  \E i \in DOMAIN hist : First(hist, hits)[1] = hist[i]
<1>1. hits # {}
  BY DEF First
<1>2. \E i \in hits : \A k \in hits : i <= k
  BY <1>1, LeastNat
<1> DEFINE i == CHOOSE i \in hits : \A k \in hits : i <= k
<1>3. i \in hits
  BY <1>2
<1>4. First(hist, hits) = <<hist[i]>>
  BY <1>1 DEF First
<1> HIDE DEF i
<1> QED
  BY <1>3, <1>4

LEMMA TargetRan ==
  ASSUME TypeOK, NEW target \in Targets(History), target # << >>
  PROVE  \E n \in Readable : target[1] = files[n].rel
<1> DEFINE hist == History
           n == Cardinality(Readable)
<1>1. /\ DOMAIN hist = 1..n /\ n \in Nat /\ Len(hist) = n
      /\ \A i \in DOMAIN hist : \E m \in Readable : hist[i] = files[m].rel
  BY HistoryRan
<1> HIDE DEF hist, n
<1>2. \E i \in DOMAIN hist : target[1] = hist[i]
  <2>1. CASE \E id \in Ids : target = ById(hist, id)
    <3>1. PICK id \in Ids : target = ById(hist, id)
      BY <2>1
    <3>2. /\ {i \in DOMAIN hist : hist[i].id = id} \subseteq DOMAIN hist
          /\ {i \in DOMAIN hist : hist[i].id = id} \subseteq Nat
      BY <1>1
    <3> QED
      BY <3>1, <3>2, FirstIn DEF ById
  <2>2. CASE \E d \in Names : target = ByDigest(hist, d)
    <3>1. PICK d \in Names : target = ByDigest(hist, d)
      BY <2>2
    <3>2. /\ {i \in DOMAIN hist \ {1} : hist[i].digest = d} \subseteq DOMAIN hist
          /\ {i \in DOMAIN hist \ {1} : hist[i].digest = d} \subseteq Nat
      BY <1>1
    <3> QED
      BY <3>1, <3>2, FirstIn DEF ByDigest
  <2>3. CASE \E k \in Steps : target = BySteps(hist, k)
    <3>1. PICK k \in Steps : target = BySteps(hist, k)
      BY <2>3
    <3>2. k \in Int /\ k < n /\ k >= -n
      BY <1>1, <3>1, LedgerAssumption DEF BySteps
    <3>3. CASE k >= 0
      <4>1. target = <<hist[k + 1]>> /\ k + 1 \in DOMAIN hist
        BY <1>1, <3>1, <3>2, <3>3 DEF BySteps
      <4> QED
        BY <4>1
    <3>4. CASE k < 0
      <4>1. target = <<hist[n + k + 1]>> /\ n + k + 1 \in DOMAIN hist
        BY <1>1, <3>1, <3>2, <3>4 DEF BySteps
      <4> QED
        BY <4>1
    <3> QED
      BY <3>2, <3>3, <3>4
  <2> QED
    BY <2>1, <2>2, <2>3 DEF Targets, hist
<1> QED
  BY <1>1, <1>2

-----------------------------------------------------------------------------
(* What a process carries while it records.                                *)
LEMMA Carries ==
  ASSUME NEW a \in Activity
  PROVE  /\ a.pc \in {"idle", "count", "create", "write", "receipt"}
         /\ a.pc = "idle" <=> a = Idle
         /\ a.pc \in {"count", "create", "write"} =>
              a.rel \in Releases /\ a.by \in {"push", "cli"} /\ a.after \subseteq DOMAIN files
         /\ a.pc = "create" => a.seq \in 0..MaxFiles
         /\ a.pc = "write" => a.name \in DOMAIN files
         /\ a.pc = "receipt" => a.id \in Ids
<1> DEFINE D == DOMAIN files
           N == 0..MaxFiles
           B == {"push", "cli"}
<1> HIDE DEF D, N, B
<1>1. CASE a = Idle
  BY <1>1 DEF Idle
<1>2. CASE a \in [pc : {"count"}, rel : Releases, by : B, after : SUBSET D]
  BY <1>2 DEF Idle, B, D
<1>3. CASE a \in [pc : {"create"}, rel : Releases, by : B, after : SUBSET D, seq : N]
  BY <1>3 DEF Idle, B, D, N
<1>4. CASE a \in [pc : {"write"}, rel : Releases, by : B, after : SUBSET D, name : D]
  BY <1>4 DEF Idle, B, D
<1>5. CASE a \in [pc : {"receipt"}, id : Ids]
  BY <1>5 DEF Idle
<1> QED
  BY <1>1, <1>2, <1>3, <1>4, <1>5 DEF Activity, D, N, B

(* No file of the ledger is ever removed: what a process carries still     *)
(* fits when there are more.                                               *)
LEMMA CarriesOn ==
  ASSUME DOMAIN files \subseteq DOMAIN files', NEW a \in Activity
  PROVE  a \in Activity'
<1> DEFINE D == DOMAIN files
           E == DOMAIN files'
           N == 0..MaxFiles
           B == {"push", "cli"}
<1>0. D \subseteq E
  OBVIOUS
<1> HIDE DEF D, E, N, B
<1>1. CASE a = Idle
  BY <1>1 DEF Activity
<1>2. CASE a \in [pc : {"count"}, rel : Releases, by : B, after : SUBSET D]
  <2>1. a \in [pc : {"count"}, rel : Releases, by : B, after : SUBSET E]
    BY <1>0, <1>2
  <2> QED
    BY <2>1 DEF Activity, B, E
<1>3. CASE a \in [pc : {"create"}, rel : Releases, by : B, after : SUBSET D, seq : N]
  <2>1. a \in [pc : {"create"}, rel : Releases, by : B, after : SUBSET E, seq : N]
    BY <1>0, <1>3
  <2> QED
    BY <2>1 DEF Activity, B, E, N
<1>4. CASE a \in [pc : {"write"}, rel : Releases, by : B, after : SUBSET D, name : D]
  <2>1. a \in [pc : {"write"}, rel : Releases, by : B, after : SUBSET E, name : E]
    BY <1>0, <1>4
  <2> QED
    BY <2>1 DEF Activity, B, E
<1>5. CASE a \in [pc : {"receipt"}, id : Ids]
  BY <1>5 DEF Activity
<1> QED
  BY <1>1, <1>2, <1>3, <1>4, <1>5 DEF Activity, D, N, B

-----------------------------------------------------------------------------
(* Counting the files and the processes about to create one.               *)
LEMMA PendingFacts ==
  ASSUME TypeOK
  PROVE  /\ IsFiniteSet(Pending) /\ Cardinality(Pending) \in Nat
         /\ Cardinality(DOMAIN files) \in Nat
         /\ Pending \subseteq Busy /\ IsFiniteSet(Busy)
         /\ Cardinality(Pending) <= Cardinality(Busy) /\ Cardinality(Busy) \in Nat
<1>1. Pending \subseteq Busy /\ Busy \subseteq Procs
  BY DEF Pending, Busy, Idle
<1>2. IsFiniteSet(Busy)
  BY <1>1, LedgerAssumption, FS_Subset
<1>3. IsFiniteSet(Pending) /\ Cardinality(Pending) <= Cardinality(Busy)
  BY <1>1, <1>2, FS_Subset
<1> QED
  BY <1>1, <1>2, <1>3, FS_CardinalityType DEF TypeOK

(* A step of one process.                                                  *)
Becomes(p, c) == op' = [op EXCEPT ![p] = c]

LEMMA BecomesOnly ==
  ASSUME TypeOK, NEW p \in Procs, NEW c, Becomes(p, c)
  PROVE  /\ op'[p] = c /\ \A q \in Procs \ {p} : op'[q] = op[q]
         /\ c.pc \in {"count", "create"} => Pending' = Pending \cup {p}
         /\ c.pc \notin {"count", "create"} => Pending' = Pending \ {p}
         /\ DOMAIN files \subseteq DOMAIN files' /\ c \in Activity' => op' \in [Procs -> Activity']
<1>1. op'[p] = c /\ \A q \in Procs \ {p} : op'[q] = op[q]
  BY DEF Becomes, TypeOK
<1>2. DOMAIN files \subseteq DOMAIN files' /\ c \in Activity' => op' \in [Procs -> Activity']
  BY CarriesOn DEF Becomes, TypeOK
<1> QED
  BY <1>1, <1>2 DEF Pending

(* What the receipts may become.                                           *)
Receipts == [status : {"rejected", "ignored", "build-failed", "deployed"},
             id : Ids \cup {NoId}]

(* A step that changes no file: one process goes on, or stops.             *)
LEMMA OpStep ==
  ASSUME IInv, NEW p \in Procs, NEW c \in Activity, Becomes(p, c),
         UNCHANGED <<files, clock, log>>,
         receipts' \subseteq Receipts, ReceiptIsRecorded', RoomLeft',
         c.pc \in {"idle", "count", "create"},
         c.pc = "create" => /\ c.seq <= Cardinality(DOMAIN files)
                            /\ \A m \in c.after : m.seq < c.seq,
         c.pc \in {"count", "create"} =>
           c.rel.digest = BuildDigest(c.rel.source) /\ HasTarget(c.rel)
  PROVE  IInv'
<1>1. TypeOK
  BY DEF IInv
<1>2. c \in Activity' /\ DOMAIN files \subseteq DOMAIN files'
  BY DEF Activity
<1>3. op'[p] = c /\ (\A q \in Procs \ {p} : op'[q] = op[q]) /\ op' \in [Procs -> Activity']
  BY <1>1, <1>2, BecomesOnly
<1>4. TypeOK'
  BY <1>3 DEF IInv, TypeOK, Receipts, File
<1>5. Counted'
  BY <1>3 DEF IInv, Counted
<1>6. Sealed'
  BY <1>3 DEF IInv, Sealed, Readable, Logged, Recording
<1>7. Aimed' /\ Announced'
  BY <1>3 DEF IInv, Aimed, Announced, OnFile, HasTarget, Recording
<1>8. RollbackToPrior'
  BY DEF IInv, RollbackToPrior
<1> QED
  BY <1>4, <1>5, <1>6, <1>7, <1>8 DEF IInv

(* A process stops, whatever it was doing.                                 *)
LEMMA StopStep ==
  ASSUME IInv, NEW p \in Procs, Becomes(p, Idle), UNCHANGED <<files, clock, log>>,
         receipts' \subseteq Receipts, ReceiptIsRecorded'
  PROVE  IInv'
<1>1. TypeOK /\ Idle \in Activity /\ Idle.pc = "idle"
  BY DEF IInv, Activity, Idle
<1>2. Pending' = Pending \ {p}
  BY <1>1, BecomesOnly
<1>3. RoomLeft'
  <2>1. IsFiniteSet(Pending) /\ Cardinality(Pending') <= Cardinality(Pending)
    BY <1>1, <1>2, PendingFacts, FS_Subset
  <2>2. Cardinality(Pending') \in Nat
    BY <1>2, <2>1, FiniteParts
  <2> QED
    BY <1>1, <2>1, <2>2, PendingFacts, LedgerAssumption DEF IInv, RoomLeft
<1> QED
  BY <1>1, <1>3, OpStep

LEMMA ReceiptsAsTheyWere ==
  ASSUME IInv, UNCHANGED <<files, receipts>>
  PROVE  receipts' \subseteq Receipts /\ ReceiptIsRecorded'
  BY DEF IInv, TypeOK, Receipts, ReceiptIsRecorded

(* record() begins.                                                        *)
LEMMA StartStep ==
  ASSUME IInv, NEW p \in Procs, op[p] = Idle, NEW rel \in Releases, NEW by \in {"push", "cli"},
         StartRecord(p, rel, by), UNCHANGED <<files, clock, log, receipts>>,
         rel.digest = BuildDigest(rel.source), HasTarget(rel)
  PROVE  IInv'
<1> DEFINE c == [pc |-> "count", rel |-> rel, by |-> by, after |-> Readable]
<1>1. TypeOK /\ Becomes(p, c) /\ c.pc = "count" /\ c.rel = rel
  BY DEF IInv, StartRecord, Becomes
<1>2. c \in Activity
  BY DEF Activity, Readable
<1> HIDE DEF c
<1>3. RoomLeft'
  <2>1. Pending' = Pending \cup {p}
    BY <1>1, BecomesOnly
  <2>2. /\ IsFiniteSet(Pending) /\ Cardinality(Pending) \in Nat
        /\ Cardinality(Pending) <= Cardinality(Busy) /\ Cardinality(Busy) \in Nat
        /\ Cardinality(DOMAIN files) \in Nat
    BY <1>1, PendingFacts
  <2>3. Cardinality(Pending') <= Cardinality(Pending) + 1 /\ Cardinality(Pending') \in Nat
    <3>1. Cardinality(Pending \cup {p}) = IF p \in Pending THEN Cardinality(Pending)
                                          ELSE Cardinality(Pending) + 1
      BY <2>2, FS_AddElement
    <3> QED
      BY <2>1, <2>2, <3>1
  <2>4. Cardinality(DOMAIN files) + Cardinality(Busy) < MaxFiles
    BY DEF StartRecord
  <2> QED
    BY <2>2, <2>3, <2>4, LedgerAssumption DEF RoomLeft
<1> QED
  BY <1>1, <1>2, <1>3, OpStep, ReceiptsAsTheyWere

(* What is on file stays there when a file is opened, or filled.           *)
LEMMA StaysOnFile ==
  ASSUME DOMAIN files \subseteq DOMAIN files',
         \A n \in DOMAIN files : (files[n].whole \/ files[n].again)
                                   => (files'[n].whole \/ files'[n].again)
  PROVE  \A id : OnFile(id) =>
           \E n \in DOMAIN files' : n.id = id /\ (files'[n].whole \/ files'[n].again)
  BY DEF OnFile

LEMMA CountStep == ASSUME IInv, NEW p \in Procs, Count(p) PROVE IInv'
<1> DEFINE n == Cardinality(DOMAIN files)
           c == [pc |-> "create", rel |-> op[p].rel, by |-> op[p].by,
                 after |-> op[p].after, seq |-> n]
<1>1. /\ TypeOK /\ op[p] \in Activity /\ op[p].pc = "count" /\ Becomes(p, c)
      /\ UNCHANGED <<files, clock, log, receipts>>
  BY DEF IInv, TypeOK, Count, Becomes
<1>2. /\ op[p].rel \in Releases /\ op[p].by \in {"push", "cli"}
      /\ op[p].after \subseteq DOMAIN files
  BY <1>1, Carries
<1>3. p \in Pending /\ Cardinality(Pending) \in Nat /\ n \in Nat /\ n <= MaxFiles
  BY <1>1, PendingFacts, LedgerAssumption DEF Pending, IInv, RoomLeft
<1> HIDE DEF n
<1>4. c \in Activity
  BY <1>2, <1>3, LedgerAssumption DEF Activity
<1>5. c.pc = "create" /\ c.rel = op[p].rel /\ c.after = op[p].after /\ c.seq = n
  OBVIOUS
<1> HIDE DEF c
<1>6. Pending' = Pending
  BY <1>1, <1>3, <1>5, BecomesOnly
<1>7. RoomLeft'
  BY <1>1, <1>6 DEF IInv, RoomLeft
<1>8. c.seq <= Cardinality(DOMAIN files) /\ \A m \in c.after : m.seq < c.seq
  BY <1>2, <1>3, <1>5 DEF n, IInv, Counted
<1>9. c.rel.digest = BuildDigest(c.rel.source) /\ HasTarget(c.rel)
  BY <1>1, <1>5 DEF IInv, Sealed, Aimed, Recording
<1> QED
  BY <1>1, <1>4, <1>5, <1>7, <1>8, <1>9, OpStep, ReceiptsAsTheyWere

LEMMA CreateStep == ASSUME IInv, NEW p \in Procs, Create(p) PROVE IInv'
<1> DEFINE name == [seq |-> op[p].seq, stamp |-> clock, id |-> op[p].rel.id]
           D == DOMAIN files
           new == [rel |-> op[p].rel, whole |-> FALSE, again |-> name \in D, after |-> {}]
           c == [pc |-> "write", rel |-> op[p].rel, by |-> op[p].by,
                 after |-> op[p].after, name |-> name]
<1>1. /\ TypeOK /\ op[p] \in Activity /\ op[p].pc = "create" /\ Becomes(p, c)
      /\ files' = [n \in D \cup {name} |-> IF n = name THEN new ELSE files[n]]
      /\ UNCHANGED <<clock, log, receipts>>
  BY DEF IInv, TypeOK, Create, Becomes
<1>2. /\ op[p].rel \in Releases /\ op[p].by \in {"push", "cli"} /\ op[p].after \subseteq D
      /\ op[p].seq \in 0..MaxFiles /\ op[p].seq <= Cardinality(D)
      /\ \A m \in op[p].after : m.seq < op[p].seq
  BY <1>1, Carries DEF IInv, Counted
<1>3. name \in FileName /\ name.seq = op[p].seq
  <2>1. op[p].rel.id \in Ids /\ clock \in 0..MaxClock
    BY <1>1, <1>2 DEF Releases, TypeOK
  <2> QED
    BY <1>2, <2>1 DEF FileName
<1>4. new.whole = FALSE /\ new.again = (name \in D) /\ new.after = {} /\ new.rel = op[p].rel
  OBVIOUS
<1>5. /\ c.pc = "write" /\ c.rel = op[p].rel /\ c.by = op[p].by
      /\ c.after = op[p].after /\ c.name = name
  OBVIOUS
<1>6. c \in Activity'
  <2>1. DOMAIN files' = D \cup {name}
    BY <1>1
  <2> QED
    BY <1>2, <2>1 DEF Activity
<1>7. new \in File'
  BY <1>2 DEF File
<1>21. name.id = op[p].rel.id
  OBVIOUS
<1> HIDE DEF name, D, new, c
<1>8. /\ DOMAIN files' = D \cup {name} /\ files'[name] = new
      /\ \A n \in D \ {name} : files'[n] = files[n]
  BY <1>1
<1>9. /\ IsFiniteSet(D) /\ IsFiniteSet(DOMAIN files') /\ Cardinality(D) \in Nat
      /\ Cardinality(DOMAIN files') = IF name \in D THEN Cardinality(D) ELSE Cardinality(D) + 1
  <2>1. IsFiniteSet(D) /\ Cardinality(D) \in Nat
    BY <1>1, FS_CardinalityType DEF TypeOK, D
  <2> QED
    BY <1>8, <2>1, FS_AddElement
<1>10. /\ op'[p] = c /\ (\A q \in Procs \ {p} : op'[q] = op[q])
       /\ op' \in [Procs -> Activity'] /\ Pending' = Pending \ {p}
  BY <1>1, <1>5, <1>6, <1>8, BecomesOnly DEF D
<1>11. TypeOK'
  <2>1. D \subseteq FileName /\ \A n \in D : files[n] \in File
    BY <1>1 DEF TypeOK, D
  <2>2. \A f \in File : f \in File'
    BY <1>8 DEF File, D
  <2>3. files' \in [DOMAIN files' -> File']
    BY <1>1, <1>7, <1>8, <2>1, <2>2
  <2> QED
    BY <1>1, <1>3, <1>8, <1>9, <1>10, <2>1, <2>3 DEF TypeOK
<1>12. RoomLeft'
  <2>1. p \in Pending /\ IsFiniteSet(Pending) /\ Cardinality(Pending) \in Nat
    BY <1>1, PendingFacts DEF Pending
  <2>2. Cardinality(Pending') = Cardinality(Pending) - 1
    BY <1>10, <2>1, FS_RemoveElement
  <2> QED
    BY <1>9, <2>1, <2>2, LedgerAssumption DEF IInv, RoomLeft, D
<1>13. Counted'
  <2>1. Cardinality(D) <= Cardinality(DOMAIN files') /\ Cardinality(DOMAIN files') \in Nat
    BY <1>9
  <2>2. ASSUME NEW n \in DOMAIN files'
        PROVE  n.seq < Cardinality(DOMAIN files') /\ \A m \in files'[n].after : m.seq < n.seq
    <3>1. n \in FileName /\ n.seq \in Int
      BY <1>11, NameFields DEF TypeOK
    <3>2. CASE n \in D
      <4>1. n.seq < Cardinality(D) /\ \A m \in files[n].after : m.seq < n.seq
        BY <3>2 DEF IInv, Counted, D
      <4>2. n.seq < Cardinality(DOMAIN files')
        BY <1>9, <2>1, <3>1, <4>1
      <4> QED
        BY <1>4, <1>8, <3>2, <4>1, <4>2
    <3>3. CASE n \notin D
      <4>1. n = name /\ Cardinality(DOMAIN files') = Cardinality(D) + 1
        BY <1>8, <1>9, <3>3
      <4>2. n.seq < Cardinality(DOMAIN files')
        BY <1>2, <1>3, <1>9, <4>1
      <4> QED
        BY <1>4, <1>8, <4>1, <4>2
    <3> QED
      BY <3>2, <3>3
  <2>3. ASSUME NEW q \in Procs
        PROVE  /\ op'[q].pc = "create" => /\ op'[q].seq <= Cardinality(DOMAIN files')
                                          /\ \A m \in op'[q].after : m.seq < op'[q].seq
               /\ op'[q].pc = "write" => \A m \in op'[q].after : m.seq < op'[q].name.seq
    <3>1. CASE q = p
      BY <1>2, <1>3, <1>5, <1>10, <3>1
    <3>2. CASE q # p
      <4>1. op'[q] = op[q] /\ op[q] \in Activity
        BY <1>1, <1>10, <3>2 DEF TypeOK
      <4>2. op[q].pc = "create" => op[q].seq \in Int /\ op[q].seq <= Cardinality(D)
        BY <4>1, Carries DEF IInv, Counted, D
      <4>3. op[q].pc = "create" => op[q].seq <= Cardinality(DOMAIN files')
        BY <1>9, <2>1, <4>2
      <4> QED
        BY <4>1, <4>3 DEF IInv, Counted
    <3> QED
      BY <3>1, <3>2
  <2> QED
    BY <2>2, <2>3 DEF Counted
<1>14. Sealed'
  <2>1. \A n \in Readable' : n \in Readable /\ files'[n] = files[n]
    BY <1>4, <1>8 DEF Readable, D
  <2>2. \A q \in Procs : Recording(q)' => Recording(q) /\ op'[q].rel = op[q].rel
    BY <1>1, <1>5, <1>10 DEF Recording
  <2> QED
    BY <1>1, <2>1, <2>2 DEF IInv, Sealed, Logged
<1>15. \A id : OnFile(id) =>
         \E n \in DOMAIN files' : n.id = id /\ (files'[n].whole \/ files'[n].again)
  BY <1>4, <1>8, StaysOnFile DEF D
<1>16. Aimed' /\ Announced'
  <2>1. \A q \in Procs : Recording(q)' => Recording(q) /\ op'[q].rel = op[q].rel
    BY <1>1, <1>5, <1>10 DEF Recording
  <2>2. Aimed'
    BY <1>1, <2>1 DEF IInv, Aimed, HasTarget
  <2>3. \A q \in Procs \ {p} : op'[q] = op[q]
    BY <1>10
  <2>4. \A q \in Procs : op'[q].pc = "receipt" =>
          \E n \in DOMAIN files' : n.id = op'[q].id /\ (files'[n].whole \/ files'[n].again)
    BY <1>5, <1>10, <1>15, <2>3 DEF IInv, Announced
  <2>5. \A q \in Procs : op'[q].pc = "write" => op'[q].name.id = op'[q].rel.id
    BY <1>5, <1>10, <1>21, <2>3 DEF IInv, Announced
  <2> QED
    BY <2>2, <2>4, <2>5 DEF Announced, OnFile
<1>17. RollbackToPrior' /\ ReceiptIsRecorded'
  <2>1. RollbackToPrior'
    BY <1>1 DEF IInv, RollbackToPrior
  <2>2. ASSUME NEW r \in receipts, r.status = "deployed" PROVE OnFile(r.id)
    BY <2>2 DEF IInv, ReceiptIsRecorded, OnFile
  <2>3. ReceiptIsRecorded'
    BY <1>1, <1>15, <2>2 DEF ReceiptIsRecorded
  <2> QED
    BY <2>1, <2>3
<1> QED
  BY <1>11, <1>12, <1>13, <1>14, <1>16, <1>17 DEF IInv

(* The log grows at its end.                                               *)
LEMMA LogGrows ==
  ASSUME TypeOK, NEW rel \in Releases, log' = Append(log, rel)
  PROVE  /\ log' \in Seq(Releases) /\ Len(log) \in Nat
         /\ DOMAIN log = 1..Len(log) /\ DOMAIN log' = 1..(Len(log) + 1)
         /\ Len(log') = Len(log) + 1 /\ log'[Len(log) + 1] = rel
         /\ \A i \in DOMAIN log : i \in DOMAIN log' /\ log'[i] = log[i]
  BY DEF TypeOK

LEMMA WriteStep == ASSUME IInv, NEW p \in Procs, Write(p) PROVE IInv'
<1> DEFINE rel == op[p].rel
           name == op[p].name
           new == [rel |-> rel, whole |-> TRUE, again |-> files[name].again,
                   after |-> op[p].after]
           c == IF op[p].by = "push" THEN [pc |-> "receipt", id |-> rel.id] ELSE Idle
<1>1. /\ TypeOK /\ op[p] \in Activity /\ op[p].pc = "write" /\ Becomes(p, c)
      /\ files' = [files EXCEPT ![name] = new] /\ log' = Append(log, rel)
      /\ UNCHANGED <<clock, receipts>>
  BY DEF IInv, TypeOK, Write, Becomes
<1>2. /\ rel \in Releases /\ op[p].after \subseteq DOMAIN files /\ name \in DOMAIN files
      /\ \A m \in op[p].after : m.seq < name.seq
      /\ rel.digest = BuildDigest(rel.source) /\ HasTarget(rel)
  BY <1>1, Carries DEF IInv, Counted, Sealed, Aimed, Recording
<1>3. new.rel = rel /\ new.whole /\ new.after = op[p].after /\ new \in File
  BY <1>1, <1>2 DEF File, TypeOK
<1>20. name.id = rel.id
  BY <1>1 DEF IInv, Announced
<1>4. c \in Activity /\ c.pc \in {"idle", "receipt"} /\ (c.pc = "receipt" => c.id = rel.id)
  <2>1. rel.id \in Ids
    BY <1>2 DEF Releases
  <2>2. CASE op[p].by = "push"
    BY <2>1, <2>2 DEF Activity
  <2>3. CASE op[p].by # "push"
    BY <2>3 DEF Activity, Idle
  <2> QED
    BY <2>2, <2>3
<1> HIDE DEF rel, name, new, c
<1>5. /\ DOMAIN files' = DOMAIN files /\ files'[name] = new
      /\ \A n \in DOMAIN files \ {name} : files'[n] = files[n]
  BY <1>1, <1>2 DEF TypeOK
<1>6. c \in Activity' /\ File' = File
  BY <1>4, <1>5, CarriesOn DEF File
<1>7. /\ op'[p] = c /\ (\A q \in Procs \ {p} : op'[q] = op[q])
      /\ op' \in [Procs -> Activity'] /\ Pending' = Pending
  <2>1. p \notin Pending /\ c.pc \notin {"count", "create"}
    BY <1>1, <1>4 DEF Pending
  <2>2. Pending' = Pending \ {p}
    BY <1>1, <2>1, BecomesOnly
  <2>3. DOMAIN files \subseteq DOMAIN files'
    BY <1>5
  <2>4. op'[p] = c /\ (\A q \in Procs \ {p} : op'[q] = op[q]) /\ op' \in [Procs -> Activity']
    BY <1>1, <1>6, <2>3, BecomesOnly
  <2> QED
    BY <2>1, <2>2, <2>4
<1>8. /\ log' \in Seq(Releases) /\ Len(log) \in Nat
      /\ DOMAIN log = 1..Len(log) /\ DOMAIN log' = 1..(Len(log) + 1)
      /\ Len(log') = Len(log) + 1 /\ log'[Len(log) + 1] = rel
      /\ \A i \in DOMAIN log : i \in DOMAIN log' /\ log'[i] = log[i]
  BY <1>1, <1>2, LogGrows
<1>9. TypeOK'
  <2>1. files' \in [DOMAIN files' -> File']
    BY <1>1, <1>3, <1>6 DEF TypeOK
  <2> QED
    BY <1>1, <1>5, <1>7, <1>8, <2>1 DEF TypeOK
<1>10. RoomLeft'
  BY <1>5, <1>7 DEF IInv, RoomLeft
<1>11. Counted'
  <2>1. ASSUME NEW n \in DOMAIN files
        PROVE  n.seq < Cardinality(DOMAIN files) /\ \A m \in files'[n].after : m.seq < n.seq
    BY <1>2, <1>3, <1>5 DEF IInv, Counted
  <2>2. \A q \in Procs : op'[q].pc \in {"create", "write"} => op'[q] = op[q]
    BY <1>4, <1>7
  <2> QED
    BY <1>5, <2>1, <2>2 DEF IInv, Counted
<1>12. Sealed'
  <2>1. \A i \in DOMAIN log' : i \in DOMAIN log \/ i = Len(log) + 1
    BY <1>8
  <2>2. \A i \in DOMAIN log' : log'[i].digest = BuildDigest(log'[i].source)
    BY <1>2, <1>8, <2>1 DEF IInv, Sealed, BuildDigest
  <2>3. \A n \in Readable' : n = name \/ (n \in Readable /\ files'[n] = files[n])
    BY <1>5 DEF Readable
  <2>4. Len(log) + 1 \in DOMAIN log'
    BY <1>8
  <2>5. ASSUME NEW n \in Readable' PROVE \E i \in DOMAIN log' : log'[i] = files'[n].rel
    <3>1. CASE n = name
      BY <1>3, <1>5, <1>8, <2>4, <3>1
    <3>2. CASE n # name
      <4>1. files'[n] = files[n] /\ n \in Readable
        BY <2>3, <3>2
      <4>2. PICK i \in DOMAIN log : log[i] = files[n].rel
        BY <4>1 DEF IInv, Sealed, Logged
      <4> QED
        BY <1>8, <4>1, <4>2
    <3> QED
      BY <3>1, <3>2
  <2>6. \A n \in Readable' : Logged(files[n].rel)'
    BY <2>5 DEF Logged
  <2>7. \A q \in Procs : Recording(q)' => Recording(q) /\ op'[q] = op[q]
    BY <1>4, <1>7 DEF Recording
  <2> QED
    BY <2>2, <2>6, <2>7 DEF IInv, Sealed
<1>13. Aimed'
  <2>1. \A q \in Procs : Recording(q)' => Recording(q) /\ op'[q] = op[q]
    BY <1>4, <1>7 DEF Recording
  <2>2. \A r : HasTarget(r) => HasTarget(r)'
    BY <1>8 DEF HasTarget
  <2> QED
    BY <2>1, <2>2 DEF IInv, Aimed
<1>14. \A id : OnFile(id) =>
         \E n \in DOMAIN files' : n.id = id /\ (files'[n].whole \/ files'[n].again)
  BY <1>3, <1>5, StaysOnFile
<1>18. Announced'
  <2>1. \A q \in Procs \ {p} : op'[q] = op[q]
    BY <1>7
  <2>2. \A q \in Procs \ {p} : op'[q].pc = "receipt" =>
          \E n \in DOMAIN files' : n.id = op'[q].id /\ (files'[n].whole \/ files'[n].again)
    BY <1>14, <2>1 DEF IInv, Announced
  <2>3. op'[p].pc = "receipt" =>
          \E n \in DOMAIN files' : n.id = op'[p].id /\ (files'[n].whole \/ files'[n].again)
    BY <1>2, <1>3, <1>4, <1>5, <1>7, <1>20
  <2>4. \A q \in Procs : op'[q].pc = "write" => op'[q].name.id = op'[q].rel.id
    BY <1>4, <1>7, <2>1 DEF IInv, Announced
  <2> QED
    BY <2>2, <2>3, <2>4 DEF Announced, OnFile
<1>15. RollbackToPrior'
  <2> SUFFICES ASSUME NEW i \in 1..Len(log'), log'[i].status = "rolled-back"
               PROVE  \E j \in 1..(i - 1) : log'[j].id = log'[i].to /\ log'[j].digest = log'[i].digest
    BY DEF RollbackToPrior
  <2>1. CASE i \in DOMAIN log
    <3>1. log'[i] = log[i]
      BY <1>8, <2>1
    <3>2. PICK j \in 1..(i - 1) : log[j].id = log[i].to /\ log[j].digest = log[i].digest
      BY <1>8, <2>1, <3>1 DEF IInv, RollbackToPrior
    <3>3. j \in DOMAIN log
      BY <1>8, <2>1, <3>2
    <3> QED
      BY <1>8, <3>1, <3>2, <3>3
  <2>2. CASE i = Len(log) + 1
    <3>1. log'[i] = rel
      BY <1>8, <2>2
    <3>2. PICK j \in DOMAIN log : log[j].id = rel.to /\ log[j].digest = rel.digest
      BY <1>2, <3>1 DEF HasTarget
    <3>3. j \in 1..(i - 1)
      BY <1>8, <2>2
    <3> QED
      BY <1>8, <3>1, <3>2, <3>3
  <2> QED
    BY <1>8, <2>1, <2>2
<1>16. ReceiptIsRecorded'
  <2>1. ASSUME NEW r \in receipts, r.status = "deployed" PROVE OnFile(r.id)
    BY <2>1 DEF IInv, ReceiptIsRecorded, OnFile
  <2> QED
    BY <1>1, <1>14, <2>1 DEF ReceiptIsRecorded
<1> QED
  BY <1>9, <1>10, <1>11, <1>12, <1>13, <1>15, <1>16, <1>18 DEF IInv

-----------------------------------------------------------------------------
(* The deliveries and the rollback.                                        *)
LEMMA RefuseStep ==
  ASSUME IInv, NEW p \in Procs, NEW status \in {"rejected", "ignored", "build-failed"},
         Refuse(p, status)
  PROVE  IInv'
<1> DEFINE r == [status |-> status, id |-> NoId]
<1>1. receipts' = receipts \cup {r} /\ UNCHANGED <<files, op, clock, log>>
  BY DEF Refuse
<1>2. r \in Receipts /\ r.status # "deployed"
  BY DEF Receipts
<1> HIDE DEF r
<1>3. receipts' \subseteq Receipts /\ ReceiptIsRecorded'
  BY <1>1, <1>2 DEF IInv, TypeOK, Receipts, ReceiptIsRecorded
<1>4. TypeOK'
  BY <1>1, <1>3 DEF IInv, TypeOK, Receipts, File, Activity
<1>5. RoomLeft' /\ Counted' /\ Sealed' /\ Aimed' /\ Announced' /\ RollbackToPrior'
  BY <1>1 DEF IInv, RoomLeft, Pending, Counted, Sealed, Readable, Logged, Recording, Aimed,
              HasTarget, Announced, OnFile, RollbackToPrior
<1> QED
  BY <1>3, <1>4, <1>5 DEF IInv

LEMMA PushStep ==
  ASSUME IInv, NEW p \in Procs, NEW src \in Sources, PushDeploys(p, src)
  PROVE  IInv'
<1> DEFINE rel == Release(src, "deployed", NoId, NoId)
<1>1. /\ op[p] = Idle /\ StartRecord(p, rel, "push")
      /\ UNCHANGED <<files, clock, log, receipts>>
  BY DEF PushDeploys
<1>2. rel \in Releases /\ rel.digest = BuildDigest(rel.source) /\ rel.status = "deployed"
  BY DEF Release, Releases, BuildDigest, Names, Ids, IInv, TypeOK
<1> HIDE DEF rel
<1>3. HasTarget(rel)
  BY <1>2 DEF HasTarget
<1> QED
  BY <1>1, <1>2, <1>3, StartStep

LEMMA ReceiptStep == ASSUME IInv, NEW p \in Procs, Receipt(p) PROVE IInv'
<1> DEFINE r == [status |-> "deployed", id |-> op[p].id]
<1>1. /\ op[p].pc = "receipt" /\ op[p] \in Activity /\ receipts' = receipts \cup {r}
      /\ Becomes(p, Idle) /\ UNCHANGED <<files, clock, log>>
  BY DEF Receipt, Becomes, IInv, TypeOK
<1>2. op[p].id \in Ids /\ OnFile(op[p].id)
  BY <1>1, Carries DEF IInv, Announced
<1>3. r \in Receipts /\ r.id = op[p].id
  BY <1>2 DEF Receipts
<1> HIDE DEF r
<1>4. receipts' \subseteq Receipts
  BY <1>1, <1>3 DEF IInv, TypeOK, Receipts
<1>6. ReceiptIsRecorded'
  BY <1>1, <1>2, <1>3 DEF IInv, ReceiptIsRecorded, OnFile
<1> QED
  BY <1>1, <1>4, <1>6, StopStep

LEMMA RollbackStep == ASSUME IInv, NEW p \in Procs, Rollback(p) PROVE IInv'
<1> DEFINE hist == History
<1>1. PICK target \in Targets(hist) :
        /\ target # << >>
        /\ StartRecord(p, Release(target[1].source, "rolled-back", hist[1].id, target[1].id), "cli")
  BY DEF Rollback
<1>2. /\ TypeOK /\ op[p] = Idle /\ hist # << >> /\ clock \in 0..MaxClock
      /\ UNCHANGED <<files, clock, log, receipts>>
  BY DEF Rollback, IInv, TypeOK
<1>3. PICK n \in Readable : target[1] = files[n].rel
  BY <1>1, <1>2, TargetRan
<1>4. \E m \in Readable : hist[1] = files[m].rel
  <2>1. 1 \in DOMAIN hist
    BY <1>2, HistoryRan
  <2> QED
    BY <1>2, <2>1, HistoryRan
<1>5. \A m \in Readable : files[m].rel \in Releases
  BY <1>2 DEF Readable, TypeOK, File
<1>6. target[1] \in Releases /\ hist[1] \in Releases
  BY <1>3, <1>4, <1>5
<1> DEFINE t == target[1]
           from == hist[1].id
           rel == Release(t.source, "rolled-back", from, t.id)
<1>7. t.source \in Sources /\ t.id \in Ids /\ from \in Ids
  BY <1>6 DEF Releases
<1>8. PICK i \in DOMAIN log : log[i] = t
  BY <1>3 DEF IInv, Sealed, Logged
<1>9. t.digest = BuildDigest(t.source)
  BY <1>8 DEF IInv, Sealed
<1> HIDE DEF hist, t, from
<1>10. /\ rel \in Releases /\ rel.digest = BuildDigest(t.source) /\ rel.source = t.source
       /\ rel.to = t.id
  BY <1>2, <1>7 DEF Release, Releases, BuildDigest, Names, Ids
<1>11. HasTarget(rel)
  BY <1>8, <1>9, <1>10 DEF HasTarget
<1>12. StartRecord(p, rel, "cli")
  BY <1>1 DEF t, from, hist
<1> HIDE DEF rel
<1> QED
  BY <1>2, <1>9, <1>10, <1>11, <1>12, StartStep DEF BuildDigest

LEMMA CrashStep == ASSUME IInv, NEW p \in Procs, Crash(p) PROVE IInv'
  BY StopStep, ReceiptsAsTheyWere DEF Crash, Becomes

LEMMA NoStep == ASSUME IInv, clock' \in 0..MaxClock, UNCHANGED <<files, op, log, receipts>> PROVE IInv'
<1>1. TypeOK'
  BY DEF IInv, TypeOK, File, Activity
<1>2. RoomLeft' /\ Counted' /\ Sealed' /\ Aimed' /\ Announced'
  BY DEF IInv, RoomLeft, Pending, Counted, Sealed, Readable, Logged, Recording, Aimed,
         HasTarget, Announced, OnFile
<1> QED
  BY <1>1, <1>2 DEF IInv, RollbackToPrior, ReceiptIsRecorded

LEMMA InvariantStep == IInv /\ [Next]_vars => IInv'
<1> SUFFICES ASSUME IInv, [Next]_vars PROVE IInv'
  OBVIOUS
<1>1. CASE UNCHANGED vars
  BY <1>1, NoStep DEF vars, IInv, TypeOK
<1>2. CASE Tick
  BY <1>2, NoStep, LedgerAssumption DEF Tick, IInv, TypeOK
<1>3. ASSUME NEW p \in Procs, RollbackRefused(p) PROVE IInv'
  BY <1>3, NoStep DEF RollbackRefused, vars, IInv, TypeOK
<1>4. ASSUME NEW p \in Procs, PushRejected(p) \/ PushIgnored(p) PROVE IInv'
  BY <1>4, RefuseStep DEF PushRejected, PushIgnored
<1>5. ASSUME NEW p \in Procs, NEW src \in Sources, PushUnbuildable(p, src) PROVE IInv'
  BY <1>5, RefuseStep DEF PushUnbuildable
<1> QED
  BY <1>1, <1>2, <1>3, <1>4, <1>5, CountStep, CreateStep, WriteStep, ReceiptStep, PushStep,
     RollbackStep, CrashStep DEF Next

LEMMA InitInvariant == Init => IInv
<1> SUFFICES ASSUME Init PROVE IInv
  OBVIOUS
<1>1. files = << >> /\ DOMAIN files = {} /\ log = << >> /\ DOMAIN log = {} /\ receipts = {}
  BY DEF Init
<1>2. IsFiniteSet({}) /\ Cardinality({}) = 0
  BY FS_EmptySet
<1>3. TypeOK
  <2>1. files \in [DOMAIN files -> File]
    BY <1>1
  <2>2. Idle \in Activity
    BY DEF Activity
  <2> QED
    BY <1>1, <1>2, <2>1, <2>2, LedgerAssumption DEF Init, TypeOK
<1>4. \A p \in Procs : op[p].pc = "idle"
  BY DEF Init, Idle
<1>5. RoomLeft
  <2>1. Pending = {}
    BY <1>4 DEF Pending
  <2> QED
    BY <1>1, <1>2, <2>1, LedgerAssumption DEF RoomLeft
<1>6. Counted /\ Sealed /\ Aimed /\ Announced
  BY <1>1, <1>4 DEF Counted, Sealed, Readable, Aimed, Announced, Recording
<1>7. RollbackToPrior /\ ReceiptIsRecorded
  BY <1>1 DEF RollbackToPrior, ReceiptIsRecorded
<1> QED
  BY <1>3, <1>5, <1>6, <1>7 DEF IInv

-----------------------------------------------------------------------------
(* Every reachable state satisfies the inductive invariant.                *)
THEOREM LedgerInvariant == Spec => []IInv
  BY InitInvariant, InvariantStep, PTL DEF Spec

(* Files, processes, log and receipts keep their types: no sequence number *)
(* leaves the bound.                                                       *)
THEOREM LedgerTyped == Spec => []TypeOK
<1>1. IInv => TypeOK
  BY DEF IInv
<1> QED
  BY <1>1, LedgerInvariant, PTL

(* A release whose record() began after another's file was complete comes  *)
(* before it in every history, whoever wrote in between, under the same    *)
(* number, in the same microsecond or died doing so.                       *)
THEOREM HistoryInOrder == Spec => []RealTimeOrder
<1>1. IInv => RealTimeOrder
  <2> SUFFICES ASSUME IInv, NEW n \in Readable, NEW m \in files[n].after, m \in Readable
               PROVE  Place(n) < Place(m)
    BY DEF RealTimeOrder
  <2>1. n \in DOMAIN files /\ m \in DOMAIN files
    BY DEF Readable
  <2>2. n.seq \in Int /\ m.seq \in Int
    BY <2>1, NameFields DEF IInv, TypeOK
  <2>3. m.seq < n.seq
    BY <2>1 DEF IInv, Counted
  <2>4. Newer(n, m)
    BY <2>2, <2>3 DEF Newer
  <2> QED
    BY <2>4, HistoryPlaces DEF IInv
<1> QED
  BY <1>1, LedgerInvariant, PTL

(* The history lists every file that can be read, once, in the place of    *)
(* its name, and nothing else.                                             *)
THEOREM HistoryComplete ==
  Spec => [](/\ \A n \in Readable : Place(n) \in DOMAIN History
                                    /\ History[Place(n)] = files[n].rel
             /\ \A n, m \in Readable : Place(n) = Place(m) => n = m
             /\ \A i \in DOMAIN History : \E n \in Readable : Place(n) = i)
<1>1. IInv => /\ \A n \in Readable : Place(n) \in DOMAIN History
                                     /\ History[Place(n)] = files[n].rel
              /\ \A n, m \in Readable : Place(n) = Place(m) => n = m
              /\ \A i \in DOMAIN History : \E n \in Readable : Place(n) = i
  BY HistoryPlaces DEF IInv
<1> QED
  BY <1>1, LedgerInvariant, PTL

(* Whatever the history a rollback resolved its target in, and whatever    *)
(* was recorded since, it goes back to a release that ran, and serves the  *)
(* image of that release.                                                  *)
THEOREM RollbackRan == Spec => []RollbackToPrior
<1>1. IInv => RollbackToPrior
  BY DEF IInv
<1> QED
  BY <1>1, LedgerInvariant, PTL

(* A pusher who is told of a release finds its file, complete, whatever    *)
(* died or was recorded since, unless another record() opened a file of    *)
(* the same number, microsecond and release.                               *)
THEOREM AnnouncedIsRecorded == Spec => []ReceiptIsRecorded
<1>1. IInv => ReceiptIsRecorded
  BY DEF IInv
<1> QED
  BY <1>1, LedgerInvariant, PTL
=============================================================================
