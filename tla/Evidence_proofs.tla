-------------------------- MODULE Evidence_proofs --------------------------
(***************************************************************************)
(* Proofs about Evidence, for every set of command lines, servers and      *)
(* verdicts, any number of seconds and any bounds: what is on disk when a  *)
(* decision is told, whatever overlaps, fails or dies.                     *)
(***************************************************************************)
EXTENDS Evidence, DataLemmas, SequenceTheorems

Writing(p) == proc[p].pc \in {"open", "fill"}
Telling(p) == proc[p].pc \in {"seal", "receipt", "answer"} /\ proc[p].d # 0

(* A decision is settled when it is on record and nobody still writes it.  *)
Settled(i) ==
  /\ i \in 1..Len(decisions)
  /\ OnRecord(i)
  /\ \A p \in Procs : Writing(p) => proc[p].d # i

(* Every decision being written is written by one process only.            *)
OneWriter ==
  \A p \in Procs : Writing(p) =>
    /\ proc[p].d \in 1..Len(decisions)
    /\ \A q \in Procs : Writing(q) /\ proc[q].d = proc[p].d => q = p

(* What is being filled was opened for a decision of that name, and is     *)
(* still empty if no other decision has it.                                *)
FillingOpened ==
  \A p \in Procs : At(p, "fill") =>
    LET i == proc[p].d
    IN  /\ decisions[i].name \in DOMAIN gates
        /\ gates[decisions[i].name].d \in Namesakes(i)
        /\ Namesakes(i) = {i} => gates[decisions[i].name].state = "empty"

TellingSettled == \A p \in Procs : Telling(p) => Settled(proc[p].d)
AnsweredSettled == \A i \in 1..Len(decisions) : decisions[i].answered => Settled(i)
ReceiptsSettled == \A n \in DOMAIN receipts : receipts[n].d # 0 => Settled(receipts[n].d)

ReceiptsOpened == \A p \in Procs : At(p, "receipt") => proc[p].name \in DOMAIN receipts

EvidenceInv ==
  /\ OneWriter /\ FillingOpened /\ ReceiptsOpened
  /\ TellingSettled /\ AnsweredSettled /\ ReceiptsSettled

IInv == TypeOK /\ EvidenceInv

-----------------------------------------------------------------------------
(* What a process carries.                                                 *)
LEMMA PhaseCarries ==
  ASSUME NEW c \in Phase
  PROVE  /\ c.pc \in {"idle", "open", "fill", "seal", "receipt", "answer"}
         /\ c.pc # "idle" => c.d \in Nat
         /\ c.pc = "seal" => /\ c.tool \in {"read", "unknown", "gate"}
                             /\ c.outcome \in {"allow", "refuse", "error"}
         /\ c.pc = "receipt" => c.name \in ReceiptName
<1> HIDE DEF ReceiptName
<1>1. CASE c = Idle
  BY <1>1 DEF Idle
<1>2. CASE c \in [pc : {"open", "fill", "answer"}, d : Nat]
  BY <1>2
<1>3. CASE c \in [pc : {"seal"}, tool : {"read", "unknown", "gate"},
                  outcome : {"allow", "refuse", "error"}, d : Nat]
  BY <1>3
<1>4. CASE c \in [pc : {"receipt"}, name : ReceiptName, d : Nat]
  BY <1>4
<1> QED
  BY <1>1, <1>2, <1>3, <1>4 DEF Phase

LEMMA DecisionsTyped ==
  ASSUME TypeOK
  PROVE  /\ Len(decisions) \in Nat /\ DOMAIN decisions = 1..Len(decisions)
         /\ decisions \in [1..Len(decisions) -> Decision]
         /\ \A i \in 1..Len(decisions) : decisions[i] \in Decision
BY LenProperties, ElementOfSeq DEF TypeOK

(* Opened and filled files.                                                *)
LEMMA OpenedProperties ==
  ASSUME NEW dir, NEW name, NEW d
  PROVE  /\ DOMAIN Opened(dir, name, d) = DOMAIN dir \cup {name}
         /\ Opened(dir, name, d)[name] = [d |-> d, state |-> "empty"]
         /\ \A n \in DOMAIN dir \ {name} : Opened(dir, name, d)[n] = dir[n]
BY DEF Opened

LEMMA FilledProperties ==
  ASSUME NEW dir, NEW name \in DOMAIN dir, NEW d, NEW new \in Filled(dir, name, d)
  PROVE  /\ DOMAIN new = DOMAIN dir
         /\ new[name].d = d /\ new[name].state \in {"whole", "torn"}
         /\ new[name] \in [d : {d}, state : {"whole", "torn"}]
         /\ dir[name].state = "empty" => new[name].state = "whole"
         /\ \A n \in DOMAIN dir \ {name} : new[n] = dir[n]
<1>1. PICK s \in IF dir[name].state = "empty" THEN {"whole"} ELSE {"whole", "torn"} :
        new = [dir EXCEPT ![name] = [d |-> d, state |-> s]]
  BY DEF Filled
<1> QED
  BY <1>1

-----------------------------------------------------------------------------
LEMMA InitInvariant == Init => IInv
<1> SUFFICES ASSUME Init PROVE IInv
  OBVIOUS
<1>1. TypeOK
  BY EmptySeq, ParamAssumption DEF Init, TypeOK, Phase
<1>2. /\ \A p \in Procs : proc[p].pc = "idle"
      /\ Len(decisions) = 0 /\ DOMAIN receipts = {}
  BY DEF Init, Idle
<1> QED
  BY <1>1, <1>2 DEF IInv, EvidenceInv, OneWriter, FillingOpened, ReceiptsOpened, TellingSettled, AnsweredSettled,
                    ReceiptsSettled, Writing, Telling, At

(* A process moves on without touching gate-decisions, and writes what it  *)
(* wrote before or nothing: what is settled stays so.                      *)
LEMMA MovesOn ==
  ASSUME IInv, NEW p \in Procs, NEW c, Goto(p, c), UNCHANGED <<gates, decisions>>,
         c.pc \notin {"open", "fill"},
         DOMAIN receipts \subseteq DOMAIN receipts',
         c.pc = "receipt" => c.name \in DOMAIN receipts',
         Telling(p)' => \/ Telling(p) /\ c.d = proc[p].d
                        \/ Settled(c.d)
  PROVE  /\ OneWriter' /\ FillingOpened' /\ ReceiptsOpened' /\ TellingSettled' /\ AnsweredSettled'
         /\ \A i : Settled(i) => Settled(i)'
<1>1. proc'[p] = c /\ \A q \in Procs \ {p} : proc'[q] = proc[q]
  BY DEF Goto, IInv, TypeOK
<1>2. \A q \in Procs : Writing(q)' => q # p /\ Writing(q) /\ proc'[q] = proc[q]
  BY <1>1 DEF Writing
<1>3. ASSUME NEW i, Settled(i) PROVE Settled(i)'
  BY <1>2, <1>3 DEF Settled, OnRecord, Namesakes
<1>4. OneWriter'
  BY <1>2 DEF IInv, EvidenceInv, OneWriter
<1>5. FillingOpened'
  <2> SUFFICES ASSUME NEW q \in Procs, At(q, "fill")'
               PROVE  LET i == proc'[q].d
                      IN  /\ decisions[i].name \in DOMAIN gates
                          /\ gates[decisions[i].name].d \in Namesakes(i)
                          /\ Namesakes(i) = {i} => gates[decisions[i].name].state = "empty"
    BY DEF FillingOpened, Namesakes
  <2>1. At(q, "fill") /\ proc'[q] = proc[q]
    BY <1>2 DEF At, Writing
  <2> QED
    BY <2>1 DEF IInv, EvidenceInv, FillingOpened
<1>6. TellingSettled'
  <2> SUFFICES ASSUME NEW q \in Procs, Telling(q)' PROVE Settled(proc[q].d)'
    BY DEF TellingSettled
  <2>1. CASE q = p
    BY <1>1, <1>3, <2>1 DEF IInv, EvidenceInv, TellingSettled
  <2>2. CASE q # p
    BY <1>1, <1>3, <2>2 DEF IInv, EvidenceInv, TellingSettled, Telling
  <2> QED
    BY <2>1, <2>2
<1>7. AnsweredSettled'
  BY <1>3 DEF IInv, EvidenceInv, AnsweredSettled
<1>8. ReceiptsOpened'
  BY <1>1 DEF IInv, EvidenceInv, ReceiptsOpened, At
<1> QED
  BY <1>3, <1>4, <1>5, <1>6, <1>7, <1>8

LEMMA PhaseOf ==
  ASSUME TypeOK, NEW p \in Procs, NEW c \in Phase, Goto(p, c)
  PROVE  proc' \in [Procs -> Phase]
BY DEF TypeOK, Goto

(* The phases an exception, a crash or a finished write leads to.          *)
LEMMA Phases ==
  /\ Idle \in Phase /\ Idle.pc = "idle"
  /\ \A d \in Nat, t \in {"read", "unknown", "gate"}, o \in {"allow", "refuse", "error"} :
       Sealing(t, o, d) \in Phase /\ Sealing(t, o, d).pc = "seal" /\ Sealing(t, o, d).d = d
  /\ \A d \in Nat, pc \in {"open", "fill", "answer"} : [pc |-> pc, d |-> d] \in Phase
BY DEF Idle, Sealing, Phase

(* Steps that leave both directories and the decisions alone.              *)
LEMMA QuietPreserves ==
  ASSUME IInv, NEW p \in Procs, NEW c \in Phase, Goto(p, c),
         UNCHANGED <<gates, receipts, decisions, clock>>,
         c.pc \notin {"open", "fill", "receipt"},
         Telling(p)' => Telling(p) /\ c.d = proc[p].d
  PROVE  IInv'
<1>1. TypeOK'
  BY PhaseOf DEF IInv, TypeOK
<1>2. /\ OneWriter' /\ FillingOpened' /\ ReceiptsOpened' /\ TellingSettled' /\ AnsweredSettled'
      /\ \A i : Settled(i) => Settled(i)'
  BY MovesOn
<1>3. ReceiptsSettled'
  BY <1>2 DEF IInv, EvidenceInv, ReceiptsSettled
<1> QED
  BY <1>1, <1>2, <1>3 DEF IInv, EvidenceInv

LEMMA RaisedPreserves ==
  ASSUME IInv, NEW p \in Procs, Raised(p), UNCHANGED <<gates, receipts, decisions, clock>>
  PROVE  IInv'
<1>1. PICK c \in {Idle, Sealing("gate", "error", 0)} : Goto(p, c)
  BY DEF Raised
<1>2. c \in Phase /\ c.pc \in {"idle", "seal"} /\ (c.pc = "seal" => c.d = 0)
  BY <1>1, Phases
<1>3. proc'[p] = c
  BY <1>1 DEF Goto, IInv, TypeOK
<1>4. ~ Telling(p)'
  BY <1>2, <1>3 DEF Telling
<1> QED
  BY <1>1, <1>2, <1>4, QuietPreserves

LEMMA CallPreserves == ASSUME IInv, NEW p \in Procs, Call(p) PROVE IInv'
<1>1. PICK t \in {"read", "unknown", "gate"}, o \in {"allow", "refuse", "error"} :
        Goto(p, Sealing(t, o, 0))
  <2>1. PICK c \in Calls(p) : Goto(p, Sealing(c[1], c[2], 0))
    BY DEF Call
  <2>2. c[1] \in {"read", "unknown", "gate"} /\ c[2] \in {"allow", "refuse", "error"}
    BY DEF Calls
  <2> QED
    BY <2>1, <2>2
<1> DEFINE c == Sealing(t, o, 0)
<1>2. c \in Phase /\ c.pc = "seal" /\ c.d = 0
  BY Phases
<1> HIDE DEF c
<1>3. proc'[p] = c
  BY <1>1 DEF Goto, IInv, TypeOK, c
<1>4. ~ Telling(p)'
  BY <1>2, <1>3 DEF Telling
<1>5. UNCHANGED <<gates, receipts, decisions, clock>> /\ Goto(p, c)
  BY <1>1 DEF Call, c
<1> QED
  BY <1>2, <1>4, <1>5, QuietPreserves

LEMMA CrashPreserves == ASSUME IInv, NEW p \in Procs, Crash(p) PROVE IInv'
<1>1. Goto(p, Idle) /\ UNCHANGED <<gates, receipts, decisions, clock>>
  BY DEF Crash
<1>2. proc'[p] = Idle
  BY <1>1 DEF Goto, IInv, TypeOK
<1>3. ~ Telling(p)'
  BY <1>2, Phases DEF Telling
<1> QED
  BY <1>1, <1>3, Phases, QuietPreserves

LEMMA ReceiptFailsPreserves == ASSUME IInv, NEW p \in Procs, ReceiptFails(p) PROVE IInv'
<1> DEFINE c == [pc |-> "answer", d |-> proc[p].d]
<1>1. proc[p] \in Phase /\ proc[p].pc \in {"seal", "receipt"}
  BY DEF ReceiptFails, IInv, TypeOK
<1>2. c \in Phase /\ c.pc = "answer" /\ c.d = proc[p].d
  BY <1>1, PhaseCarries, Phases
<1>3. Goto(p, c) /\ UNCHANGED <<gates, receipts, decisions, clock>>
  BY DEF ReceiptFails
<1> HIDE DEF c
<1>4. proc'[p] = c
  BY <1>3 DEF Goto, IInv, TypeOK
<1>5. Telling(p)' => Telling(p)
  BY <1>1, <1>2, <1>4 DEF Telling
<1> QED
  BY <1>2, <1>3, <1>5, QuietPreserves

-----------------------------------------------------------------------------
(* Receipts.                                                               *)
LEMMA OpenReceiptPreserves == ASSUME IInv, NEW p \in Procs, OpenReceipt(p) PROVE IInv'
<1> DEFINE name == [tool |-> proc[p].tool, outcome |-> proc[p].outcome, at |-> clock]
           d == proc[p].d
           c == [pc |-> "receipt", name |-> name, d |-> d]
<1>1. proc[p] \in Phase /\ proc[p].pc = "seal" /\ clock \in 0..MaxClock
  BY DEF OpenReceipt, At, IInv, TypeOK
<1>2. name \in ReceiptName /\ d \in Nat
  BY <1>1, PhaseCarries DEF ReceiptName
<1>3. c \in Phase /\ c.pc = "receipt" /\ c.d = d
  BY <1>2 DEF Phase
<1>4. /\ Goto(p, c) /\ UNCHANGED <<gates, decisions, clock>>
      /\ receipts' = Opened(receipts, name, d)
  BY DEF OpenReceipt
<1> HIDE DEF c, name
<1>5. proc'[p] = c
  BY <1>4 DEF Goto, IInv, TypeOK
<1>6. Telling(p)' => Telling(p)
  BY <1>1, <1>3, <1>5 DEF Telling
<1>7. /\ DOMAIN receipts' = DOMAIN receipts \cup {name}
      /\ receipts'[name] = [d |-> d, state |-> "empty"]
      /\ \A n \in DOMAIN receipts \ {name} : receipts'[n] = receipts[n]
  BY <1>4 DEF Opened
<1>8. /\ OneWriter' /\ FillingOpened' /\ ReceiptsOpened' /\ TellingSettled' /\ AnsweredSettled'
      /\ \A i : Settled(i) => Settled(i)'
  BY <1>3, <1>4, <1>6, <1>7, MovesOn DEF c
<1>9. TypeOK'
  BY <1>2, <1>3, <1>4, <1>7, PhaseOf DEF IInv, TypeOK, File
<1>10. d # 0 => Settled(d)
  BY <1>1 DEF IInv, EvidenceInv, TellingSettled, Telling
<1>11. ReceiptsSettled'
  BY <1>7, <1>8, <1>10 DEF IInv, EvidenceInv, ReceiptsSettled
<1> QED
  BY <1>8, <1>9, <1>11 DEF IInv, EvidenceInv

LEMMA FillReceiptPreserves == ASSUME IInv, NEW p \in Procs, FillReceipt(p) PROVE IInv'
<1> DEFINE name == proc[p].name
           d == proc[p].d
           c == [pc |-> "answer", d |-> d]
<1>1. proc[p] \in Phase /\ proc[p].pc = "receipt" /\ name \in DOMAIN receipts
  BY DEF FillReceipt, At, IInv, TypeOK, EvidenceInv, ReceiptsOpened
<1>2. d \in Nat /\ c \in Phase /\ c.pc = "answer" /\ c.d = d
  BY <1>1, PhaseCarries, Phases
<1>3. /\ Goto(p, c) /\ UNCHANGED <<gates, decisions, clock>>
      /\ receipts' \in Filled(receipts, name, d)
  BY DEF FillReceipt
<1> HIDE DEF c, name
<1>4. proc'[p] = c
  BY <1>3 DEF Goto, IInv, TypeOK
<1>5. Telling(p)' => Telling(p)
  BY <1>1, <1>2, <1>4 DEF Telling
<1>6. /\ DOMAIN receipts' = DOMAIN receipts /\ receipts'[name].d = d
      /\ receipts'[name] \in [d : {d}, state : {"whole", "torn"}]
      /\ \A n \in DOMAIN receipts \ {name} : receipts'[n] = receipts[n]
  <2> DEFINE new == receipts'
  <2>1. new \in Filled(receipts, name, d) /\ name \in DOMAIN receipts
    BY <1>1, <1>3
  <2> HIDE DEF new, d
  <2>2. /\ DOMAIN new = DOMAIN receipts /\ new[name].d = d
        /\ new[name] \in [d : {d}, state : {"whole", "torn"}]
        /\ \A n \in DOMAIN receipts \ {name} : new[n] = receipts[n]
    BY <2>1 DEF Filled
  <2> QED
    BY <2>2 DEF new
<1>7. /\ OneWriter' /\ FillingOpened' /\ ReceiptsOpened' /\ TellingSettled' /\ AnsweredSettled'
      /\ \A i : Settled(i) => Settled(i)'
  BY <1>2, <1>3, <1>5, <1>6, MovesOn
<1>8. TypeOK'
  BY <1>2, <1>3, <1>6, PhaseOf DEF IInv, TypeOK, File
<1>9. d # 0 => Settled(d)
  BY <1>1 DEF IInv, EvidenceInv, TellingSettled, Telling
<1>10. ReceiptsSettled'
  BY <1>6, <1>7, <1>9 DEF IInv, EvidenceInv, ReceiptsSettled
<1> QED
  BY <1>7, <1>8, <1>10 DEF IInv, EvidenceInv

-----------------------------------------------------------------------------
(* Decisions.                                                              *)

(* A new decision takes nothing from the others' evidence.                 *)
LEMMA DecidePreserves ==
  ASSUME IInv, NEW p \in Procs, NEW v \in Verdicts, Decide(p, v)
  PROVE  IInv'
<1> DEFINE N == Len(decisions)
           e == [name |-> Name(v), answered |-> FALSE,
                 promotion |-> IF v.sealed /\ v.verdict = "APPROVE" THEN "allow" ELSE "block"]
           c == [pc |-> "open", d |-> N + 1]
<1>1. /\ N \in Nat /\ decisions \in Seq(Decision) /\ DOMAIN decisions = 1..N
      /\ clock \in Int
  BY DecisionsTyped, ParamAssumption DEF IInv, TypeOK
<1>2. e \in Decision
  <2>1. clock \div Second \in Int
    BY <1>1, ParamAssumption
  <2> QED
    BY <2>1 DEF Decision, GateName, Name
<1>3. /\ decisions' = Append(decisions, e) /\ Goto(p, c)
      /\ UNCHANGED <<gates, receipts, clock>>
  BY DEF Decide
<1>4. c \in Phase /\ c.pc = "open" /\ c.d = N + 1
  BY <1>1 DEF Phase
<1> HIDE DEF c, e
<1>5. /\ decisions' \in Seq(Decision) /\ Len(decisions') = N + 1 /\ DOMAIN decisions' = 1..(N + 1)
      /\ \A i \in 1..N : decisions'[i] = decisions[i]
      /\ decisions'[N + 1] = e
  BY <1>1, <1>2, <1>3, AppendProperties, LenProperties
<1>6. proc'[p] = c /\ \A q \in Procs \ {p} : proc'[q] = proc[q]
  BY <1>3 DEF Goto, IInv, TypeOK
<1>7. \A i \in 1..N : Namesakes(i) \subseteq Namesakes(i)' /\ i \in Namesakes(i)
  BY <1>1, <1>5 DEF Namesakes
<1>8. ASSUME NEW i, Settled(i) PROVE Settled(i)'
  <2>1. i \in 1..N /\ OnRecord(i)
    BY <1>8 DEF Settled
  <2>2. OnRecord(i)'
    <3>1. decisions'[i] = decisions[i] /\ UNCHANGED gates
      BY <1>3, <1>5, <2>1
    <3> QED
      BY <1>7, <2>1, <3>1 DEF OnRecord
  <2>3. \A q \in Procs : Writing(q)' => proc'[q].d # i
    BY <1>1, <1>4, <1>6, <1>8, <2>1 DEF Settled, Writing
  <2> QED
    BY <1>1, <1>5, <2>1, <2>2, <2>3 DEF Settled
<1>9. OneWriter'
  BY <1>1, <1>4, <1>5, <1>6 DEF IInv, EvidenceInv, OneWriter, Writing
<1>10. FillingOpened'
  <2> SUFFICES ASSUME NEW q \in Procs, At(q, "fill")'
               PROVE  /\ decisions'[proc'[q].d].name \in DOMAIN gates'
                      /\ gates'[decisions'[proc'[q].d].name].d \in Namesakes(proc[q].d)'
                      /\ Namesakes(proc[q].d)' = {proc'[q].d} =>
                           gates'[decisions'[proc'[q].d].name].state = "empty"
    BY DEF FillingOpened
  <2> DEFINE i == proc[q].d
  <2>1. q # p /\ proc'[q] = proc[q] /\ At(q, "fill") /\ Writing(q)
    BY <1>4, <1>6 DEF At, Writing
  <2>2. i \in 1..N
    BY <2>1 DEF IInv, EvidenceInv, OneWriter
  <2>3. /\ decisions[i].name \in DOMAIN gates
        /\ gates[decisions[i].name].d \in Namesakes(i)
        /\ Namesakes(i) = {i} => gates[decisions[i].name].state = "empty"
    BY <2>1 DEF IInv, EvidenceInv, FillingOpened
  <2>4. decisions'[i] = decisions[i] /\ UNCHANGED gates
    BY <1>3, <1>5, <2>2
  <2>5. Namesakes(proc[q].d)' = {j \in DOMAIN decisions' : decisions'[j].name = decisions'[i].name}
    BY <2>1 DEF Namesakes
  <2>6. /\ Namesakes(i) \subseteq Namesakes(proc[q].d)'
        /\ Namesakes(proc[q].d)' = {i} => Namesakes(i) = {i}
    BY <1>1, <1>5, <2>2, <2>5 DEF Namesakes
  <2> HIDE DEF i
  <2> QED
    BY <2>1, <2>3, <2>4, <2>6 DEF i
<1>11. TellingSettled'
  <2> SUFFICES ASSUME NEW q \in Procs, Telling(q)' PROVE Settled(proc[q].d)'
    BY DEF TellingSettled
  <2>1. q # p /\ proc'[q] = proc[q] /\ Telling(q)
    BY <1>4, <1>6 DEF Telling
  <2>2. Settled(proc[q].d)
    BY <2>1 DEF IInv, EvidenceInv, TellingSettled
  <2>3. \A i : Settled(i) => Settled(i)'
    BY <1>8
  <2> QED
    BY <2>1, <2>2, <2>3
<1>12. AnsweredSettled'
  <2> SUFFICES ASSUME NEW i \in 1..Len(decisions'), decisions'[i].answered PROVE Settled(i)'
    BY DEF AnsweredSettled
  <2>1. i \in 1..N
    BY <1>1, <1>5 DEF e
  <2>2. Settled(i)
    BY <1>5, <2>1 DEF IInv, EvidenceInv, AnsweredSettled
  <2> QED
    BY <1>8, <2>2
<1>13. ReceiptsSettled' /\ ReceiptsOpened'
  <2>1. ReceiptsSettled'
    BY <1>3, <1>8 DEF IInv, EvidenceInv, ReceiptsSettled
  <2>2. ReceiptsOpened'
    BY <1>3, <1>4, <1>6 DEF IInv, EvidenceInv, ReceiptsOpened, At
  <2> QED
    BY <2>1, <2>2
<1>14. TypeOK'
  BY <1>3, <1>4, <1>5, PhaseOf DEF IInv, TypeOK
<1> QED
  BY <1>9, <1>10, <1>11, <1>12, <1>13, <1>14 DEF IInv, EvidenceInv

(* The other processes, and what they have open.                           *)
OthersStillOpened(p) ==
  \A q \in Procs \ {p} :
    /\ proc'[q] = proc[q]
    /\ At(q, "fill") =>
         /\ decisions[proc[q].d].name \in DOMAIN gates'
         /\ gates'[decisions[proc[q].d].name].d \in Namesakes(proc[q].d)
         /\ Namesakes(proc[q].d) = {proc[q].d} =>
              gates'[decisions[proc[q].d].name].state = "empty"

(* What the writer of decision d leaves of the evidence of the others.     *)
LEMMA GateWritten ==
  ASSUME IInv, NEW p \in Procs, Writing(p), NEW c, Goto(p, c),
         c.pc \in {"open", "fill"} => c.d = proc[p].d, c.pc # "receipt",
         UNCHANGED <<decisions, receipts>>,
         DOMAIN gates' = DOMAIN gates \cup {decisions[proc[p].d].name},
         gates'[decisions[proc[p].d].name].d = proc[p].d,
         \A n \in DOMAIN gates \ {decisions[proc[p].d].name} : gates'[n] = gates[n]
  PROVE  /\ OneWriter' /\ ReceiptsOpened' /\ ReceiptsSettled' /\ AnsweredSettled'
         /\ \A i : Settled(i) => Settled(i)'
         /\ proc'[p] = c
         /\ OthersStillOpened(p)
<1> DEFINE d == proc[p].d
           name == decisions[d].name
<1>1. proc'[p] = c /\ \A q \in Procs \ {p} : proc'[q] = proc[q]
  BY DEF Goto, IInv, TypeOK
<1>2. /\ d \in 1..Len(decisions) /\ DOMAIN decisions = 1..Len(decisions)
      /\ \A q \in Procs \ {p} : Writing(q) => proc[q].d # d /\ proc[q].d \in 1..Len(decisions)
  BY DecisionsTyped DEF IInv, EvidenceInv, OneWriter
<1>3. /\ DOMAIN gates' = DOMAIN gates \cup {name} /\ gates'[name].d = d
      /\ \A n \in DOMAIN gates \ {name} : gates'[n] = gates[n]
  OBVIOUS
<1> HIDE DEF d, name
<1>4. ASSUME NEW i \in 1..Len(decisions), i # d, decisions[i].name = name
      PROVE  d \in Namesakes(i) /\ Namesakes(i) # {i}
  BY <1>2, <1>4 DEF Namesakes, name
<1>5. ASSUME NEW i, Settled(i) PROVE Settled(i)'
  <2>1. i \in 1..Len(decisions) /\ OnRecord(i) /\ i # d
    BY <1>5 DEF Settled, d
  <2>2. OnRecord(i)'
    <3>1. Namesakes(i)' = Namesakes(i)
      BY DEF Namesakes
    <3>2. CASE decisions[i].name = name
      BY <1>3, <1>4, <2>1, <3>1, <3>2 DEF OnRecord
    <3>3. CASE decisions[i].name # name
      BY <1>3, <2>1, <3>1, <3>3 DEF OnRecord
    <3> QED
      BY <3>2, <3>3
  <2>3. \A q \in Procs : Writing(q)' => proc'[q].d # i
    BY <1>1, <1>5, <2>1 DEF Settled, Writing, d
  <2> QED
    BY <2>1, <2>2, <2>3 DEF Settled
<1>6. OneWriter'
  <2>1. \A q \in Procs : Writing(q)' => Writing(q) /\ proc'[q].d = proc[q].d
    BY <1>1 DEF Writing, d
  <2> QED
    BY <2>1 DEF IInv, EvidenceInv, OneWriter
<1>7. ASSUME NEW q \in Procs \ {p}, At(q, "fill")
      PROVE  /\ decisions[proc[q].d].name \in DOMAIN gates'
             /\ gates'[decisions[proc[q].d].name].d \in Namesakes(proc[q].d)
             /\ Namesakes(proc[q].d) = {proc[q].d} =>
                  gates'[decisions[proc[q].d].name].state = "empty"
  <2> DEFINE i == proc[q].d
  <2>1. Writing(q)
    BY <1>7 DEF Writing, At
  <2>2. i # d /\ i \in 1..Len(decisions)
    BY <1>2, <2>1
  <2>3. /\ decisions[i].name \in DOMAIN gates
        /\ gates[decisions[i].name].d \in Namesakes(i)
        /\ Namesakes(i) = {i} => gates[decisions[i].name].state = "empty"
    BY <1>7 DEF IInv, EvidenceInv, FillingOpened
  <2> HIDE DEF i
  <2>4. CASE decisions[i].name = name
    BY <1>3, <1>4, <2>2, <2>4 DEF i
  <2>5. CASE decisions[i].name # name
    BY <1>3, <2>3, <2>5 DEF i
  <2> QED
    BY <2>4, <2>5
<1>9. OthersStillOpened(p)
  BY <1>1, <1>7 DEF OthersStillOpened
<1>8. ReceiptsOpened' /\ ReceiptsSettled' /\ AnsweredSettled'
  <2>1. ReceiptsOpened'
    BY <1>1 DEF IInv, EvidenceInv, ReceiptsOpened, At
  <2>2. ReceiptsSettled'
    BY <1>5 DEF IInv, EvidenceInv, ReceiptsSettled
  <2>3. AnsweredSettled'
    BY <1>5 DEF IInv, EvidenceInv, AnsweredSettled
  <2> QED
    BY <2>1, <2>2, <2>3
<1> QED
  BY <1>1, <1>5, <1>6, <1>8, <1>9

LEMMA OpenFilePreserves == ASSUME IInv, NEW p \in Procs, OpenFile(p) PROVE IInv'
<1> DEFINE d == proc[p].d
           name == decisions[d].name
           c == [pc |-> "fill", d |-> d]
<1>1. /\ proc[p] \in Phase /\ proc[p].pc = "open" /\ Writing(p) /\ d \in 1..Len(decisions)
      /\ DOMAIN decisions = 1..Len(decisions) /\ decisions[d] \in Decision
  BY DecisionsTyped DEF OpenFile, At, Writing, IInv, TypeOK, EvidenceInv, OneWriter
<1>2. c \in Phase /\ c.pc = "fill" /\ c.d = d
  BY <1>1, PhaseCarries DEF Phase
<1>3. /\ Goto(p, c) /\ UNCHANGED <<receipts, decisions, clock>>
      /\ gates' = Opened(gates, name, d)
  BY DEF OpenFile
<1>4. /\ DOMAIN gates' = DOMAIN gates \cup {name} /\ gates'[name] = [d |-> d, state |-> "empty"]
      /\ \A n \in DOMAIN gates \ {name} : gates'[n] = gates[n]
  BY <1>3 DEF Opened
<1> HIDE DEF c
<1>5. /\ OneWriter' /\ ReceiptsOpened' /\ ReceiptsSettled' /\ AnsweredSettled'
      /\ \A i : Settled(i) => Settled(i)'
      /\ proc'[p] = c
      /\ OthersStillOpened(p)
  <2>1. gates'[name].d = d /\ c.pc # "receipt" /\ UNCHANGED <<decisions, receipts>>
    BY <1>2, <1>3, <1>4
  <2> QED
    BY <1>1, <1>2, <1>3, <1>4, <2>1, GateWritten
<1>6. FillingOpened'
  <2> SUFFICES ASSUME NEW q \in Procs, At(q, "fill")'
               PROVE  /\ decisions[proc'[q].d].name \in DOMAIN gates'
                      /\ gates'[decisions[proc'[q].d].name].d \in Namesakes(proc'[q].d)
                      /\ Namesakes(proc'[q].d) = {proc'[q].d} =>
                           gates'[decisions[proc'[q].d].name].state = "empty"
    BY <1>3 DEF FillingOpened, Namesakes
  <2>1. CASE q = p
    <3>1. proc'[q].d = d /\ d \in Namesakes(d)
      BY <1>1, <1>2, <1>5, <2>1 DEF Namesakes
    <3>2. name \in DOMAIN gates' /\ gates'[name].d = d /\ gates'[name].state = "empty"
      BY <1>4
    <3> HIDE DEF d
    <3> QED
      BY <3>1, <3>2
  <2>2. CASE q # p
    <3>1. proc'[q] = proc[q]
      BY <1>5, <2>2 DEF OthersStillOpened
    <3>2. At(q, "fill")
      BY <3>1 DEF At
    <3> QED
      BY <1>5, <2>2, <3>1, <3>2 DEF OthersStillOpened
  <2> QED
    BY <2>1, <2>2
<1>7. TellingSettled'
  BY <1>2, <1>5 DEF IInv, EvidenceInv, TellingSettled, Telling, OthersStillOpened
<1>8. TypeOK'
  <2>1. name \in GateName /\ d \in Nat
    BY <1>1 DEF Decision
  <2>2. [d |-> d, state |-> "empty"] \in File
    BY <2>1 DEF File
  <2> QED
    BY <1>2, <1>3, <1>4, <2>1, <2>2, PhaseOf DEF IInv, TypeOK
<1> QED
  BY <1>5, <1>6, <1>7, <1>8 DEF IInv, EvidenceInv

(* A decision whose evidence is filled is settled.                         *)
LEMMA FillFilePreserves == ASSUME IInv, NEW p \in Procs, FillFile(p) PROVE IInv'
<1> DEFINE d == proc[p].d
           name == decisions[d].name
<1>1. /\ proc[p] \in Phase /\ proc[p].pc = "fill" /\ Writing(p) /\ d \in 1..Len(decisions)
      /\ DOMAIN decisions = 1..Len(decisions)
      /\ name \in DOMAIN gates /\ (Namesakes(d) = {d} => gates[name].state = "empty")
  BY DecisionsTyped
     DEF FillFile, At, Writing, IInv, TypeOK, EvidenceInv, OneWriter, FillingOpened
<1>2. PICK c \in {[pc |-> "answer", d |-> d], Sealing("gate", "allow", d)} : Goto(p, c)
  BY DEF FillFile
<1>3. c \in Phase /\ c.pc \in {"answer", "seal"} /\ c.d = d
  <2>1. d \in Nat
    BY <1>1
  <2> HIDE DEF d
  <2> QED
    BY <1>2, <2>1 DEF Phase, Sealing
<1>4. /\ UNCHANGED <<receipts, decisions, clock>> /\ gates' \in Filled(gates, name, d)
  BY DEF FillFile
<1>5. /\ DOMAIN gates' = DOMAIN gates /\ gates'[name].d = d
      /\ gates'[name] \in [d : {d}, state : {"whole", "torn"}]
      /\ gates[name].state = "empty" => gates'[name].state = "whole"
      /\ \A n \in DOMAIN gates \ {name} : gates'[n] = gates[n]
  BY <1>1, <1>4, FilledProperties
<1>6. /\ OneWriter' /\ ReceiptsOpened' /\ ReceiptsSettled' /\ AnsweredSettled'
      /\ \A i : Settled(i) => Settled(i)'
      /\ proc'[p] = c
      /\ OthersStillOpened(p)
  <2>1. /\ c.pc \notin {"open", "fill", "receipt"} /\ UNCHANGED <<decisions, receipts>>
        /\ DOMAIN gates' = DOMAIN gates \cup {name}
    BY <1>1, <1>3, <1>4, <1>5
  <2> QED
    BY <1>1, <1>2, <1>5, <2>1, GateWritten
<1>7. FillingOpened'
  <2> SUFFICES ASSUME NEW q \in Procs, At(q, "fill")'
               PROVE  /\ decisions[proc'[q].d].name \in DOMAIN gates'
                      /\ gates'[decisions[proc'[q].d].name].d \in Namesakes(proc'[q].d)
                      /\ Namesakes(proc'[q].d) = {proc'[q].d} =>
                           gates'[decisions[proc'[q].d].name].state = "empty"
    BY <1>4 DEF FillingOpened, Namesakes
  <2>1. q # p
    BY <1>3, <1>6 DEF At
  <2>2. proc'[q] = proc[q]
    BY <1>6, <2>1 DEF OthersStillOpened
  <2>3. At(q, "fill")
    BY <2>2 DEF At
  <2> QED
    BY <1>6, <2>1, <2>2, <2>3 DEF OthersStillOpened
<1>8. \A i : i = d => Settled(i)'
  <2>1. \A q \in Procs : Writing(q)' => q # p /\ Writing(q) /\ proc'[q] = proc[q]
    BY <1>3, <1>6 DEF Writing, OthersStillOpened
  <2>2. \A q \in Procs : Writing(q)' => proc'[q].d # d
    BY <1>1, <2>1 DEF IInv, EvidenceInv, OneWriter
  <2>3. decisions'[d].name = name /\ d \in Namesakes(d)
    BY <1>1, <1>4 DEF Namesakes
  <2>4. /\ name \in DOMAIN gates' /\ gates'[name].d \in Namesakes(d)
        /\ Namesakes(d) = {d} => gates'[name].state = "whole"
    BY <1>1, <1>5, <2>3
  <2> HIDE DEF d, name
  <2>5. \A i : i = d => OnRecord(i)'
    BY <1>4, <2>3, <2>4 DEF OnRecord, Namesakes
  <2> QED
    BY <1>1, <1>4, <2>2, <2>5 DEF Settled
<1>9. TellingSettled'
  <2> SUFFICES ASSUME NEW q \in Procs, Telling(q)' PROVE Settled(proc[q].d)'
    BY DEF TellingSettled
  <2>1. CASE q = p
    <3>1. proc'[q].d = d
      BY <1>3, <1>6, <2>1
    <3> QED
      BY <1>8, <3>1 DEF Settled, OnRecord, Namesakes, Writing
  <2>2. CASE q # p
    <3>1. Telling(q) /\ proc'[q] = proc[q]
      BY <1>6, <2>2 DEF Telling, OthersStillOpened
    <3>2. Settled(proc[q].d)
      BY <3>1 DEF IInv, EvidenceInv, TellingSettled
    <3>3. \A i : i = proc[q].d => Settled(i)'
      BY <1>6, <3>2
    <3> QED
      BY <3>1, <3>3 DEF Settled, OnRecord, Namesakes, Writing
  <2> QED
    BY <2>1, <2>2
<1>10. TypeOK'
  <2>1. d \in Nat
    BY <1>1
  <2>2. gates'[name] \in File
    BY <1>5, <2>1 DEF File
  <2> QED
    BY <1>2, <1>3, <1>4, <1>5, <2>2, PhaseOf DEF IInv, TypeOK
<1> QED
  BY <1>6, <1>7, <1>9, <1>10 DEF IInv, EvidenceInv

-----------------------------------------------------------------------------
(* The answer, and time.                                                   *)
LEMMA AnswerPreserves == ASSUME IInv, NEW p \in Procs, Answer(p) PROVE IInv'
<1> DEFINE d == proc[p].d
           N == Len(decisions)
           new(i) == IF i = d THEN [name |-> decisions[i].name, answered |-> TRUE,
                                    promotion |-> decisions[i].promotion]
                     ELSE decisions[i]
<1>1. /\ proc[p] \in Phase /\ proc[p].pc = "answer" /\ d \in Nat /\ N \in Nat
      /\ DOMAIN decisions = 1..N /\ \A i \in 1..N : decisions[i] \in Decision
  BY DecisionsTyped, PhaseCarries DEF Answer, At, IInv, TypeOK
<1>2. /\ Goto(p, Idle) /\ UNCHANGED <<gates, receipts, clock>>
      /\ decisions' = [i \in DOMAIN decisions |->
           IF i = d THEN [decisions[i] EXCEPT !.answered = TRUE] ELSE decisions[i]]
  BY DEF Answer
<1>3. \A i \in 1..N : /\ decisions'[i] \in Decision /\ decisions'[i].name = decisions[i].name
                      /\ i # d => decisions'[i] = decisions[i]
  BY <1>1, <1>2 DEF Decision
<1>4. decisions' \in [1..N -> Decision] /\ DOMAIN decisions' = 1..N
  BY <1>1, <1>2, <1>3
<1>5. decisions' \in Seq(Decision) /\ Len(decisions') = N
  BY <1>1, <1>4, SeqDef
<1> HIDE DEF N
<1>6. proc'[p] = Idle /\ \A q \in Procs \ {p} : proc'[q] = proc[q]
  BY <1>2 DEF Goto, IInv, TypeOK
<1>7. \A q \in Procs : proc'[q].pc # "idle" => q # p /\ proc'[q] = proc[q]
  BY <1>6, Phases
<1>8. \A i \in 1..N : Namesakes(i)' = Namesakes(i)
  BY <1>1, <1>3, <1>4 DEF Namesakes
<1>9. ASSUME NEW i, Settled(i) PROVE Settled(i)'
  <2>1. i \in 1..N /\ OnRecord(i)
    BY <1>9 DEF Settled, N
  <2>2. OnRecord(i)'
    BY <1>2, <1>3, <1>8, <2>1 DEF OnRecord
  <2>3. \A q \in Procs : Writing(q)' => proc'[q].d # i
    BY <1>7, <1>9 DEF Settled, Writing
  <2> QED
    BY <1>5, <2>1, <2>2, <2>3 DEF Settled
<1>10. OneWriter'
  BY <1>5, <1>7 DEF IInv, EvidenceInv, OneWriter, Writing, N
<1>11. FillingOpened'
  <2> SUFFICES ASSUME NEW q \in Procs, At(q, "fill")'
               PROVE  /\ decisions'[proc'[q].d].name \in DOMAIN gates'
                      /\ gates'[decisions'[proc'[q].d].name].d \in Namesakes(proc[q].d)'
                      /\ Namesakes(proc[q].d)' = {proc'[q].d} =>
                           gates'[decisions'[proc'[q].d].name].state = "empty"
    BY DEF FillingOpened
  <2>1. proc'[q] = proc[q] /\ At(q, "fill") /\ Writing(q)
    BY <1>7 DEF At, Writing
  <2>2. proc[q].d \in 1..N
    BY <2>1 DEF IInv, EvidenceInv, OneWriter, N
  <2>3. Namesakes(proc[q].d)' = Namesakes(proc[q].d)
    BY <1>3, <1>4, <1>1, <2>1, <2>2 DEF Namesakes
  <2> DEFINE i == proc[q].d
  <2>4. /\ decisions[i].name \in DOMAIN gates /\ gates[decisions[i].name].d \in Namesakes(i)
        /\ Namesakes(i) = {i} => gates[decisions[i].name].state = "empty"
    BY <2>1 DEF IInv, EvidenceInv, FillingOpened
  <2>5. decisions'[i].name = decisions[i].name /\ UNCHANGED gates
    BY <1>2, <1>3, <2>2
  <2> QED
    BY <2>1, <2>3, <2>4, <2>5
<1>12. TellingSettled'
  <2> SUFFICES ASSUME NEW q \in Procs, Telling(q)' PROVE Settled(proc[q].d)'
    BY DEF TellingSettled
  <2>1. Telling(q) /\ proc'[q] = proc[q]
    BY <1>7 DEF Telling
  <2>2. Settled(proc[q].d)
    BY <2>1 DEF IInv, EvidenceInv, TellingSettled
  <2>3. \A i : i = proc[q].d => Settled(i)'
    BY <1>9, <2>2
  <2> QED
    BY <2>1, <2>3 DEF Settled, OnRecord, Namesakes, Writing
<1>13. AnsweredSettled'
  <2> SUFFICES ASSUME NEW i \in 1..Len(decisions'), decisions'[i].answered PROVE Settled(i)'
    BY DEF AnsweredSettled
  <2>1. i \in 1..N
    BY <1>5
  <2>2. CASE i = d
    <3>1. Telling(p) /\ proc[p].d = i
      BY <1>1, <2>1, <2>2 DEF Telling
    <3>2. Settled(i)
      BY <3>1 DEF IInv, EvidenceInv, TellingSettled
    <3> QED
      BY <1>9, <3>2
  <2>3. CASE i # d
    <3>1. decisions[i].answered
      BY <1>3, <2>1, <2>3
    <3>2. Settled(i)
      BY <2>1, <3>1 DEF IInv, EvidenceInv, AnsweredSettled, N
    <3> QED
      BY <1>9, <3>2
  <2> QED
    BY <2>2, <2>3
<1>14. ReceiptsSettled' /\ ReceiptsOpened'
  <2>1. ReceiptsSettled'
    BY <1>2, <1>9 DEF IInv, EvidenceInv, ReceiptsSettled
  <2>2. ReceiptsOpened'
    BY <1>2, <1>7 DEF IInv, EvidenceInv, ReceiptsOpened, At
  <2> QED
    BY <2>1, <2>2
<1>15. TypeOK'
  BY <1>2, <1>5, Phases, PhaseOf DEF IInv, TypeOK
<1> QED
  BY <1>10, <1>11, <1>12, <1>13, <1>14, <1>15 DEF IInv, EvidenceInv

(* What is settled depends on the files, the decisions and the processes.  *)
LEMMA EvidenceUnmoved ==
  ASSUME EvidenceInv, UNCHANGED <<gates, receipts, decisions, proc>>
  PROVE  EvidenceInv'
<1>1. OneWriter' /\ ReceiptsOpened'
  BY DEF EvidenceInv, OneWriter, ReceiptsOpened, Writing, At
<1>2. FillingOpened'
  BY DEF EvidenceInv, FillingOpened, Namesakes, At
<1>3. ASSUME NEW i, Settled(i) PROVE Settled(i)'
  BY <1>3 DEF Settled, OnRecord, Namesakes, Writing
<1>4. TellingSettled'
  BY <1>3 DEF EvidenceInv, TellingSettled, Telling
<1>5. AnsweredSettled' /\ ReceiptsSettled'
  BY <1>3 DEF EvidenceInv, AnsweredSettled, ReceiptsSettled
<1> QED
  BY <1>1, <1>2, <1>4, <1>5 DEF EvidenceInv

LEMMA TickPreserves == ASSUME IInv, Tick PROVE IInv'
<1>1. TypeOK'
  BY ParamAssumption DEF Tick, IInv, TypeOK
<1>2. UNCHANGED <<gates, receipts, decisions, proc>>
  BY DEF Tick
<1> QED
  BY <1>1, <1>2, EvidenceUnmoved DEF IInv

LEMMA InvariantStep == IInv /\ [Next]_vars => IInv'
<1> SUFFICES ASSUME IInv, [Next]_vars PROVE IInv'
  OBVIOUS
<1>1. CASE UNCHANGED vars
  <2>1. UNCHANGED <<gates, receipts, decisions, proc, clock>>
    BY <1>1 DEF vars
  <2>2. TypeOK'
    BY <2>1 DEF IInv, TypeOK
  <2> QED
    BY <2>1, <2>2, EvidenceUnmoved DEF IInv
<1>2. ASSUME NEW p \in Procs, NEW v \in Verdicts, DecideRaises(p, v) PROVE IInv'
  BY <1>2, RaisedPreserves DEF DecideRaises
<1>3. ASSUME NEW p \in Procs, WriteFails(p) PROVE IInv'
  BY <1>3, RaisedPreserves DEF WriteFails
<1>4. CASE Next
  BY <1>2, <1>3, <1>4, DecidePreserves, OpenFilePreserves, FillFilePreserves, CallPreserves,
     OpenReceiptPreserves, FillReceiptPreserves, ReceiptFailsPreserves, AnswerPreserves,
     CrashPreserves, TickPreserves DEF Next
<1> QED
  BY <1>1, <1>4

-----------------------------------------------------------------------------
(* Every reachable state satisfies the inductive invariant.                *)
THEOREM Invariant == Spec => []IInv
  BY InitInvariant, InvariantStep, PTL DEF Spec

(* Files, decisions and processes keep their types.                        *)
THEOREM TypeCorrect == Spec => []TypeOK
<1>1. IInv => TypeOK
  BY DEF IInv
<1> QED
  BY <1>1, Invariant, PTL

(* Nobody is told a decision whose evidence is not complete on disk, but   *)
(* for decisions on the same key in the same second.                       *)
THEOREM ToldIsOnRecord == Spec => []DecisionOnRecord
<1>1. IInv => DecisionOnRecord
  BY DecisionsTyped DEF IInv, EvidenceInv, AnsweredSettled, Settled, DecisionOnRecord
<1> QED
  BY <1>1, Invariant, PTL

(* No receipt of a gate call is without the evidence of its decision.      *)
THEOREM SealedIsOnRecord == Spec => []ReceiptHasEvidence
<1>1. IInv => ReceiptHasEvidence
  BY DEF IInv, EvidenceInv, ReceiptsSettled, Settled, ReceiptHasEvidence
<1> QED
  BY <1>1, Invariant, PTL

-----------------------------------------------------------------------------
(* The lists of evidence.  Only finitely many files were ever written, so  *)
(* that the names can be listed.                                           *)
Listable == IsFiniteSet(DOMAIN gates) /\ IsFiniteSet(DOMAIN receipts)

LEMMA ListableWritten ==
  ASSUME NEW dir, IsFiniteSet(DOMAIN dir), NEW name, NEW d, NEW dir2,
         dir2 = Opened(dir, name, d) \/ dir2 \in Filled(dir, name, d)
  PROVE  IsFiniteSet(DOMAIN dir2)
<1>1. CASE dir2 = Opened(dir, name, d)
  <2>1. DOMAIN dir2 = DOMAIN dir \cup {name}
    BY <1>1 DEF Opened
  <2> QED
    BY <2>1, FS_AddElement
<1>2. CASE dir2 \in Filled(dir, name, d)
  <2>1. DOMAIN dir2 = DOMAIN dir
    BY <1>2 DEF Filled
  <2> QED
    BY <2>1
<1> QED
  BY <1>1, <1>2

LEMMA ListableStep == Listable /\ [Next]_vars => Listable'
<1> SUFFICES ASSUME Listable, [Next]_vars PROVE Listable'
  OBVIOUS
<1>1. \/ gates' = gates
      \/ \E name, d : gates' = Opened(gates, name, d) \/ gates' \in Filled(gates, name, d)
  BY DEF Next, vars, Decide, DecideRaises, OpenFile, FillFile, WriteFails, Call, OpenReceipt,
         FillReceipt, ReceiptFails, Answer, Crash, Tick
<1>2. \/ receipts' = receipts
      \/ \E name, d : \/ receipts' = Opened(receipts, name, d)
                      \/ receipts' \in Filled(receipts, name, d)
  BY DEF Next, vars, Decide, DecideRaises, OpenFile, FillFile, WriteFails, Call, OpenReceipt,
         FillReceipt, ReceiptFails, Answer, Crash, Tick
<1>3. IsFiniteSet(DOMAIN gates')
  BY <1>1, ListableWritten DEF Listable
<1>4. IsFiniteSet(DOMAIN receipts')
  BY <1>2, ListableWritten DEF Listable
<1> QED
  BY <1>3, <1>4 DEF Listable

(* A function on 1..n is a sequence of its own values.                     *)
LEMMA FunctionIsSeq ==
  ASSUME NEW n \in Nat, NEW f, f = [i \in 1..n |-> f[i]]
  PROVE  /\ DOMAIN f = 1..n
         /\ Len(f) = n
         /\ f \in Seq({f[i] : i \in 1..n})
<1> DEFINE S == {f[i] : i \in 1..n}
<1>1. \A i \in 1..n : f[i] \in S
  OBVIOUS
<1>2. DOMAIN f = 1..n
  OBVIOUS
<1> HIDE DEF S
<1>3. f \in [1..n -> S]
  BY <1>1
<1>4. f \in Seq(S) /\ Len(f) = n
  BY <1>2, <1>3
<1> QED
  BY <1>2, <1>4 DEF S

(* The length at which a limit cuts a list.                                *)
Shorter(l, n) == IF l < n THEN l ELSE n

LEMMA ShorterLength ==
  ASSUME NEW l \in Nat, NEW n \in Nat
  PROVE  /\ Shorter(l, n) \in Nat /\ Shorter(l, n) <= l /\ Shorter(l, n) <= n
         /\ Shorter(l, n) = l \/ Shorter(l, n) = n
BY DEF Shorter

(* A cut list is the beginning of the list.                                *)
LEMMA CutBegins ==
  ASSUME NEW E, NEW s \in Seq(E), NEW l \in Nat, NEW m, m = Shorter(l, Len(s))
  PROVE  /\ Cut(s, l) \in Seq(E) /\ Len(Cut(s, l)) = m /\ DOMAIN Cut(s, l) = 1..m
         /\ \A i \in 1..m : Cut(s, l)[i] = s[i]
<1>1. m \in 0..Len(s) /\ Len(s) \in Nat
  BY ShorterLength
<1>2. Cut(s, l) = SubSeq(s, 1, m)
  BY DEF Cut, Shorter
<1>3. /\ Cut(s, l) \in Seq(E) /\ Len(Cut(s, l)) = m
      /\ \A i \in 1..m : Cut(s, l)[i] = s[i]
  BY <1>1, <1>2
<1>4. DOMAIN Cut(s, l) = 1..m
  BY <1>3
<1> QED
  BY <1>3, <1>4

(* A bundle names the first files of its list.                             *)
LEMMA BundleNames ==
  ASSUME NEW kind, NEW V, NEW names \in Seq(V), NEW l \in Nat,
         NEW m, m = Shorter(l, Len(names))
  PROVE  /\ \E E : Bundle(kind, names, l) \in Seq(E)
         /\ Len(Bundle(kind, names, l)) = m
         /\ \A i \in 1..m : /\ Bundle(kind, names, l)[i][1] = kind
                         /\ Bundle(kind, names, l)[i][2] = names[i]
<1> DEFINE b == Bundle(kind, names, l)
<1>1. Len(names) \in Nat
  OBVIOUS
<1>2. m \in Nat /\ DOMAIN Cut(names, l) = 1..m
  BY <1>1, CutBegins, ShorterLength
<1>3. b = [i \in 1..m |-> <<kind, names[i]>>]
  BY <1>2 DEF Bundle
<1> HIDE DEF b
<1>4. b = [i \in 1..m |-> b[i]]
  BY <1>3
<1>5. b \in Seq({b[i] : i \in 1..m}) /\ Len(b) = m
  BY <1>2, <1>4, FunctionIsSeq
<1>6. \A i \in 1..m : b[i][1] = kind /\ b[i][2] = names[i]
  <2>1. \A i \in 1..m : b[i] = <<kind, names[i]>>
    BY <1>3
  <2> QED
    BY <2>1
<1> QED
  BY <1>5, <1>6 DEF b

LEMMA GatesParts ==
  ASSUME NEW V, GateNames \in Seq(V), NEW l \in Nat
  PROVE  /\ Len(Gates(l)) = Shorter(l, Len(GateNames))
         /\ \A i \in 1..Shorter(l, Len(GateNames)) : /\ Gates(l)[i][1] = "gate"
                                                     /\ Gates(l)[i][2] = GateNames[i]
<1> DEFINE names == GateNames
           kind == "gate"
<1> HIDE DEF names, kind
<1>1. names \in Seq(V)
  BY DEF names
<1>2. /\ Len(Bundle(kind, names, l)) = Shorter(l, Len(names))
      /\ \A i \in 1..Shorter(l, Len(names)) : /\ Bundle(kind, names, l)[i][1] = kind
                                              /\ Bundle(kind, names, l)[i][2] = names[i]
  BY <1>1, BundleNames
<1> QED
  BY <1>2 DEF Gates, names, kind

LEMMA SeqWidens == ASSUME NEW E, NEW F, E \subseteq F, NEW s \in Seq(E) PROVE s \in Seq(F)
  OBVIOUS

(* The files of gate-decisions, by name.                                   *)
Later == UNION {LaterGates(n) \X {n} : n \in DOMAIN gates}

LEMMA LaterPairs ==
  \A m, n \in DOMAIN gates : /\ <<m, n>> \in Later <=> m \in LaterGates(n)
                             /\ m \in LaterGates(n) <=> LaterGate(m, n)
<1>1. \A m, n \in DOMAIN gates : <<m, n>> \in Later <=> m \in LaterGates(n)
  BY DEF Later
<1>2. \A m, n \in DOMAIN gates : m \in LaterGates(n) <=> LaterGate(m, n)
  BY DEF LaterGates
<1> QED
  BY <1>1, <1>2

LEMMA LaterOrders == ASSUME TypeOK PROVE Orders(Later, DOMAIN gates)
<1> DEFINE key(n) == Alphabet[n.key]
<1>2. \A n \in DOMAIN gates : key(n) \in Int /\ n.sec \in Int /\ n = [key |-> n.key, sec |-> n.sec]
  BY ParamAssumption DEF TypeOK, GateName
<1>3. \A m, n \in DOMAIN gates : key(m) = key(n) <=> m.key = n.key
  BY ParamAssumption DEF TypeOK, GateName
<1>4. \A m, n \in DOMAIN gates :
        LaterGate(m, n) <=> key(m) > key(n) \/ (key(m) = key(n) /\ m.sec > n.sec)
  BY <1>3 DEF LaterGate
<1> HIDE DEF key
<1>5. \A n \in DOMAIN gates : ~ LaterGate(n, n)
  BY <1>2, <1>4
<1>6. \A l, m, n \in DOMAIN gates : LaterGate(l, m) /\ LaterGate(m, n) => LaterGate(l, n)
  BY <1>2, <1>4
<1>7. \A m, n \in DOMAIN gates : m # n => LaterGate(m, n) \/ LaterGate(n, m)
  BY <1>2, <1>3, <1>4
<1> QED
  BY LaterPairs, <1>5, <1>6, <1>7 DEF Orders

(* Every file has a place in the list, behind the later names only.        *)
LEMMA GatesListed ==
  ASSUME TypeOK, Listable, NEW name \in DOMAIN gates, NEW n, n = Cardinality(DOMAIN gates)
  PROVE  /\ n \in Nat /\ GateNames = [i \in 1..n |-> GateNames[i]]
         /\ \E k \in 1..n : /\ GateNames[k] = name
                            /\ \A i \in 1..(k - 1) : LaterGate(GateNames[i], name)
<1> DEFINE S == DOMAIN gates
           R == Later
           nth(i) == CHOOSE x \in S : Cardinality(LaterGates(x)) = i - 1
<1>1. n \in Nat /\ IsFiniteSet(S) /\ Orders(R, S)
  BY LaterOrders, FS_CardinalityType DEF Listable
<1>2. \A x \in S : LaterGates(x) = Before(x, R, S)
  BY LaterPairs DEF Before, LaterGates
<1>3. GateNames = [i \in 1..n |-> nth(i)]
  BY Zenon DEF GateNames
<1>4. \A m, x \in S : <<m, x>> \in R <=> LaterGate(m, x)
  BY LaterPairs
<1> HIDE DEF R
<1>5. \A x \in S : Rank(x, R, S) \in 1..n
  BY <1>1, RankGrows
<1>6. \A x \in S : Cardinality(LaterGates(x)) \in Nat
  <2>1. \A x \in S : LaterGates(x) \in SUBSET S
    BY DEF LaterGates
  <2> QED
    BY <1>1, <2>1, FS_Subset, FS_CardinalityType
<1>7. \A x \in S : Rank(x, R, S) = Cardinality(LaterGates(x)) + 1
  BY <1>2 DEF Rank
<1>8. \A i \in 1..n : \E x \in S : Rank(x, R, S) = i
  BY <1>1, RankOnto
<1>9. \A x, y \in S : Rank(x, R, S) = Rank(y, R, S) => x = y
  BY <1>1, RankOnto
<1>10. \A x, y \in S : <<x, y>> \in R => Rank(x, R, S) < Rank(y, R, S)
  BY <1>1, RankGrows
<1> DEFINE rank(x) == Rank(x, R, S)
<1> HIDE DEF S, rank
<1>11. \A i \in 1..n : \E x \in S : Cardinality(LaterGates(x)) = i - 1
  BY <1>6, <1>7, <1>8
<1>12. \A i \in 1..n : nth(i) \in S /\ Cardinality(LaterGates(nth(i))) = i - 1
  BY <1>11
<1> HIDE DEF nth
<1>13. \A i \in 1..n : GateNames[i] = nth(i)
  BY <1>3
<1>14. \A i \in 1..n : GateNames[i] \in S /\ Rank(GateNames[i], R, S) = i
  BY <1>7, <1>12, <1>13
<1> DEFINE k == Rank(name, R, S)
<1>15. name \in S
  BY DEF S
<1>16. k \in 1..n
  BY <1>5, <1>15
<1> HIDE DEF k
<1>17. GateNames[k] = name
  <2>1. GateNames[k] \in S /\ Rank(GateNames[k], R, S) = Rank(name, R, S)
    BY <1>14, <1>16 DEF k
  <2> QED
    BY <1>9, <1>15, <2>1
<1>18. ASSUME NEW i \in 1..(k - 1) PROVE LaterGate(GateNames[i], name)
  <2>1. i \in 1..n /\ i < k /\ ~ (k < i)
    BY <1>1, <1>16
  <2>2. GateNames[i] \in S /\ Rank(GateNames[i], R, S) = i /\ Rank(name, R, S) = k
    BY <1>14, <2>1 DEF k
  <2>3. <<name, GateNames[i]>> \notin R /\ GateNames[i] # name
    BY <1>10, <1>15, <2>1, <2>2
  <2>4. <<GateNames[i], name>> \in R
    BY <1>1, <1>15, <2>2, <2>3 DEF Orders
  <2> QED
    BY <1>4, <1>15, <2>2, <2>4
<1>19. GateNames = [i \in 1..n |-> GateNames[i]]
  BY <1>3
<1> QED
  BY <1>1, <1>16, <1>17, <1>18, <1>19

(* Whatever comes behind the gate decisions does not hide one of them.     *)
LEMMA FirstBundleShows ==
  ASSUME TypeOK, Listable, NEW name \in DOMAIN gates, NEW l \in Nat,
         NEW E, Gates(l) \in Seq(E), NEW rest \in Seq(E)
  PROVE  Shows(Cut(Gates(l) \o rest, l), l, name)
<1>0. PICK n : n = Cardinality(DOMAIN gates)
  OBVIOUS
<1>1. n \in Nat /\ GateNames = [i \in 1..n |-> GateNames[i]]
  BY <1>0, GatesListed
<1>2. PICK k \in 1..n : /\ GateNames[k] = name
                        /\ \A i \in 1..(k - 1) : LaterGate(GateNames[i], name)
  BY <1>0, GatesListed
<1>3. PICK m : m = Shorter(l, n)
  OBVIOUS
<1>4. m \in Nat /\ m <= l /\ m <= n /\ (m = l \/ m = n)
  BY <1>1, <1>3, ShorterLength
<1> DEFINE a == Gates(l)
           u == a \o rest
           list == Cut(u, l)
<1>5. Len(a) = m /\ \A i \in 1..m : a[i][1] = "gate" /\ a[i][2] = GateNames[i]
  <2>1. PICK V : GateNames \in Seq(V)
    BY <1>1, FunctionIsSeq
  <2>2. Len(GateNames) = n
    BY <1>1, FunctionIsSeq
  <2> QED
    BY <1>3, <2>1, <2>2, GatesParts
<1>6. a \in Seq(E)
  OBVIOUS
<1> HIDE DEF a
<1>7. /\ u \in Seq(E) /\ Len(u) = m + Len(rest) /\ Len(rest) \in Nat /\ Len(u) \in Nat
      /\ \A i \in 1..m : u[i][1] = "gate" /\ u[i][2] = GateNames[i]
  <2>1. /\ u \in Seq(E) /\ Len(u) = Len(a) + Len(rest) /\ Len(rest) \in Nat /\ Len(u) \in Nat
        /\ \A i \in 1..Len(a) : u[i] = a[i]
    BY <1>6
  <2> HIDE DEF u
  <2> QED
    BY <1>5, <2>1
<1> HIDE DEF u
<1>8. PICK h : h = Shorter(l, Len(u))
  OBVIOUS
<1>9. h \in Nat /\ h <= l /\ h <= Len(u) /\ (h = l \/ h = Len(u)) /\ m <= h
  <2>1. h \in Nat /\ h <= l /\ h <= Len(u) /\ (h = l \/ h = Len(u))
    BY <1>7, <1>8, ShorterLength
  <2> QED
    BY <1>4, <1>7, <2>1
<1>10. Len(list) = h /\ DOMAIN list = 1..h /\ \A i \in 1..h : list[i] = u[i]
  <2>1. u \in Seq(E)
    BY <1>7
  <2> QED
    BY <1>8, <2>1, CutBegins
<1> HIDE DEF list
<1>11. CASE k <= l
  <2>1. k \in 1..m /\ k \in 1..h
    BY <1>1, <1>2, <1>4, <1>9, <1>11
  <2>2. list[k][1] = "gate" /\ list[k][2] = name
    BY <1>2, <1>7, <1>10, <2>1
  <2> QED
    BY <1>10, <2>1, <2>2 DEF Shows, list, u, a
<1>12. CASE ~ (k <= l)
  <2>1. m = l /\ h = l
    BY <1>1, <1>2, <1>4, <1>9, <1>12
  <2>2. \A i \in 1..h : i \in 1..m /\ i \in 1..(k - 1)
    BY <1>1, <1>2, <1>12, <2>1
  <2>3. \A i \in 1..h : list[i][1] = "gate" /\ list[i][2] = GateNames[i]
    BY <1>7, <1>10, <2>2
  <2>4. \A i \in DOMAIN list : list[i][1] = "gate" /\ LaterGate(list[i][2], name)
    BY <1>2, <1>10, <2>2, <2>3
  <2> QED
    BY <1>10, <2>1, <2>4 DEF Shows, list, u, a
<1> QED
  BY <1>11, <1>12

LEMMA ListsTyped ==
  ASSUME Listable, NEW l \in Nat
  PROVE  \E E : Gates(l) \in Seq(E) /\ Receipts(l) \in Seq(E) /\ Hooks(l) \in Seq(E)
<1> DEFINE g == Cardinality(DOMAIN gates)
           r == Cardinality(DOMAIN receipts)
           h == Len(Webhooks)
<1>1. g \in Nat /\ r \in Nat /\ h \in Nat
  BY FS_CardinalityType, ParamAssumption DEF Listable
<1>2. GateNames = [i \in 1..g |-> GateNames[i]]
  <2> DEFINE nth(i) == CHOOSE n \in DOMAIN gates : Cardinality(LaterGates(n)) = i - 1
  <2>1. GateNames = [i \in 1..g |-> nth(i)]
    BY Zenon DEF GateNames
  <2> HIDE DEF nth
  <2> QED
    BY <2>1
<1>3. ReceiptNames = [i \in 1..r |-> ReceiptNames[i]]
  <2> DEFINE nth(i) == CHOOSE n \in DOMAIN receipts : Cardinality(LaterReceipts(n)) = i - 1
  <2>1. ReceiptNames = [i \in 1..r |-> nth(i)]
    BY Zenon DEF ReceiptNames
  <2> HIDE DEF nth
  <2> QED
    BY <2>1
<1>4. Webhooks = [i \in 1..h |-> Webhooks[i]]
  BY ParamAssumption
<1> HIDE DEF g, r, h
<1>0. /\ \E V : GateNames \in Seq(V)
      /\ \E V : ReceiptNames \in Seq(V)
      /\ \E V : Webhooks \in Seq(V)
  BY <1>1, <1>2, <1>3, <1>4, FunctionIsSeq
<1>5. PICK A : Gates(l) \in Seq(A)
  BY <1>0, BundleNames DEF Gates
<1>6. PICK B : Receipts(l) \in Seq(B)
  BY <1>0, BundleNames DEF Receipts
<1>7. PICK C : Hooks(l) \in Seq(C)
  BY <1>0, BundleNames DEF Hooks
<1> DEFINE E == A \cup B \cup C
<1>8. Gates(l) \in Seq(E) /\ Receipts(l) \in Seq(E) /\ Hooks(l) \in Seq(E)
  BY <1>5, <1>6, <1>7, SeqWidens
<1> QED
  BY <1>8

(* A decision that was told can be seen, by people and agents: in a list   *)
(* of any length from zero on, only decisions with later names hide it.    *)
THEOREM ToldCanBeSeen == Spec => []ToldIsShown
<1>1. ASSUME TypeOK, Listable, NEW name \in DOMAIN gates, NEW l \in Nat
      PROVE  Shows(ListEvidence(l), l, name)
  <2>1. PICK E : Gates(l) \in Seq(E) /\ Receipts(l) \in Seq(E)
    BY <1>1, ListsTyped
  <2> QED
    BY <1>1, <2>1, FirstBundleShows DEF ListEvidence
<1>2. ASSUME TypeOK, Listable, NEW name \in DOMAIN gates
      PROVE  Shows(PortalEvidence, PortalLimit, name)
  <2> DEFINE a == Gates(PortalLimit)
             b == Receipts(PortalLimit)
             w == Hooks(PortalLimit)
  <2>1. PortalLimit \in Nat
    BY ParamAssumption
  <2>2. PICK E : a \in Seq(E) /\ b \in Seq(E) /\ w \in Seq(E)
    BY <1>2, <2>1, ListsTyped
  <2> HIDE DEF b, w
  <2>3. b \o w \in Seq(E)
    BY <2>2
  <2>4. Shows(Cut(a \o (b \o w), PortalLimit), PortalLimit, name)
    BY <1>2, <2>1, <2>2, <2>3, FirstBundleShows
  <2> HIDE DEF a
  <2>5. (a \o b) \o w = a \o (b \o w)
    BY <2>2
  <2> QED
    BY <2>4, <2>5 DEF PortalEvidence, a, b, w
<1>3. TypeOK /\ Listable /\ DecisionOnRecord => ToldIsShown
  BY <1>1, <1>2 DEF ToldIsShown, DecisionOnRecord, OnRecord
<1>4. Init => Listable
  BY FS_EmptySet DEF Init, Listable
<1> QED
  BY <1>3, <1>4, ListableStep, TypeCorrect, ToldIsOnRecord, PTL DEF Spec
=============================================================================
