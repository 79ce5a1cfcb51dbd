------------------------- MODULE Controllers_proofs -------------------------
(***************************************************************************)
(* Proofs about the two controllers, ControlLoop and CloudShell: for every *)
(* set of conditions, cooldown, quota and bound of the one, and for every  *)
(* set of users, number of concurrent launches and idle limit of the other.*)
(***************************************************************************)
EXTENDS ControlLoop, CloudShell, SequenceTheorems, TLAPS

-----------------------------------------------------------------------------
(* The control loop.                                                       *)

(* What makes DecidedOnce inductive: the ledger never runs ahead of        *)
(* _acted, and the condition being recorded was not cooling down when its  *)
(* remediation began.                                                      *)
ActedCovers ==
  \A i \in 1..Len(ledger) : ledger[i].at <= acted[ledger[i].key]

NotCooling ==
  phase = "recording" =>
    /\ queue # << >>
    /\ status \in Outcomes
    /\ ~ Cooling(queue[1].key)

(* What makes EveryActionRecorded inductive: while a remediation is being  *)
(* recorded, the ledger is one behind.                                     *)
OneBehind ==
  phase = "recording" =>
    /\ Len(actions) = Len(ledger) + 1
    /\ \A i \in 1..Len(ledger) : ledger[i].key = actions[i]
    /\ actions[Len(actions)] = queue[1].key

IInv == TypeOK /\ ActedCovers /\ NotCooling /\ DecidedOnce /\ EveryActionRecorded /\ OneBehind

Entry(t) == [key : Keys, outcome : Outcomes, at : 0..t]

-----------------------------------------------------------------------------
LEMMA SensedIsSequence ==
  ASSUME NEW conds \in BoundedSeq(Conditions, MaxConds)
  PROVE  conds \in Seq(Conditions)
<1>1. PICK m \in 0..MaxConds : conds \in [1..m -> Conditions]
  BY DEF BoundedSeq, SeqOf
<1>2. m \in Nat
  BY ParamAssumption
<1> QED
  BY <1>1, <1>2, SeqDef

LEMMA HeadTyped ==
  ASSUME TypeOK, queue # << >>
  PROVE  queue[1] \in Conditions /\ queue[1].key \in Keys /\ Tail(queue) \in Seq(Conditions)
  BY DEF TypeOK, Keys

LEMMA InitInvariant == Init => IInv
<1> SUFFICES ASSUME Init PROVE IInv
  OBVIOUS
<1>1. queue \in Seq(Conditions) /\ ledger \in Seq(Entry(now)) /\ actions \in Seq(Keys)
  BY DEF Init
<1>2. TypeOK
  BY <1>1, ParamAssumption DEF Init, TypeOK, Entry, Never
<1> QED
  BY <1>2 DEF Init, IInv, ActedCovers, NotCooling, DecidedOnce, EveryActionRecorded, OneBehind

-----------------------------------------------------------------------------
(* One lemma per action.                                                   *)

LEMMA TickBeginPreserves ==
  ASSUME IInv, NEW conds \in BoundedSeq(Conditions, MaxConds), TickBegin(conds)
  PROVE  IInv'
<1>1. now \in Nat /\ clock \in Nat /\ now' = clock /\ now <= now'
  BY DEF IInv, TypeOK, TickBegin
<1>2. ledger' \in Seq(Entry(now'))
  <2>1. Entry(now) \subseteq Entry(now')
    BY <1>1 DEF Entry
  <2> QED
    BY <2>1, SeqMonotonic DEF IInv, TypeOK, TickBegin, Entry
<1>3. TypeOK'
  BY <1>1, <1>2, SensedIsSequence DEF IInv, TypeOK, TickBegin, Entry
<1> QED
  BY <1>3 DEF IInv, TickBegin, ActedCovers, NotCooling, DecidedOnce, EveryActionRecorded, OneBehind

LEMMA SenseRaisesPreserves == ASSUME IInv, SenseRaises PROVE IInv'
<1>1. now \in Nat /\ clock \in Nat /\ now' = clock /\ now <= now'
  BY DEF IInv, TypeOK, SenseRaises
<1>2. ledger' \in Seq(Entry(now'))
  <2>1. Entry(now) \subseteq Entry(now')
    BY <1>1 DEF Entry
  <2> QED
    BY <2>1, SeqMonotonic DEF IInv, TypeOK, SenseRaises, Entry
<1>3. TypeOK'
  BY <1>1, <1>2 DEF IInv, TypeOK, SenseRaises, Entry
<1> QED
  BY <1>3 DEF IInv, SenseRaises, ActedCovers, NotCooling, DecidedOnce, EveryActionRecorded, OneBehind

LEMMA TickEndPreserves == ASSUME IInv, TickEnd PROVE IInv'
<1>1. TypeOK'
  BY DEF IInv, TypeOK, TickEnd
<1> QED
  BY <1>1 DEF IInv, TickEnd, ActedCovers, NotCooling, DecidedOnce, EveryActionRecorded, OneBehind

LEMMA SuppressPreserves == ASSUME IInv, Suppress PROVE IInv'
<1>1. TypeOK'
  BY HeadTyped DEF IInv, TypeOK, Suppress
<1> QED
  BY <1>1 DEF IInv, Suppress, ActedCovers, NotCooling, DecidedOnce, EveryActionRecorded, OneBehind

LEMMA RemediatePreserves ==
  ASSUME IInv, NEW result \in Outcomes, Remediate(result)
  PROVE  IInv'
<1>1. queue[1].key \in Keys
  BY HeadTyped DEF IInv, Remediate
<1>2. TypeOK'
  BY <1>1, ParamAssumption DEF IInv, TypeOK, Remediate, Outcomes
<1>3. NotCooling'
  BY DEF Remediate, NotCooling, Cooling
<1>4. OneBehind'
  BY <1>1, AppendProperties DEF IInv, TypeOK, EveryActionRecorded, Remediate, OneBehind
<1> QED
  BY <1>2, <1>3, <1>4 DEF IInv, Remediate, ActedCovers, DecidedOnce, EveryActionRecorded

(* The step that matters: the new record is a cooldown later than every    *)
(* other of its key.                                                       *)
LEMMA RecordPreserves == ASSUME IInv, Record PROVE IInv'
<1> DEFINE k == queue[1].key
           e == [key |-> k, outcome |-> status, at |-> now]
<1>1. /\ queue # << >> /\ k \in Keys /\ Tail(queue) \in Seq(Conditions)
      /\ status \in Outcomes /\ ~ Cooling(k) /\ now \in Nat
  BY HeadTyped DEF IInv, NotCooling, Record, TypeOK
<1>2. e \in Entry(now) /\ ledger \in Seq(Entry(now))
  BY <1>1 DEF Entry, IInv, TypeOK
<1>3. /\ ledger' = Append(ledger, e) /\ ledger' \in Seq(Entry(now))
      /\ Len(ledger) \in Nat /\ Len(ledger') = Len(ledger) + 1
      /\ ledger'[Len(ledger) + 1] = e
      /\ \A i \in 1..Len(ledger) : ledger'[i] = ledger[i] /\ ledger[i] \in Entry(now)
  BY <1>2, AppendProperties DEF Record
<1>4. /\ acted \in [Keys -> {Never} \cup 0..now] /\ acted' = [acted EXCEPT ![k] = now]
      /\ now' = now
  BY DEF IInv, TypeOK, Record
<1>5. TypeOK'
  BY <1>1, <1>3, <1>4 DEF IInv, TypeOK, Record, Entry
<1>6. ActedCovers'
  <2> SUFFICES ASSUME NEW i \in 1..Len(ledger') PROVE ledger'[i].at <= acted'[ledger'[i].key]
    BY DEF ActedCovers
  <2>1. CASE i = Len(ledger) + 1
    BY <1>1, <1>3, <1>4, <2>1
  <2>2. CASE i \in 1..Len(ledger)
    <3>1. /\ ledger'[i] = ledger[i] /\ ledger[i].key \in Keys /\ ledger[i].at \in 0..now
          /\ ledger[i].at <= acted[ledger[i].key]
      BY <1>3, <2>2 DEF IInv, ActedCovers, Entry
    <3> QED
      BY <1>1, <1>4, <3>1
  <2> QED
    BY <1>3, <2>1, <2>2
<1>7. DecidedOnce'
  <2> SUFFICES ASSUME NEW i \in 1..Len(ledger'), NEW j \in 1..Len(ledger'),
                      i < j, ledger'[i].key = ledger'[j].key
               PROVE  ledger'[j].at - ledger'[i].at >= Cooldown
    BY DEF DecidedOnce
  <2>1. i \in 1..Len(ledger) /\ ledger'[i] = ledger[i]
    BY <1>3
  <2>2. CASE j = Len(ledger) + 1
    <3>1. ledger[i].key = k /\ ledger'[j].at = now
      BY <1>3, <2>1, <2>2
    <3>2. ledger[i].at \in 0..now /\ ledger[i].at <= acted[k]
      BY <1>3, <2>1, <3>1 DEF IInv, ActedCovers, Entry
    <3>3. acted[k] # Never /\ acted[k] \in 0..now
      BY <1>1, <1>4, <3>2 DEF Never
    <3>4. now - acted[k] >= Cooldown
      BY <1>1, <3>3, ParamAssumption DEF Cooling
    <3> QED
      BY <1>1, <2>1, <3>1, <3>2, <3>3, <3>4, ParamAssumption
  <2>3. CASE j \in 1..Len(ledger)
    BY <1>3, <2>1, <2>3 DEF IInv, DecidedOnce
  <2> QED
    BY <1>3, <2>2, <2>3
<1>8. EveryActionRecorded'
  BY <1>3 DEF IInv, OneBehind, EveryActionRecorded, Record
<1> QED
  BY <1>5, <1>6, <1>7, <1>8 DEF IInv, Record, NotCooling, OneBehind

LEMMA RecordRaisesPreserves == ASSUME IInv, RecordRaises PROVE IInv'
<1> DEFINE k == queue[1].key
<1>1. k \in Keys /\ now \in Nat
  BY HeadTyped DEF IInv, NotCooling, RecordRaises, TypeOK
<1>2. /\ acted \in [Keys -> {Never} \cup 0..now] /\ acted' = [acted EXCEPT ![k] = now]
      /\ UNCHANGED <<now, ledger>>
  BY DEF IInv, TypeOK, RecordRaises
<1>3. TypeOK'
  BY <1>1, <1>2 DEF IInv, TypeOK, RecordRaises
<1>4. ActedCovers'
  <2> SUFFICES ASSUME NEW i \in 1..Len(ledger) PROVE ledger[i].at <= acted'[ledger[i].key]
    BY <1>2 DEF ActedCovers
  <2>1. ledger[i].key \in Keys /\ ledger[i].at \in 0..now /\ ledger[i].at <= acted[ledger[i].key]
    <3>1. ledger \in Seq(Entry(now))
      BY DEF IInv, TypeOK, Entry
    <3>2. ledger[i] \in Entry(now)
      BY <3>1, ElementOfSeq
    <3> QED
      BY <3>2 DEF Entry, IInv, ActedCovers
  <2> QED
    BY <1>1, <1>2, <2>1
<1> QED
  BY <1>3, <1>4 DEF IInv, RecordRaises, NotCooling, DecidedOnce, EveryActionRecorded, OneBehind

LEMMA TickPreserves == ASSUME IInv, Tick PROVE IInv'
<1>1. TypeOK'
  BY ParamAssumption DEF IInv, TypeOK, Tick
<1> QED
  BY <1>1 DEF IInv, Tick, ActedCovers, NotCooling, Cooling, DecidedOnce, EveryActionRecorded, OneBehind

LEMMA InvariantStep == IInv /\ [Next]_vars => IInv'
<1> SUFFICES ASSUME IInv, [Next]_vars PROVE IInv'
  OBVIOUS
<1>1. CASE UNCHANGED vars
  BY <1>1 DEF vars, IInv, TypeOK, ActedCovers, NotCooling, Cooling, DecidedOnce,
              EveryActionRecorded, OneBehind
<1>2. CASE Loop
  BY <1>2, TickEndPreserves, SuppressPreserves, RecordPreserves, RecordRaisesPreserves,
     RemediatePreserves DEF Loop, Outcomes
<1> QED
  BY <1>1, <1>2, TickBeginPreserves, SenseRaisesPreserves, TickPreserves DEF Next, Dead

-----------------------------------------------------------------------------
(* Every reachable state of the loop satisfies the inductive invariant.    *)
THEOREM Invariant == Spec => []IInv
  BY InitInvariant, InvariantStep, PTL DEF Spec

(* Every field keeps its type; in particular no more dispatches are        *)
(* charged than the quota, and no record is of the future.                 *)
THEOREM TypeCorrect == Spec => []TypeOK
<1>1. IInv => TypeOK
  BY DEF IInv
<1> QED
  BY <1>1, Invariant, PTL

(* "It decides a persistent condition ONCE per cooldown", for every        *)
(* cooldown, however many conditions a tick senses and however often the   *)
(* same.                                                                   *)
THEOREM OncePerCooldown == Spec => []DecidedOnce
<1>1. IInv => DecidedOnce
  BY DEF IInv
<1> QED
  BY <1>1, Invariant, PTL

(* "Sealing every action": between ticks nothing that was done is missing  *)
(* from the ledger, or out of order in it.                                 *)
THEOREM NothingUnrecorded == Spec => []EveryActionRecorded
<1>1. IInv => EveryActionRecorded
  BY DEF IInv
<1> QED
  BY <1>1, Invariant, PTL

-----------------------------------------------------------------------------
(* The cloud-shell spawner and culler.                                     *)

Holding(h) == handler[h].step > 0 /\ handler[h].fresh

(* A handler whose Get is still up to date holds a time no older than the  *)
(* annotation it is about to replace.                                      *)
FreshIsYounger ==
  \A h \in Handlers :
    Holding(h) => dep[handler[h].user] # Absent /\ handler[h].age <= dep[handler[h].user]

(* What the culler has seen is still so, except for launches since.        *)
ListingHolds ==
  \A u \in Users \ launched :
    /\ culler.phase = "listed" => dep[u] = culler.seen[u]
    /\ culler.phase = "cull" /\ u \in culler.victims => dep[u] = Absent \/ dep[u] > Idle

ShellInv == ShellTypeOK /\ FreshIsYounger /\ ListingHolds

-----------------------------------------------------------------------------
LEMMA CallNumbers ==
  /\ Len(Calls) = 8
  /\ \A k \in 1..8 : /\ Calls[k] = "get" => k = 6
                     /\ Calls[k] = "update" => k = 7
  BY DEF Calls

LEMMA OlderProperties ==
  /\ \A a \in Ages \cup {Absent} : /\ Older(a) \in Ages \cup {Absent}
                                   /\ a = Absent <=> Older(a) = Absent
  /\ \A a \in Ages, b \in Ages : a <= b => Older(a) <= Older(b)
  /\ \A a \in Ages : a > Idle => Older(a) > Idle
  BY IdleAssumption DEF Older, Ages, Old, Absent

(* What the next call of a handler leaves of the others' knowledge.        *)
LEMMA AdvanceEffect ==
  ASSUME ShellTypeOK, NEW h \in Handlers, handler[h].step > 0, NEW k \in Nat \ {0}, NEW touched,
         Advance(h, k, touched)
  PROVE  /\ handler' \in [Handlers -> {Free} \cup Request]
         /\ \A g \in Handlers : Holding(g)' =>
              handler'[g] = handler[g] /\ handler[g].user \notin touched
<1>1. handler[h] \in Request
  BY DEF ShellTypeOK, Free
<1>2. ASSUME NEW g \in Handlers
      PROVE  /\ handler'[g] \in {Free} \cup Request
             /\ Holding(g)' => handler'[g] = handler[g] /\ handler[g].user \notin touched
  <2>1. CASE g = h /\ k > Len(Calls)
    BY <2>1 DEF Advance, Holding, Free
  <2>2. CASE g = h /\ ~ (k > Len(Calls))
    <3>1. handler'[g] = [user |-> handler[h].user, step |-> k, fresh |-> FALSE, age |-> 0]
      BY <2>2 DEF Advance
    <3>2. k \in 1..Len(Calls) /\ 0 \in Ages
      BY <2>2, CallNumbers, IdleAssumption DEF Ages, Old
    <3> QED
      BY <1>1, <3>1, <3>2 DEF Holding, Request
  <2>3. CASE g # h /\ handler[g].step > 0 /\ handler[g].user \in touched
    <3>1. handler[g] \in Request /\ handler'[g] = [handler[g] EXCEPT !.fresh = FALSE]
      BY <2>3 DEF Advance, ShellTypeOK, Free
    <3> QED
      BY <3>1 DEF Holding, Request
  <2>4. CASE g # h /\ ~ (handler[g].step > 0 /\ handler[g].user \in touched)
    <3>1. handler'[g] = handler[g]
      BY <2>4 DEF Advance
    <3> QED
      BY <2>4, <3>1 DEF Holding, ShellTypeOK
  <2> QED
    BY <2>1, <2>2, <2>3, <2>4
<1>3. handler' = [g \in Handlers |-> handler'[g]]
  BY DEF Advance
<1> QED
  BY <1>2, <1>3

LEMMA ShellInitInvariant == ShellInit => ShellInv
<1> SUFFICES ASSUME ShellInit PROVE ShellInv
  OBVIOUS
<1>1. ShellTypeOK
  BY DEF ShellInit, ShellTypeOK, Listing, Waiting
<1> QED
  BY <1>1 DEF ShellInit, ShellInv, FreshIsYounger, Holding, Free, ListingHolds, Waiting

-----------------------------------------------------------------------------
(* The spawner.                                                            *)

LEMMA LaunchPreserves ==
  ASSUME ShellInv, NEW h \in Handlers, NEW u \in Users, Launch(h, u)
  PROVE  ShellInv'
<1> DEFINE r == [user |-> u, step |-> 1, fresh |-> FALSE, age |-> 0]
<1>1. r \in Request
  BY CallNumbers, IdleAssumption DEF Request, Ages, Old
<1>2. ShellTypeOK'
  BY <1>1 DEF ShellInv, ShellTypeOK, Launch
<1>3. FreshIsYounger'
  <2> SUFFICES ASSUME NEW g \in Handlers, Holding(g)'
               PROVE  dep[handler'[g].user] # Absent /\ handler'[g].age <= dep[handler'[g].user]
    BY DEF FreshIsYounger, Launch
  <2>1. g # h
    BY DEF ShellInv, ShellTypeOK, Launch, Holding
  <2>2. handler'[g] = handler[g]
    BY <2>1 DEF ShellInv, ShellTypeOK, Launch
  <2> QED
    BY <2>2 DEF ShellInv, FreshIsYounger, Holding
<1> QED
  BY <1>2, <1>3 DEF ShellInv, ListingHolds, Launch

(* A call that creates an object or fails.                                 *)
LEMMA OtherCallsPreserve ==
  ASSUME ShellInv, NEW h \in Handlers, CallFails(h) \/ EnsureExtra(h)
  PROVE  ShellInv'
<1>1. /\ handler[h].step > 0 /\ UNCHANGED <<dep, culler, launched>>
      /\ \E k \in Nat \ {0} : Advance(h, k, {})
  <2>1. handler[h].step > 0
    BY DEF CallFails, EnsureExtra, Busy
  <2>2. handler[h].step \in Nat
    BY <2>1 DEF ShellInv, ShellTypeOK, Free, Request
  <2> QED
    BY <2>1, <2>2 DEF CallFails, EnsureExtra
<1>2. extras' \in [Users -> SUBSET Extra]
  BY DEF ShellInv, ShellTypeOK, CallFails, EnsureExtra
<1>3. ShellTypeOK'
  BY <1>1, <1>2, AdvanceEffect DEF ShellInv, ShellTypeOK
<1>4. FreshIsYounger'
  BY <1>1, AdvanceEffect DEF ShellInv, FreshIsYounger, Holding
<1> QED
  BY <1>1, <1>3, <1>4 DEF ShellInv, ListingHolds

(* The Deployment of the user is created, or its annotation set, to an age *)
(* no greater than before: those who had read it must read it again.       *)
LEMMA SetPreserves ==
  ASSUME ShellInv, NEW h \in Handlers, handler[h].step > 0, NEW a \in Ages,
         dep' = [dep EXCEPT ![handler[h].user] = a],
         Advance(h, handler[h].step + 1, {handler[h].user}),
         launched' = launched \cup {handler[h].user},
         UNCHANGED <<extras, culler>>
  PROVE  ShellInv'
<1>1. handler[h] \in Request /\ handler[h].user \in Users /\ handler[h].step + 1 \in Nat \ {0}
  BY DEF ShellInv, ShellTypeOK, Free, Request
<1>2. ShellTypeOK'
  BY <1>1, AdvanceEffect DEF ShellInv, ShellTypeOK, Listing
<1>3. FreshIsYounger'
  <2> SUFFICES ASSUME NEW g \in Handlers, Holding(g)'
               PROVE  dep'[handler'[g].user] # Absent /\ handler'[g].age <= dep'[handler'[g].user]
    BY DEF FreshIsYounger
  <2>1. handler'[g] = handler[g] /\ handler[g].user # handler[h].user
    BY <1>1, AdvanceEffect DEF ShellInv
  <2>2. Holding(g)
    BY <2>1 DEF Holding
  <2>3. handler[g].user \in Users
    BY <2>2 DEF Holding, ShellInv, ShellTypeOK, Free, Request
  <2>4. dep'[handler[g].user] = dep[handler[g].user]
    BY <2>1, <2>3 DEF ShellInv, ShellTypeOK, Listing
  <2> QED
    BY <2>1, <2>2, <2>4 DEF ShellInv, FreshIsYounger
<1>4. ListingHolds'
  BY <1>1 DEF ShellInv, ShellTypeOK, Listing, ListingHolds
<1> QED
  BY <1>2, <1>3, <1>4 DEF ShellInv

LEMMA EnsureDeploymentPreserves ==
  ASSUME ShellInv, NEW h \in Handlers, EnsureDeployment(h)
  PROVE  ShellInv'
<1>1. handler[h].step > 0 /\ handler[h].step + 1 \in Nat \ {0}
  BY DEF ShellInv, ShellTypeOK, EnsureDeployment, Busy, Free, Request
<1>2. CASE dep[handler[h].user] = Absent
  <2>1. 0 \in Ages
    BY IdleAssumption DEF Ages, Old
  <2> QED
    BY <1>1, <1>2, <2>1, SetPreserves DEF EnsureDeployment
<1>3. CASE dep[handler[h].user] # Absent
  <2>1. Advance(h, handler[h].step + 1, {}) /\ UNCHANGED <<dep, extras, culler, launched>>
    BY <1>3 DEF EnsureDeployment
  <2>2. ShellTypeOK'
    BY <1>1, <2>1, AdvanceEffect DEF ShellInv, ShellTypeOK
  <2>3. FreshIsYounger'
    BY <1>1, <2>1, AdvanceEffect DEF ShellInv, FreshIsYounger, Holding
  <2> QED
    BY <2>1, <2>2, <2>3 DEF ShellInv, ListingHolds
<1> QED
  BY <1>2, <1>3

LEMMA PatchGetPreserves ==
  ASSUME ShellInv, NEW h \in Handlers, PatchGet(h)
  PROVE  ShellInv'
<1> DEFINE r == [user |-> handler[h].user, step |-> handler[h].step + 1,
                 fresh |-> TRUE, age |-> 0]
<1>1. handler[h] \in Request /\ handler[h].step = 6 /\ 0 \in Ages
  <2>1. handler[h] \in Request
    BY DEF ShellInv, ShellTypeOK, PatchGet, Busy, Free
  <2>2. handler[h].step \in 1..8 /\ Calls[handler[h].step] = "get"
    BY <2>1, CallNumbers DEF PatchGet, Busy, Request
  <2> QED
    BY <2>1, <2>2, CallNumbers, IdleAssumption DEF Ages, Old
<1>2. /\ handler' = [handler EXCEPT ![h] = r]
      /\ r \in Request /\ r.user = handler[h].user /\ r.age = 0
  <2>1. 6 + 1 \in 1..Len(Calls)
    BY CallNumbers
  <2>2. r \in Request
    BY <1>1, <2>1 DEF Request
  <2>3. handler' = [handler EXCEPT ![h] = r]
    BY DEF PatchGet
  <2> QED
    BY <2>2, <2>3
<1> HIDE DEF r
<1>3. ShellTypeOK'
  <2>1. UNCHANGED <<dep, extras, culler, launched>>
    BY DEF PatchGet
  <2>2. handler' \in [Handlers -> {Free} \cup Request]
    BY <1>2 DEF ShellInv, ShellTypeOK
  <2> QED
    BY <2>1, <2>2 DEF ShellInv, ShellTypeOK
<1>4. FreshIsYounger'
  <2> SUFFICES ASSUME NEW g \in Handlers, Holding(g)'
               PROVE  dep[handler'[g].user] # Absent /\ handler'[g].age <= dep[handler'[g].user]
    BY DEF FreshIsYounger, PatchGet
  <2>1. CASE g = h
    <3>1. handler'[g] = r /\ handler[h].user \in Users /\ dep[handler[h].user] # Absent
      BY <1>1, <1>2, <2>1 DEF ShellInv, ShellTypeOK, PatchGet, Request
    <3>2. dep[handler[h].user] \in Ages
      BY <3>1 DEF ShellInv, ShellTypeOK, Listing
    <3> QED
      BY <1>2, <3>1, <3>2 DEF Ages
  <2>2. CASE g # h
    <3>1. handler'[g] = handler[g]
      BY <1>2, <2>2 DEF ShellInv, ShellTypeOK
    <3> QED
      BY <3>1 DEF Holding, ShellInv, FreshIsYounger
  <2> QED
    BY <2>1, <2>2
<1> QED
  BY <1>3, <1>4 DEF ShellInv, ListingHolds, PatchGet

LEMMA PatchUpdatePreserves ==
  ASSUME ShellInv, NEW h \in Handlers, PatchUpdate(h)
  PROVE  ShellInv'
<1>1. handler[h].step > 0 /\ handler[h].age \in Ages
  BY DEF ShellInv, ShellTypeOK, PatchUpdate, Busy, Free, Request
<1> QED
  BY <1>1, SetPreserves DEF PatchUpdate

-----------------------------------------------------------------------------
(* The culler, and time.                                                   *)

LEMMA CullListPreserves == ASSUME ShellInv, CullList PROVE ShellInv'
<1>1. ShellTypeOK'
  BY DEF ShellInv, ShellTypeOK, CullList
<1>2. culler'.phase = "listed" /\ culler'.seen = dep'
  BY DEF CullList
<1> QED
  BY <1>1, <1>2 DEF ShellInv, FreshIsYounger, Holding, ListingHolds, CullList

LEMMA CullNowPreserves == ASSUME ShellInv, CullNow PROVE ShellInv'
<1>1. culler.seen \in Listing
  BY DEF ShellInv, ShellTypeOK, CullNow, Waiting
<1>2. ShellTypeOK'
  BY DEF ShellInv, ShellTypeOK, CullNow, Victims
<1>3. culler'.phase = "cull" /\ culler'.victims = {u \in Users : culler.seen[u] > Idle}
  BY DEF CullNow, Victims
<1> QED
  BY <1>1, <1>2, <1>3 DEF ShellInv, FreshIsYounger, Holding, ListingHolds, CullNow

LEMMA CullerTyped ==
  ASSUME ShellTypeOK, culler.phase = "cull"
  PROVE  culler.victims \subseteq Users /\ culler = [phase |-> "cull", victims |-> culler.victims]
  BY DEF ShellTypeOK, Waiting

LEMMA CullSkipPreserves == ASSUME ShellInv, NEW u \in Users, CullSkip(u) PROVE ShellInv'
<1>1. culler' = [phase |-> "cull", victims |-> culler.victims \ {u}]
  BY CullerTyped DEF ShellInv, CullSkip
<1>2. ShellTypeOK'
  BY <1>1, CullerTyped DEF ShellInv, ShellTypeOK, CullSkip
<1> QED
  BY <1>1, <1>2 DEF ShellInv, FreshIsYounger, Holding, ListingHolds, CullSkip

LEMMA CullDeletePreserves == ASSUME ShellInv, NEW u \in Users, CullDelete(u) PROVE ShellInv'
<1>1. culler' = [phase |-> "cull", victims |-> culler.victims \ {u}]
  BY CullerTyped DEF ShellInv, CullDelete
<1>2. ASSUME NEW h \in Handlers
      PROVE  /\ handler'[h] \in {Free} \cup Request
             /\ Holding(h)' => handler'[h] = handler[h] /\ handler[h].user # u
  <2>1. CASE handler[h].step > 0 /\ handler[h].user = u
    <3>1. handler[h] \in Request /\ handler'[h] = [handler[h] EXCEPT !.fresh = FALSE]
      BY <2>1 DEF ShellInv, ShellTypeOK, CullDelete, Free
    <3> QED
      BY <3>1 DEF Holding, Request
  <2>2. CASE ~ (handler[h].step > 0 /\ handler[h].user = u)
    <3>1. handler'[h] = handler[h]
      BY <2>2 DEF CullDelete
    <3> QED
      BY <2>2, <3>1 DEF Holding, ShellInv, ShellTypeOK
  <2> QED
    BY <2>1, <2>2
<1>3. dep' = [dep EXCEPT ![u] = Absent] /\ dep' \in Listing
  BY DEF ShellInv, ShellTypeOK, CullDelete, Listing
<1>4. ShellTypeOK'
  <2>1. handler' = [h \in Handlers |-> handler'[h]]
    BY DEF CullDelete
  <2>2. handler' \in [Handlers -> {Free} \cup Request]
    BY <1>2, <2>1
  <2> QED
    BY <1>1, <1>3, <2>2, CullerTyped DEF ShellInv, ShellTypeOK, CullDelete
<1>5. FreshIsYounger'
  <2> SUFFICES ASSUME NEW h \in Handlers, Holding(h)'
               PROVE  dep'[handler'[h].user] # Absent /\ handler'[h].age <= dep'[handler'[h].user]
    BY DEF FreshIsYounger
  <2>1. handler'[h] = handler[h] /\ handler[h].user # u
    BY <1>2
  <2>2. Holding(h) /\ handler[h].user \in Users
    BY <2>1 DEF Holding, ShellInv, ShellTypeOK, Free, Request
  <2> QED
    BY <1>3, <2>1, <2>2 DEF ShellInv, ShellTypeOK, Listing, FreshIsYounger
<1>6. ListingHolds'
  BY <1>1, <1>3 DEF ShellInv, ShellTypeOK, Listing, ListingHolds, CullDelete
<1> QED
  BY <1>4, <1>5, <1>6 DEF ShellInv

LEMMA CullDonePreserves == ASSUME ShellInv, CullDone PROVE ShellInv'
<1>1. ShellTypeOK'
  BY DEF ShellInv, ShellTypeOK, CullDone
<1> QED
  BY <1>1 DEF ShellInv, FreshIsYounger, Holding, ListingHolds, CullDone, Waiting

LEMMA ShellTickPreserves == ASSUME ShellInv, ShellTick PROVE ShellInv'
<1>1. dep' \in Listing /\ \A u \in Users : dep[u] \in Ages \cup {Absent} /\ dep'[u] = Older(dep[u])
  BY OlderProperties DEF ShellInv, ShellTypeOK, Listing, ShellTick
<1>2. ASSUME NEW h \in Handlers
      PROVE  /\ handler'[h] \in {Free} \cup Request
             /\ Holding(h)' => /\ Holding(h) /\ handler'[h].user = handler[h].user
                               /\ handler[h].user \in Users /\ handler[h].age \in Ages
                               /\ handler'[h].age = Older(handler[h].age)
  <2>1. CASE Holding(h)
    <3>1. handler[h] \in Request /\ handler'[h] = [handler[h] EXCEPT !.age = Older(@)]
      BY <2>1 DEF Holding, ShellInv, ShellTypeOK, ShellTick, Free
    <3>2. Older(handler[h].age) \in Ages
      BY <3>1, OlderProperties DEF Request, Ages, Absent, Older
    <3> QED
      BY <2>1, <3>1, <3>2 DEF Request
  <2>2. CASE ~ Holding(h)
    <3>1. handler'[h] = handler[h]
      BY <2>2 DEF ShellTick, Holding
    <3> QED
      BY <2>2, <3>1 DEF Holding, ShellInv, ShellTypeOK
  <2> QED
    BY <2>1, <2>2
<1>3. /\ culler.phase = "listed" =>
           /\ culler.seen \in Listing
           /\ culler' = [phase |-> "listed", seen |-> [u \in Users |-> Older(culler.seen[u])]]
      /\ culler.phase # "listed" => culler' = culler
  <2>1. CASE culler.phase = "listed"
    <3>1. culler \in [phase : {"listed"}, seen : Listing]
      BY <2>1 DEF ShellInv, ShellTypeOK, Waiting
    <3> QED
      BY <2>1, <3>1 DEF ShellTick
  <2> QED
    BY <2>1 DEF ShellTick
<1>4. ShellTypeOK'
  <2>1. handler' = [h \in Handlers |-> handler'[h]]
    BY DEF ShellTick
  <2>2. handler' \in [Handlers -> {Free} \cup Request]
    BY <1>2, <2>1
  <2>3. culler.phase = "listed" => [u \in Users |-> Older(culler.seen[u])] \in Listing
    BY <1>3, OlderProperties DEF Listing
  <2>4. culler' \in {Waiting} \cup [phase : {"listed"}, seen : Listing]
                              \cup [phase : {"cull"}, victims : SUBSET Users]
    BY <1>3, <2>3 DEF ShellInv, ShellTypeOK
  <2> QED
    BY <1>1, <2>2, <2>4 DEF ShellInv, ShellTypeOK, ShellTick
<1>5. FreshIsYounger'
  <2> SUFFICES ASSUME NEW h \in Handlers, Holding(h)'
               PROVE  dep'[handler'[h].user] # Absent /\ handler'[h].age <= dep'[handler'[h].user]
    BY DEF FreshIsYounger
  <2>1. /\ dep[handler[h].user] # Absent /\ handler[h].age <= dep[handler[h].user]
        /\ dep[handler[h].user] \in Ages /\ handler[h].age \in Ages
        /\ dep'[handler[h].user] = Older(dep[handler[h].user])
    BY <1>1, <1>2 DEF ShellInv, FreshIsYounger
  <2> QED
    BY <1>2, <2>1, OlderProperties
<1>6. ListingHolds'
  <2> SUFFICES ASSUME NEW u \in Users \ launched
               PROVE  /\ culler'.phase = "listed" => dep'[u] = culler'.seen[u]
                      /\ culler'.phase = "cull" /\ u \in culler'.victims
                           => dep'[u] = Absent \/ dep'[u] > Idle
    BY DEF ListingHolds, ShellTick
  <2>1. CASE culler.phase = "listed"
    BY <1>1, <1>3, <2>1 DEF ShellInv, ListingHolds
  <2>2. CASE culler.phase # "listed"
    BY <1>1, <1>3, <2>2, OlderProperties DEF ShellInv, ListingHolds
  <2> QED
    BY <2>1, <2>2
<1> QED
  BY <1>4, <1>5, <1>6 DEF ShellInv

LEMMA ShellInvariantStep == ShellInv /\ [ShellNext]_shellVars => ShellInv'
<1> SUFFICES ASSUME ShellInv, [ShellNext]_shellVars PROVE ShellInv'
  OBVIOUS
<1>1. CASE UNCHANGED shellVars
  BY <1>1 DEF shellVars, ShellInv, ShellTypeOK, FreshIsYounger, Holding, ListingHolds
<1>2. CASE ShellNext
  BY <1>2, LaunchPreserves, OtherCallsPreserve, EnsureDeploymentPreserves, PatchGetPreserves,
     PatchUpdatePreserves, CullListPreserves, CullNowPreserves, CullDonePreserves,
     CullSkipPreserves, CullDeletePreserves, ShellTickPreserves DEF ShellNext
<1> QED
  BY <1>1, <1>2

-----------------------------------------------------------------------------
(* Every reachable state satisfies the inductive invariant.                *)
THEOREM ShellInvariant == ShellSpec => []ShellInv
  BY ShellInitInvariant, ShellInvariantStep, PTL DEF ShellSpec

(* Requests, the culler's pass and the Deployments keep their types.       *)
THEOREM ShellTypeCorrect == ShellSpec => []ShellTypeOK
<1>1. ShellInv => ShellTypeOK
  BY DEF ShellInv
<1> QED
  BY <1>1, ShellInvariant, PTL

(* The optimistic lock of the API is what keeps lastSeen from going back:  *)
(* an Update that is not refused carries a time read after the Deployment  *)
(* was last touched.                                                       *)
THEOREM LastSeenMonotonic == ShellSpec => SeenNeverRewinds
<1> DEFINE A == \A u \in Users :
       dep[u] # Absent /\ dep'[u] # Absent =>
         dep'[u] <= dep[u] \/ dep'[u] = Older(dep[u])
<1>1. ASSUME ShellInv, [ShellNext]_shellVars PROVE [A]_shellVars
  <2>0. \A u \in Users : dep[u] \in Ages \cup {Absent} /\ \A a \in Ages : a <= a
    BY <1>1, IdleAssumption DEF ShellInv, ShellTypeOK, Listing, Ages, Old
  <2>1. CASE UNCHANGED dep
    BY <2>0, <2>1, IdleAssumption DEF Ages, Absent
  <2>2. ASSUME NEW h \in Handlers, EnsureDeployment(h) PROVE A
    BY <2>0, <2>2, IdleAssumption DEF EnsureDeployment, Ages, Absent, ShellInv, ShellTypeOK, Listing
  <2>3. ASSUME NEW h \in Handlers, PatchUpdate(h) PROVE A
    <3>1. /\ handler[h].age <= dep[handler[h].user]
          /\ dep' = [dep EXCEPT ![handler[h].user] = handler[h].age]
      BY <1>1, <2>3 DEF ShellInv, FreshIsYounger, Holding, PatchUpdate, Busy
    <3>2. handler[h].user \in Users /\ dep \in Listing
      BY <1>1, <2>3 DEF ShellInv, ShellTypeOK, PatchUpdate, Busy, Free, Request
    <3>3. ASSUME NEW u \in Users, u # handler[h].user PROVE dep'[u] = dep[u]
      BY <3>1, <3>2, <3>3 DEF Listing
    <3>4. dep'[handler[h].user] <= dep[handler[h].user]
      BY <3>1, <3>2 DEF Listing
    <3> QED
      BY <2>0, <3>3, <3>4 DEF Ages, Absent
  <2>4. ASSUME NEW u \in Users, CullDelete(u) PROVE A
    BY <2>0, <2>4, <1>1, IdleAssumption DEF CullDelete, Ages, Absent, ShellInv, ShellTypeOK, Listing
  <2>5. CASE ShellTick
    BY <2>5 DEF ShellTick
  <2>6. ASSUME NEW h \in Handlers, CallFails(h) \/ EnsureExtra(h) \/ PatchGet(h)
        PROVE  UNCHANGED dep
    BY <2>6 DEF CallFails, EnsureExtra, PatchGet
  <2>7. ASSUME \/ UNCHANGED shellVars \/ CullList \/ CullNow \/ CullDone
               \/ \E u \in Users : CullSkip(u)
               \/ \E h \in Handlers, u \in Users : Launch(h, u)
        PROVE  UNCHANGED dep
    BY <2>7 DEF shellVars, CullList, CullNow, CullDone, CullSkip, Launch
  <2> QED
    BY <1>1, <2>1, <2>2, <2>3, <2>4, <2>5, <2>6, <2>7 DEF ShellNext
<1> QED
  BY <1>1, ShellInvariant, PTL DEF ShellSpec, SeenNeverRewinds

(* A shell is deleted while in use only if it was launched in the middle   *)
(* of the culler's pass: what was listed as idle stays idle otherwise.     *)
THEOREM DeletedWasIdle == ShellSpec => CulledWasIdle
<1> DEFINE A == \A u \in Users :
       dep[u] # Absent /\ dep'[u] = Absent => dep[u] > Idle \/ u \in launched
<1>1. ASSUME ShellInv, [ShellNext]_shellVars PROVE [A]_shellVars
  <2>1. CASE UNCHANGED dep
    BY <2>1
  <2>2. ASSUME NEW h \in Handlers, EnsureDeployment(h) PROVE A
    BY <2>2, <1>1 DEF EnsureDeployment, ShellInv, ShellTypeOK, Listing, Absent
  <2>3. ASSUME NEW h \in Handlers, PatchUpdate(h) PROVE A
    <3>1. handler[h].age \in Ages /\ dep' = [dep EXCEPT ![handler[h].user] = handler[h].age]
      BY <1>1, <2>3 DEF ShellInv, ShellTypeOK, PatchUpdate, Busy, Free, Request
    <3> QED
      BY <3>1, <1>1 DEF Ages, Absent, ShellInv, ShellTypeOK, Listing
  <2>4. ASSUME NEW u \in Users, CullDelete(u) PROVE A
    BY <2>4, <1>1 DEF CullDelete, ShellInv, ShellTypeOK, Listing, ListingHolds
  <2>5. CASE ShellTick
    BY <2>5, <1>1, OlderProperties DEF ShellTick, ShellInv, ShellTypeOK, Listing
  <2>6. ASSUME NEW h \in Handlers, CallFails(h) \/ EnsureExtra(h) \/ PatchGet(h)
        PROVE  UNCHANGED dep
    BY <2>6 DEF CallFails, EnsureExtra, PatchGet
  <2>7. ASSUME \/ UNCHANGED shellVars \/ CullList \/ CullNow \/ CullDone
               \/ \E u \in Users : CullSkip(u)
               \/ \E h \in Handlers, u \in Users : Launch(h, u)
        PROVE  UNCHANGED dep
    BY <2>7 DEF shellVars, CullList, CullNow, CullDone, CullSkip, Launch
  <2> QED
    BY <1>1, <2>1, <2>2, <2>3, <2>4, <2>5, <2>6, <2>7 DEF ShellNext
<1> QED
  BY <1>1, ShellInvariant, PTL DEF ShellSpec, CulledWasIdle
=============================================================================
