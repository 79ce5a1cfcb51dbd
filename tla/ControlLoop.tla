----------------------------- MODULE ControlLoop -----------------------------
(***************************************************************************)
(* src/tools/control_loop.py: the autonomous remediation loop.  A tick     *)
(* reads the clock once, senses, and takes the conditions one after the    *)
(* other; a remediation is one run_spine call (see ExecutionSpine), which  *)
(* takes time, and is abstracted to its four outcomes and to the quota it  *)
(* charges.                                                                *)
(***************************************************************************)
EXTENDS Integers, Sequences, FiniteSets, SequencesExt

CONSTANTS Conditions,  \* [key, sealable]: sealable if JSON can encode it
          Cooldown,    \* self._cooldown
          Quota,       \* dispatches the admission controller allows
          MaxConds,    \* bound on the conditions sensed in one tick
          MaxClock     \* bound on the clock

ASSUME ParamAssumption ==
  /\ Cooldown \in Nat /\ Quota \in Nat
  /\ MaxConds \in Nat /\ MaxClock \in Nat

VARIABLES phase,    \* "idle", "ticking", "recording" or "dead"
          queue,    \* conditions of this tick not yet taken
          now,      \* the clock as read at the start of the tick
          acted,    \* self._acted: key -> time
          ledger,   \* self._ledger: [key, outcome, at]
          status,   \* outcome of the remediation being recorded
          actions,  \* the keys of all remediations that began
          charged,  \* dispatches charged by the spine
          clock

vars == <<phase, queue, now, acted, ledger, status, actions, charged, clock>>

Keys == {c.key : c \in Conditions}
Never == -1

Init ==
  /\ phase = "idle"
  /\ queue = << >>
  /\ now = 0
  /\ acted = [k \in Keys |-> Never]
  /\ ledger = << >>
  /\ status = "none"
  /\ actions = << >>
  /\ charged = 0
  /\ clock = 0

(* tick(): the clock is read before sense() is called.                     *)
TickBegin(conds) ==
  /\ phase = "idle"
  /\ phase' = "ticking"
  /\ queue' = conds
  /\ now' = clock
  /\ UNCHANGED <<acted, ledger, status, actions, charged, clock>>

(* What sense() raises is not caught by tick() or run().                   *)
SenseRaises ==
  /\ phase = "idle"
  /\ phase' = "dead"
  /\ now' = clock
  /\ UNCHANGED <<queue, acted, ledger, status, actions, charged, clock>>

TickEnd ==
  /\ phase = "ticking"
  /\ queue = << >>
  /\ phase' = "idle"
  /\ UNCHANGED <<queue, now, acted, ledger, status, actions, charged, clock>>

CoolingAtZero(k) == acted[k] > 0 /\ now - acted[k] < Cooldown
Cooling(k) == acted[k] # Never /\ now - acted[k] < Cooldown

(* Suppressed conditions leave no trace in the ledger.                     *)
Suppress ==
  /\ phase = "ticking"
  /\ queue # << >>
  /\ Cooling(queue[1].key)
  /\ queue' = Tail(queue)
  /\ UNCHANGED <<phase, now, acted, ledger, status, actions, charged, clock>>

(* to_workload and run_spine: over quota it is denied; otherwise it runs   *)
(* and is charged, is blocked, or raises; what raises is caught.           *)
RemediateUncaught(result) ==
  /\ phase = "ticking"
  /\ queue # << >>
  /\ ~ Cooling(queue[1].key)
  /\ result = "denied" => charged = Quota
  /\ result = "ran" => charged < Quota
  /\ status' = result
  /\ charged' = IF result = "ran" THEN charged + 1 ELSE charged
  /\ actions' = Append(actions, queue[1].key)
  /\ phase' = IF result = "error" THEN "dead" ELSE "recording"
  /\ UNCHANGED <<queue, now, acted, ledger, clock>>

Remediate(result) ==
  /\ phase = "ticking"
  /\ queue # << >>
  /\ ~ Cooling(queue[1].key)
  /\ result = "denied" => charged = Quota
  /\ result = "ran" => charged < Quota
  /\ status' = result
  /\ charged' = IF result = "ran" THEN charged + 1 ELSE charged
  /\ actions' = Append(actions, queue[1].key)
  /\ phase' = "recording"
  /\ UNCHANGED <<queue, now, acted, ledger, clock>>

(* self._acted[key] = now; seal the record; append it.  _seal is outside   *)
(* the try: a condition that JSON cannot encode ends tick() with an        *)
(* exception after the remediation.                                        *)
RecordErrorsDropped ==
  /\ phase = "recording"
  /\ queue[1].sealable
  /\ acted' = [acted EXCEPT ![queue[1].key] = now]
  /\ ledger' = IF status = "error" THEN ledger
               ELSE Append(ledger, [key |-> queue[1].key, outcome |-> status, at |-> now])
  /\ queue' = Tail(queue)
  /\ status' = "none"
  /\ phase' = "ticking"
  /\ UNCHANGED <<now, actions, charged, clock>>

Record ==
  /\ phase = "recording"
  /\ queue[1].sealable
  /\ acted' = [acted EXCEPT ![queue[1].key] = now]
  /\ ledger' = Append(ledger, [key |-> queue[1].key, outcome |-> status, at |-> now])
  /\ queue' = Tail(queue)
  /\ status' = "none"
  /\ phase' = "ticking"
  /\ UNCHANGED <<now, actions, charged, clock>>

RecordRaises ==
  /\ phase = "recording"
  /\ ~ queue[1].sealable
  /\ acted' = [acted EXCEPT ![queue[1].key] = now]
  /\ phase' = "dead"
  /\ UNCHANGED <<queue, now, ledger, status, actions, charged, clock>>

Tick ==
  /\ clock < MaxClock
  /\ clock' = clock + 1
  /\ UNCHANGED <<phase, queue, now, acted, ledger, status, actions, charged>>

Loop ==
  \/ TickEnd \/ Suppress \/ Record \/ RecordRaises
  \/ \E result \in {"ran", "denied", "blocked", "error"} : Remediate(result)

(* A dead loop stays dead: run() does not catch what tick() raises.        *)
Dead == phase = "dead" /\ UNCHANGED vars

Next ==
  \/ \E conds \in BoundedSeq(Conditions, MaxConds) : TickBegin(conds)
  \/ SenseRaises \/ Loop \/ Tick \/ Dead

(* A tick that has begun goes on.                                          *)
Spec == Init /\ [][Next]_vars /\ WF_vars(Loop)

-----------------------------------------------------------------------------
Outcomes == {"ran", "denied", "blocked", "error"}

TypeOK ==
  /\ phase \in {"idle", "ticking", "recording", "dead"}
  /\ queue \in Seq(Conditions)
  /\ now \in 0..clock
  /\ acted \in [Keys -> {Never} \cup 0..now]
  /\ ledger \in Seq([key : Keys, outcome : Outcomes, at : 0..now])
  /\ actions \in Seq(Keys)
  /\ status \in Outcomes \cup {"none"}
  /\ charged \in 0..Quota
  /\ clock \in 0..MaxClock

(* "It decides a persistent condition ONCE per cooldown"                   *)
(* (control_loop.py:12): two records of one key, whatever their outcome    *)
(* and however often sense() repeats it, are a cooldown apart.             *)
DecidedOnce ==
  \A i, j \in 1..Len(ledger) :
    i < j /\ ledger[i].key = ledger[j].key => ledger[j].at - ledger[i].at >= Cooldown

(* "sealing every action" (line 6): between ticks the ledger has one       *)
(* record for each remediation, in order.                                  *)
EveryActionRecorded ==
  phase \in {"idle", "ticking"} =>
    /\ Len(ledger) = Len(actions)
    /\ \A i \in 1..Len(ledger) : ledger[i].key = actions[i]

(* "One bad condition never kills the loop - a remediation that blocks, is *)
(* denied, or even raises is caught" (lines 15-16): every tick comes to    *)
(* its end, unless it meets a condition whose record cannot be encoded.    *)
(* Conditions here are dicts with a key that can be hashed: any other would*)
(* raise outside the try too, when its key is read or looked up (61-62).   *)
TickEnds ==
  (phase \in {"ticking", "recording"}) ~>
    (phase = "idle" \/ (queue # << >> /\ ~ queue[1].sealable))
=============================================================================
