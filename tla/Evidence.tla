------------------------------ MODULE Evidence ------------------------------
(***************************************************************************)
(* The evidence bundle: the promotion gate (src/tools/promotion_gate.py),  *)
(* run from the command line or behind the guarded tool of an MCP server   *)
(* (mcp_ops_server.py), and the two lists of it that agents and people see *)
(* (list_evidence there, /api/evidence of portal_server.py).               *)
(*                                                                         *)
(* Gates and servers are processes that share two directories without a    *)
(* lock.  A gate decision goes to a file named for the reviewed key and    *)
(* the second; a receipt to one named for tool, outcome and microsecond.   *)
(* Each file is created (or truncated) and filled in two steps, either of  *)
(* which may fail, and a process may die between any two steps.            *)
(***************************************************************************)
EXTENDS Integers, Sequences, FiniteSets, SequencesExt

CONSTANTS Clis,         \* promotion_gate.py command lines
          Servers,      \* MCP servers, each handling one request at a time
          Granted,      \* the servers started with CONTINUUM_MCP_ALLOW_GUARDED
          Verdicts,     \* [key, verdict, sealed, reviewed]: key as it is in file
                        \* names, and whether "reviewed" is an object
          Alphabet,     \* places of keys, tools and outcomes in the order of names
          Webhooks,     \* file names in webhook-receipts
          PortalLimit,  \* length at which a person's list is cut
          Asked,        \* limits that agents ask for: any integers
          Second,       \* microseconds of the model per second
          MaxClock, MaxDecisions, MaxReceipts   \* bounds

ASSUME ParamAssumption ==
  /\ Granted \subseteq Servers
  /\ Clis \cap Servers = {}
  /\ Second \in Nat \ {0}
  /\ PortalLimit \in Nat /\ Asked \subseteq Int /\ Webhooks \in Seq(STRING)
  /\ {v.key : v \in Verdicts} \subseteq DOMAIN Alphabet
  /\ \A m, n \in DOMAIN Alphabet : Alphabet[m] \in Int /\ (Alphabet[m] = Alphabet[n] => m = n)
  /\ MaxClock \in Nat

VARIABLES gates,      \* gate-decisions: name -> [d, state]
          receipts,   \* mcp-receipts: name -> [d, state]
          decisions,  \* history: what gate() decided, in order
          proc,       \* what each process is doing
          clock

vars == <<gates, receipts, decisions, proc, clock>>

Procs == Clis \cup Servers
Idle == [pc |-> "idle"]
At(p, pc) == proc[p].pc = pc
Goto(p, rec) == proc' = [proc EXCEPT ![p] = rec]

-----------------------------------------------------------------------------
(* write_text() opens with truncation ...                                  *)
Opened(dir, name, d) ==
  [n \in DOMAIN dir \cup {name} |-> IF n = name THEN [d |-> d, state |-> "empty"] ELSE dir[n]]

(* ... and fills.  What another process put there since then is            *)
(* overwritten from its start: the rest of it may stay behind.             *)
Filled(dir, name, d) ==
  {[dir EXCEPT ![name] = [d |-> d, state |-> s]] :
     s \in IF dir[name].state = "empty" THEN {"whole"} ELSE {"whole", "torn"}}

-----------------------------------------------------------------------------
(* gate().                                                                 *)

Name(v) == [key |-> v.key, sec |-> clock \div Second]

(* A server goes on to its receipt, and its reply, whatever happened.      *)
Sealing(tool, outcome, d) == [pc |-> "seal", tool |-> tool, outcome |-> outcome, d |-> d]

(* An exception ends a command line, and is a result for a server.         *)
Raised(p) == Goto(p, IF p \in Clis THEN Idle ELSE Sealing("gate", "error", 0))

Decide(p, v) ==
  /\ At(p, "idle")
  /\ p \in Clis \cup Granted
  /\ Len(decisions) < MaxDecisions
  /\ v.reviewed
  /\ decisions' = Append(decisions,
       [name |-> Name(v), answered |-> FALSE,
        promotion |-> IF v.sealed /\ v.verdict = "APPROVE" THEN "allow" ELSE "block"])
  /\ Goto(p, [pc |-> "open", d |-> Len(decisions) + 1])
  /\ UNCHANGED <<gates, receipts, clock>>

DecideRaises(p, v) ==
  /\ At(p, "idle")
  /\ p \in Clis \cup Granted
  /\ ~ v.reviewed
  /\ Raised(p)
  /\ UNCHANGED <<gates, receipts, decisions, clock>>

OpenFile(p) ==
  /\ At(p, "open")
  /\ gates' = Opened(gates, decisions[proc[p].d].name, proc[p].d)
  /\ Goto(p, [pc |-> "fill", d |-> proc[p].d])
  /\ UNCHANGED <<receipts, decisions, clock>>

FillFile(p) ==
  /\ At(p, "fill")
  /\ gates' \in Filled(gates, decisions[proc[p].d].name, proc[p].d)
  /\ Goto(p, IF p \in Clis THEN [pc |-> "answer", d |-> proc[p].d]
             ELSE Sealing("gate", "allow", proc[p].d))
  /\ UNCHANGED <<receipts, decisions, clock>>

WriteSwallowed(p) ==
  /\ proc[p].pc \in {"open", "fill"}
  /\ Goto(p, IF p \in Clis THEN [pc |-> "answer", d |-> proc[p].d]
             ELSE Sealing("gate", "allow", proc[p].d))
  /\ UNCHANGED <<gates, receipts, decisions, clock>>

WriteFails(p) ==
  /\ proc[p].pc \in {"open", "fill"}
  /\ Raised(p)
  /\ UNCHANGED <<gates, receipts, decisions, clock>>

-----------------------------------------------------------------------------
(* call_tool(): the calls that never get to gate().  A read tool answers   *)
(* or raises; the guarded one is refused without a grant, and with one     *)
(* still wants a verdict that is an object.                                *)
Calls(p) ==
  {<<"read", "allow">>, <<"read", "error">>, <<"unknown", "refuse">>,
   <<"gate", IF p \in Granted THEN "allow" ELSE "refuse">>}

Call(p) ==
  /\ p \in Servers
  /\ At(p, "idle")
  /\ \E c \in Calls(p) : Goto(p, Sealing(c[1], c[2], 0))
  /\ UNCHANGED <<gates, receipts, decisions, clock>>

(* _emit_receipt(): an OSError is dropped, at either step.                 *)
OpenReceipt(p) ==
  LET name == [tool |-> proc[p].tool, outcome |-> proc[p].outcome, at |-> clock]
  IN
  /\ At(p, "seal")
  /\ Cardinality(DOMAIN receipts \cup {name}) <= MaxReceipts
  /\ receipts' = Opened(receipts, name, proc[p].d)
  /\ Goto(p, [pc |-> "receipt", name |-> name, d |-> proc[p].d])
  /\ UNCHANGED <<gates, decisions, clock>>

FillReceipt(p) ==
  /\ At(p, "receipt")
  /\ receipts' \in Filled(receipts, proc[p].name, proc[p].d)
  /\ Goto(p, [pc |-> "answer", d |-> proc[p].d])
  /\ UNCHANGED <<gates, decisions, clock>>

ReceiptFails(p) ==
  /\ proc[p].pc \in {"seal", "receipt"}
  /\ Goto(p, [pc |-> "answer", d |-> proc[p].d])
  /\ UNCHANGED <<gates, receipts, decisions, clock>>

(* The exit status of a command line, or the reply of a server.            *)
Answer(p) ==
  /\ At(p, "answer")
  /\ decisions' = [i \in DOMAIN decisions |->
       IF i = proc[p].d THEN [decisions[i] EXCEPT !.answered = TRUE] ELSE decisions[i]]
  /\ Goto(p, Idle)
  /\ UNCHANGED <<gates, receipts, clock>>

(* A process dies; another one takes its place.                            *)
Crash(p) ==
  /\ ~ At(p, "idle")
  /\ Goto(p, Idle)
  /\ UNCHANGED <<gates, receipts, decisions, clock>>

Tick ==
  /\ clock < MaxClock
  /\ clock' = clock + 1
  /\ UNCHANGED <<gates, receipts, decisions, proc>>

Init ==
  /\ gates = << >>
  /\ receipts = << >>
  /\ decisions = << >>
  /\ proc = [p \in Procs |-> Idle]
  /\ clock = 0

Next ==
  \/ \E p \in Procs, v \in Verdicts : Decide(p, v) \/ DecideRaises(p, v)
  \/ \E p \in Procs : \/ OpenFile(p) \/ FillFile(p) \/ WriteFails(p)
                      \/ Call(p) \/ OpenReceipt(p) \/ FillReceipt(p) \/ ReceiptFails(p)
                      \/ Answer(p) \/ Crash(p)
  \/ Tick

Spec == Init /\ [][Next]_vars

-----------------------------------------------------------------------------
(* The lists of evidence: per bundle the names in reverse order up to the  *)
(* limit, the bundles one after the other, and the whole cut again.  The   *)
(* place of a name is the number of the later ones.                        *)

(* s[:limit]: a negative limit drops that many from the end.               *)
Cut(s, limit) ==
  SubSeq(s, 1, IF limit < 0 THEN Len(s) + limit ELSE IF limit < Len(s) THEN limit ELSE Len(s))

LaterGate(m, n) ==
  \/ Alphabet[m.key] > Alphabet[n.key]
  \/ m.key = n.key /\ m.sec > n.sec

LaterReceipt(m, n) ==
  \/ Alphabet[m.tool] > Alphabet[n.tool]
  \/ m.tool = n.tool /\ Alphabet[m.outcome] > Alphabet[n.outcome]
  \/ m.tool = n.tool /\ m.outcome = n.outcome /\ m.at > n.at

LaterGates(n) == {m \in DOMAIN gates : LaterGate(m, n)}
LaterReceipts(n) == {m \in DOMAIN receipts : LaterReceipt(m, n)}

GateNames ==
  [i \in 1..Cardinality(DOMAIN gates) |->
     CHOOSE n \in DOMAIN gates : Cardinality(LaterGates(n)) = i - 1]

ReceiptNames ==
  [i \in 1..Cardinality(DOMAIN receipts) |->
     CHOOSE n \in DOMAIN receipts : Cardinality(LaterReceipts(n)) = i - 1]

Bundle(kind, names, limit) ==
  [i \in DOMAIN Cut(names, limit) |-> <<kind, names[i]>>]

Gates(limit) == Bundle("gate", GateNames, limit)
Receipts(limit) == Bundle("mcp", ReceiptNames, limit)
Hooks(limit) == Bundle("webhook", Webhooks, limit)

ListEvidence(limit) == Cut(Gates(limit) \o Receipts(limit), limit)

PortalReversed ==
  Cut(Hooks(PortalLimit) \o Gates(PortalLimit) \o Receipts(PortalLimit), PortalLimit)

PortalEvidence ==
  Cut(Gates(PortalLimit) \o Receipts(PortalLimit) \o Hooks(PortalLimit), PortalLimit)

-----------------------------------------------------------------------------
GateName == [key : {v.key : v \in Verdicts}, sec : Int]
ReceiptName == [tool : {"read", "unknown", "gate"}, outcome : {"allow", "refuse", "error"},
                at : 0..MaxClock]
File == [d : Nat, state : {"empty", "whole", "torn"}]
Decision == [name : GateName, answered : BOOLEAN, promotion : {"allow", "block"}]
Phase ==
  {Idle}
  \cup [pc : {"open", "fill", "answer"}, d : Nat]
  \cup [pc : {"seal"}, tool : {"read", "unknown", "gate"},
        outcome : {"allow", "refuse", "error"}, d : Nat]
  \cup [pc : {"receipt"}, name : ReceiptName, d : Nat]

TypeOK ==
  /\ \A n \in DOMAIN gates : n \in GateName /\ gates[n] \in File
  /\ \A n \in DOMAIN receipts : n \in ReceiptName /\ receipts[n] \in File
  /\ decisions \in Seq(Decision)
  /\ proc \in [Procs -> Phase]
  /\ clock \in 0..MaxClock

(* The decisions whose evidence has the name of decision i's.              *)
Namesakes(i) == {j \in DOMAIN decisions : decisions[j].name = decisions[i].name}

OnRecord(i) ==
  /\ decisions[i].name \in DOMAIN gates
  /\ gates[decisions[i].name].d \in Namesakes(i)
  /\ Namesakes(i) = {i} => gates[decisions[i].name].state = "whole"

(* "the block is itself written to evidence" (promotion_gate.py:11-12):    *)
(* nobody is told a decision, allow or block, whose evidence is not        *)
(* complete on disk, whatever failed or died; only a decision on the same  *)
(* key in the same second can have taken its place.                        *)
DecisionOnRecord == \A i \in DOMAIN decisions : decisions[i].answered => OnRecord(i)

(* The two bundles agree: a receipt of a gate call is never without the    *)
(* evidence of the decision it seals.                                      *)
ReceiptHasEvidence ==
  \A n \in DOMAIN receipts : receipts[n].d # 0 => OnRecord(receipts[n].d)

(* A list cut at limit shows a file of gate-decisions, or had no room for  *)
(* it beside files of that bundle with later names.                        *)
Shows(list, limit, name) ==
  \/ \E i \in DOMAIN list : list[i][1] = "gate" /\ list[i][2] = name
  \/ /\ Len(list) = limit
     /\ \A i \in DOMAIN list : list[i][1] = "gate" /\ LaterGate(list[i][2], name)

(* "One governed source, two views" (portal_server.py:4-5): a decision     *)
(* that was told can be seen, in the portal's list and in one of any       *)
(* length that an agent asks for (a negative one is no length).  Receipts  *)
(* and webhooks never push it out; decisions with later names may.         *)
ToldIsShown ==
  \A i \in DOMAIN decisions : decisions[i].answered =>
    /\ Shows(PortalEvidence, PortalLimit, decisions[i].name)
    /\ \A l \in Asked \cap Nat : Shows(ListEvidence(l), l, decisions[i].name)
=============================================================================
