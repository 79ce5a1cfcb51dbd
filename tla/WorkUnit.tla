------------------------------ MODULE WorkUnit ------------------------------
(***************************************************************************)
(* src/tools/work_unit.py: what makes the results of untrusted workers     *)
(* acceptable.  A caller collects the results of independent runs of a     *)
(* Work Unit in whatever order they arrive, more of them than the          *)
(* replication factor when late ones still come in, and asks for a verdict *)
(* as often as it has something new (verify_and_score), or compares one    *)
(* result with a canary's known answer (spot_check).  Every verdict of a   *)
(* quorum also moves the reputation of the workers in it.                  *)
(*                                                                         *)
(* An output is its digest: equal digests are equal outputs.               *)
(***************************************************************************)
EXTENDS Naturals, Sequences, FiniteSets

CONSTANTS Units,
          Canaries,     \* the units with a known answer (proof_mode spot_check)
          Replication,  \* unit -> its "replication"
          Workers,
          Honest,       \* the workers that return what the task yields
          Outputs,
          Correct,      \* what the task yields
          MaxResults    \* unit -> bound on its results

None == "none"

ASSUME ParamAssumption ==
  /\ Canaries \subseteq Units
  /\ Replication \in [Units -> Nat \ {0}]
  /\ Honest \subseteq Workers
  /\ IsFiniteSet(Workers)
  /\ Correct \in Outputs
  /\ None \notin Outputs
  /\ MaxResults \in [Units -> Nat]

VARIABLES results,   \* unit -> [worker, output] in order of arrival
          judged,    \* unit -> how many results its last verdict was about
          accepted,  \* unit -> accepted_digest of its last verdict
          rep        \* worker -> [verified, total]

vars == <<results, judged, accepted, rep>>

Redundant == Units \ Canaries
Result == [worker : Workers, output : Outputs]

-----------------------------------------------------------------------------
(* redundant_quorum().                                                     *)

ThresholdHalf(n) == n \div 2
Threshold(n) == n \div 2 + 1

(* groups: the positions of the results with one digest.                   *)
Group(rs, d) == {i \in 1..Len(rs) : rs[i].output = d}
Size(rs, d) == Cardinality(Group(rs, d))

(* max() over the dict keeps the first inserted of the largest groups.     *)
WinnerFirst(rs) == rs[1].output

Winner(rs) ==
  CHOOSE d \in Outputs : \A e \in Outputs \ {d} :
    \/ Size(rs, d) > Size(rs, e)
    \/ /\ Size(rs, d) = Size(rs, e)
       /\ \E i \in Group(rs, d) : \A j \in Group(rs, e) : i < j

Quorum(rs, n) == Size(rs, Winner(rs)) >= Threshold(n)

(* record(): everybody in the winning group gains, everybody else loses,   *)
(* with a quorum or without one.                                           *)
Votes(rs, w, agree) ==
  Cardinality({i \in 1..Len(rs) : rs[i].worker = w /\ (rs[i].output = Winner(rs)) = agree})

RecordedSwapped(rs) ==
  [w \in Workers |-> [verified |-> rep[w].verified + Votes(rs, w, FALSE),
                      total |-> rep[w].total + Votes(rs, w, TRUE) + Votes(rs, w, FALSE)]]

Recorded(rs) ==
  [w \in Workers |-> [verified |-> rep[w].verified + Votes(rs, w, TRUE),
                      total |-> rep[w].total + Votes(rs, w, TRUE) + Votes(rs, w, FALSE)]]

-----------------------------------------------------------------------------
(* An independent run ends: an honest worker returns what the task yields, *)
(* any other whatever it likes.                                            *)
Returned(u) == {results[u][i].worker : i \in 1..Len(results[u])}

Return(u, w) ==
  /\ w \notin Returned(u)
  /\ Len(results[u]) < MaxResults[u]
  /\ \E d \in IF w \in Honest THEN {Correct} ELSE Outputs :
       results' = [results EXCEPT ![u] = Append(@, [worker |-> w, output |-> d])]
  /\ UNCHANGED <<judged, accepted, rep>>

(* verify_and_score() over everything that has come in.                    *)
Verify(u) ==
  LET rs == results[u]
  IN
  /\ judged[u] < Len(rs)
  /\ judged' = [judged EXCEPT ![u] = Len(rs)]
  /\ accepted' = [accepted EXCEPT ![u] =
                    IF Quorum(rs, Replication[u]) THEN Winner(rs) ELSE None]
  /\ rep' = Recorded(rs)
  /\ UNCHANGED results

(* spot_check() of one result; reputation is not touched.                  *)
SpotCheck(u, i) ==
  /\ i \in 1..Len(results[u])
  /\ accepted' = [accepted EXCEPT ![u] =
                    IF results[u][i].output = Correct THEN Correct ELSE None]
  /\ UNCHANGED <<results, judged, rep>>

Init ==
  /\ results = [u \in Units |-> << >>]
  /\ judged = [u \in Units |-> 0]
  /\ accepted = [u \in Units |-> None]
  /\ rep = [w \in Workers |-> [verified |-> 0, total |-> 0]]

Next ==
  \/ \E u \in Units, w \in Workers : Return(u, w)
  \/ \E u \in Redundant : Verify(u)
  \/ \E u \in Canaries : \E i \in 1..Len(results[u]) : SpotCheck(u, i)

(* Honest workers return in the end and the caller looks at what came in;  *)
(* nothing is assumed of the others.                                       *)
Spec ==
  /\ Init /\ [][Next]_vars
  /\ \A u \in Units, w \in Honest : WF_vars(Return(u, w))
  /\ \A u \in Redundant : WF_vars(Verify(u))

-----------------------------------------------------------------------------
TypeOK ==
  /\ results \in [Units -> Seq(Result)]
  /\ judged \in [Units -> Nat] /\ \A u \in Units : judged[u] <= Len(results[u])
  /\ accepted \in [Units -> Outputs \cup {None}]
  /\ rep \in [Workers -> [verified : Nat, total : Nat]]
  /\ \A w \in Workers : rep[w].verified <= rep[w].total

(* Too few of the results of u are a liar's to make a quorum by themselves. *)
FewLies(u) ==
  Cardinality({i \in 1..Len(results[u]) : results[u][i].worker \notin Honest})
    <= Replication[u] \div 2

(* "No quorum -> rejected, never accepted unverified" (lines 11-12): what  *)
(* is accepted is what the task yields, in whatever order and however many *)
(* at a time the results come in, unless liars are a quorum; a canary's    *)
(* accepted result always is.                                              *)
AcceptedIsTrue ==
  \A u \in Units :
    /\ u \in Redundant /\ FewLies(u) => accepted[u] \in {None, Correct}
    /\ u \in Canaries => accepted[u] \in {None, Correct}

(* Within the replication factor a verdict is final whoever lies: further  *)
(* results neither replace an accepted output nor take it back.            *)
AcceptedStands ==
  [][\A u \in Redundant :
       accepted[u] # None /\ judged'[u] <= Replication[u] => accepted'[u] = accepted[u]]_vars

(* The reputation "routes around bad actors" (line 18) and not around good *)
(* ones: a verdict with a quorum never costs an honest worker anything,    *)
(* unless liars are a quorum.                                              *)
Lost(w) == rep[w].total - rep[w].verified

HonestKeepStanding ==
  [][\A u \in Redundant :
       judged'[u] # judged[u] /\ accepted'[u] # None /\ FewLies(u) =>
         \A w \in Honest : Lost(w)' = Lost(w)]_vars

(* A unit with enough honest workers is accepted in the end, and with what *)
(* the task yields unless liars are a quorum.                              *)
EventuallyAccepted ==
  \A u \in Redundant :
    Cardinality(Honest) > Replication[u] \div 2 =>
      /\ <>[](accepted[u] # None)
      /\ []FewLies(u) => <>[](accepted[u] = Correct)
=============================================================================
