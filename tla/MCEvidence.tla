----------------------------- MODULE MCEvidence -----------------------------
(* An instance of Evidence for TLC.                                        *)
EXTENDS Evidence, TLC

Verdict(k, v, sealed, reviewed) ==
  [key |-> k, verdict |-> v, sealed |-> sealed, reviewed |-> reviewed]

(* Approved, rejected, approved after it was sealed as something else, and *)
(* one whose "reviewed" is not an object.                                  *)
MCVerdicts ==
  {Verdict("api", "APPROVE", TRUE, TRUE), Verdict("web", "REJECT", TRUE, TRUE),
   Verdict("web", "APPROVE", FALSE, TRUE), Verdict("web", "APPROVE", TRUE, FALSE)}

MCAlphabet == [n \in {"allow", "api", "error", "gate", "read", "refuse", "unknown", "web"} |->
                 CASE n = "allow" -> 1 [] n = "api" -> 2 [] n = "error" -> 3 [] n = "gate" -> 4
                   [] n = "read" -> 5 [] n = "refuse" -> 6 [] n = "unknown" -> 7 [] n = "web" -> 8]
MCWebhooks == <<"push">>
MCAsked == {-1, 0, 1, 3}
=============================================================================
