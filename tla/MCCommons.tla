----------------------------- MODULE MCCommons -----------------------------
(* Commons on a small estate: three contents of one resolution name, one of *)
(* them filed under two classes, four CapDs and two workloads.              *)
EXTENDS Commons

Resolution(content, graph, category, tags) ==
  [name |-> "resolution-swap", version |-> "v0.1", content |-> content,
   graph |-> graph, category |-> category, tags |-> tags]

MCResolutions ==
  {Resolution("plan", TRUE, "swap", {"nix"}),
   Resolution("plan", TRUE, "pin", {}),
   Resolution("patch", FALSE, "swap", {}),
   Resolution("note", FALSE, "swap", {})}

Capd(stem, name, version, links, readable) ==
  [stem |-> stem, name |-> name, version |-> version, kind |-> Missing,
   links |-> links, content |-> stem, readable |-> readable]

MCCapdFiles ==
  <<Capd("gate", "caps.infra.gate", "0.1.0", {"supply_chain_gate"}, TRUE),
    Capd("shape", Missing, Missing, {"shape_authority"}, TRUE),
    Capd("torn", Missing, Missing, {"ledger"}, FALSE)>>

MCWorkloads == <<[id |-> Missing, product |-> Missing, content |-> "job"]>>

MCDigest == [c \in {"plan", "patch", "note", "gate", "shape", "torn", "job"} |-> c]

MCDomainOf == [n \in {"caps.infra.gate", "shape", "torn"} |->
                 IF n = "caps.infra.gate" THEN "infra" ELSE "misc"]
=============================================================================
