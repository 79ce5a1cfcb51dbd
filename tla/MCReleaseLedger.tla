-------------------------- MODULE MCReleaseLedger ---------------------------
(* Instances of ReleaseLedger for TLC.                                     *)
EXTENDS ReleaseLedger, TLC

(* The threads and commands are interchangeable.                           *)
Symmetry == Permutations(Procs)

Source(n, c) == [names |-> n, content |-> c]

(* Two trees that build, with different file names, and one that does not. *)
MCSources == {Source("go", 1), Source("node", 1), Source("docs", 1)}
MCDetectable == {"go", "node"}
(* Ids of one microsecond sort by hash: here "go" before "node", and       *)
(* against their creation time.                                            *)
MCHashRank ==
  [id \in {"go", "node", "docs"} \X (0..MaxClock) |->
     (CASE id[1] = "go" -> 0 [] id[1] = "node" -> 10 [] OTHER -> 20) - id[2]]
MCSteps == {0, 1, 2, -1}
=============================================================================
