---------------------------- MODULE MCControlLoop ----------------------------
(* Instances of ControlLoop for TLC.                                       *)
EXTENDS ControlLoop

(* Two keys, and a condition of one of them that JSON cannot encode.       *)
MCMixed == {[key |-> "disk", sealable |-> TRUE], [key |-> "node", sealable |-> TRUE],
            [key |-> "node", sealable |-> FALSE]}
=============================================================================
