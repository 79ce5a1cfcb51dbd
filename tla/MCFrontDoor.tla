---------------------------- MODULE MCFrontDoor ----------------------------
(* Instance of FrontDoor for TLC.                                          *)
EXTENDS FrontDoor, TLC

CONSTANTS tab1, tab2

MCLogins == {tab1, tab2}
Symmetry == Permutations(MCLogins)

(* The provider's clock is off by the whole leeway, either way.          *)
MCSkews == {-Leeway, Leeway}
=============================================================================
