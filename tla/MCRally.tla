------------------------------- MODULE MCRally -------------------------------
(***************************************************************************)
(* Three players, an order that lasts one unit of time and may be repeated *)
(* after four, on a map with flags that rally.                             *)
(***************************************************************************)
EXTENDS Rally, TLC

CONSTANTS p1, p2, p3

ThreePlayers == {p1, p2, p3}
Symmetry3 == Permutations(ThreePlayers)
===============================================================================
