--------------------------- MODULE MCNSWDelivery ----------------------------
(***************************************************************************)
(* Events and runners that differ in nothing.                              *)
(***************************************************************************)
EXTENDS NSWDelivery, TLC

CONSTANTS e1, e2, r1, r2

MCSymmetry == Permutations({e1, e2}) \cup Permutations({r1, r2})
=============================================================================
