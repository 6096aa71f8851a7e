--------------------------- MODULE MCCallUpQueue ----------------------------
(***************************************************************************)
(* Requests for one terminal, all standard but one, and a capacity that    *)
(* the operator moves between one and two.  The standard requests differ   *)
(* in nothing, so they are a symmetry set.                                 *)
(***************************************************************************)
EXTENDS CallUpQueue, TLC

CONSTANTS q1, q2, q3

MCTerminal == [q \in Requests |-> "T1"]
MCClass == [q \in Requests |-> IF q = q3 THEN "PERISHABLE" ELSE "STANDARD"]
MCSymmetry == Permutations({q1, q2})
=============================================================================
