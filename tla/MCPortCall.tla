------------------------------ MODULE MCPortCall ------------------------------
(***************************************************************************)
(* Instance for TLC: one call through its whole life and a second one that *)
(* can only be created, so that a message may name either; a message that  *)
(* outlives its reservation by one tick.                                   *)
(***************************************************************************)
EXTENDS PortCall, TLC

CONSTANTS o1, o2, none

MCDocType == [d \in Docs |-> "manifest"]
MCExpires == [m \in Messages |-> 2]
MCMaxEvents == [c \in Calls |-> IF c = "c1" THEN 8 ELSE 1]

Symmetry == Permutations({o1, o2})
=============================================================================
