---------------------------- MODULE MCShipRegistry ----------------------------
(***************************************************************************)
(* Instance for TLC: a vessel that holds its certificate and a second one, *)
(* two officers, a strict rule and one that admits waivers.                *)
(***************************************************************************)
EXTENDS ShipRegistry, TLC

CONSTANTS o1, o2, w1, w2, r1, r2, p1, p2, l1, l2, none

MCImo == [v \in Vessels |-> v]
MCFacts == [v \in Vessels |-> [flag |-> "NG", build |-> "KR"]]
MCTerms == {[flag |-> "NG", pct |-> 60, domestic |-> FALSE, waiver |-> FALSE],
            [flag |-> "NG", pct |-> 60, domestic |-> TRUE, waiver |-> TRUE]}

Symmetry == UNION {Permutations({o1, o2}), Permutations({w1, w2}), Permutations({r1, r2}),
                   Permutations({p1, p2}), Permutations({l1, l2})}
=============================================================================
