----------------------------- MODULE MCVesselDues -----------------------------
(***************************************************************************)
(* Instance for TLC: an offshore and a cruise call; for tankers an open    *)
(* band schedule, a second registration of its id with other rules and a   *)
(* later one for a past window; for cruises two rates whose sum passes the *)
(* largest integer for the large manifest.                                 *)
(***************************************************************************)
EXTENDS VesselDues, TLC

CONSTANTS k1, k2, none

Never == 9
R(component, unit, amount, lo, hi) ==
    [component |-> component, unit |-> unit, amount |-> amount, bandMin |-> lo, bandMax |-> hi]
S(id, domain, from, active, rules) ==
    [id |-> id, domain |-> domain, from |-> from, to |-> Never, active |-> active, rules |-> rules]

MCOffered ==
    {S(1, "OFFSHORE_TERMINAL", 1, TRUE, {R("A", "PER_GT_BAND", 2, 0, 3), R("A", "PER_GT_BAND", 3, 3, 5),
                                         R("B", "PER_TON", 1, 0, 0)}),
     S(1, "OFFSHORE_TERMINAL", 1, TRUE, {R("A", "PER_GRT", 1, 0, 0)}),
     S(2, "OFFSHORE_TERMINAL", 2, TRUE, {R("A", "PER_GRT", 4, 0, 0)}),
     S(3, "CRUISE_DUES", 1, TRUE, {R("P", "PER_PAX", 2, 0, 0), R("Q", "PER_PAX", 1, 0, 0), R("C", "PER_CALL", 1, 0, 0)}),
     S(4, "CRUISE_DUES", 1, FALSE, {R("P", "PER_PAX", 1, 0, 0)})}

MCTankers == {[gross |-> 4, cargo |-> 1], [gross |-> 6, cargo |-> 0]}
MCWindows == {[start |-> 1, end |-> 3], [start |-> 2, end |-> 4]}

Symmetry == Permutations({k1, k2})
=============================================================================
