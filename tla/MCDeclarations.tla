--------------------------- MODULE MCDeclarations ---------------------------
(***************************************************************************)
(* Instance for TLC: one reference through up to three revisions, plain    *)
(* cargo or cargo with every surcharge and a claim of accreditation.       *)
(* Amounts and rates are scaled down with the width of the integers.       *)
(***************************************************************************)
EXTENDS Declarations, TLC

CONSTANTS d1, d2, d3, q1, q2, none

MCIds == {d1, d2, d3}
MCRequests == {q1, q2}

Plain == [amount |-> 5, tariff |-> 1, vat |-> 1, weight |-> 8, party |-> "acme",
          highRisk |-> FALSE, controlled |-> FALSE, claimsAEO |-> FALSE]
Risky == [amount |-> 9, tariff |-> 3, vat |-> 1, weight |-> 9, party |-> "acme",
          highRisk |-> TRUE, controlled |-> FALSE, claimsAEO |-> TRUE]
MCContents == {Plain, Risky}

MCAnswers == {[score |-> 29, sanctioned |-> FALSE, model |-> TRUE],
              [score |-> 10, sanctioned |-> TRUE, model |-> TRUE],
              [score |-> 10, sanctioned |-> FALSE, model |-> FALSE]}

Symmetry == Permutations(MCIds) \union Permutations(MCRequests)
=============================================================================
