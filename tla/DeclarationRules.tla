-------------------------- MODULE DeclarationRules --------------------------
(***************************************************************************)
(* The pure rules of internal/declarations and internal/customs: risk      *)
(* lanes, the AEO guard, the duty of a declaration in 64-bit arithmetic,   *)
(* the answer of the scorer and the check of a booking against customs.    *)
(***************************************************************************)
EXTENDS Integers

CONSTANTS
    Scale,         \* 10000 basis points
    Width,         \* 64: the width of int64
    HighValue,     \* DECLARATIONS_HIGH_VALUE_MINOR, 0 switches the rule off
    ToleranceBPS,  \* CUSTOMS_WEIGHT_TOLERANCE_BPS
    Contents       \* what a declaration may say

ASSUME RulesAssumptions ==
    /\ Scale \in Nat \ {0} /\ Width \in Nat \ {0} /\ HighValue \in Nat /\ ToleranceBPS \in Nat
    /\ \A k \in Contents :
          /\ k.amount \in Nat \ {0} /\ k.weight \in Nat \ {0}
          /\ k.tariff \in 0..Scale /\ k.vat \in 0..Scale
          /\ {k.highRisk, k.controlled, k.claimsAEO} \subseteq BOOLEAN

Lanes == {"GREEN", "YELLOW", "RED"}

Least(a, b) == IF a < b THEN a ELSE b
Most(a, b) == IF a < b THEN b ELSE a

\* A bug: the party list is consulted after the score.
AdjustedScoreUnsanctioned(score, sanctioned, k, aeo) ==
    LET origin == Least(100, score + (IF k.highRisk THEN 20 ELSE 0))
        value == Least(100, origin + (IF HighValue > 0 /\ k.amount > HighValue THEN 10 ELSE 0))
        goods == Least(100, value + (IF k.controlled THEN 15 ELSE 0))
    IN IF aeo THEN Most(0, goods - 20) ELSE goods

\* AssignRiskLane, in the order of its rules: every surcharge is capped at 100
\* before the discount of an accredited operator is taken off.
AdjustedScore(score, sanctioned, k, aeo) ==
    LET origin == Least(100, score + (IF k.highRisk THEN 20 ELSE 0))
        value == Least(100, origin + (IF HighValue > 0 /\ k.amount > HighValue THEN 10 ELSE 0))
        goods == Least(100, value + (IF k.controlled THEN 15 ELSE 0))
    IN IF sanctioned THEN 100 ELSE IF aeo THEN Most(0, goods - 20) ELSE goods

AssignRiskLane(score, sanctioned, k, aeo) ==
    LET adjusted == AdjustedScore(score, sanctioned, k, aeo) IN
    IF adjusted >= 70 THEN "RED" ELSE IF adjusted >= 40 THEN "YELLOW" ELSE "GREEN"

\* A claim of accreditation that the registry does not confirm is not cleared
\* automatically.
ApplyAEOClaimGuard(lane, claimed, verified) ==
    IF claimed /\ ~verified /\ lane = "GREEN" THEN "YELLOW" ELSE lane

\* The scorer's answer counts only with a score in range and a model version.
validateScorerVerdict(answer) == answer.score \in 0..100 /\ answer.model

-----------------------------------------------------------------------------
(* Duty.                                                                   *)

\* What an int64 holds after an addition or a multiplication.
Wrap(x) ==
    LET m == x % 2^Width IN IF m >= 2^(Width - 1) THEN m - 2^Width ELSE m

\* Go divides towards zero.
Quotient(a, b) == IF a >= 0 THEN a \div b ELSE -((-a) \div b)

\* Rounds half up.
applyBPS(amount, bps) == Quotient(Wrap(Wrap(amount * bps) + Scale \div 2), Scale)

\* Freight, insurance, levy and excise go the way of the invoice amount and
\* the tariff; one of each kind stands for them.
CalculateDuty(k) ==
    LET duty == applyBPS(k.amount, k.tariff)
        vat == applyBPS(Wrap(k.amount + duty), k.vat)
    IN Wrap(duty + vat)

-----------------------------------------------------------------------------
(* Cross-validation of a booking.                                          *)

weightWithinTolerance(customsKg, bookingKg) ==
    LET difference == IF customsKg < bookingKg THEN bookingKg - customsKg ELSE customsKg - bookingKg
    IN difference * Scale <= bookingKg * ToleranceBPS

\* Status first, then weight, then the parties; only a clean pass is a match.
Evaluate(status, k, weight, party) ==
    /\ status = "CLEARED"
    /\ weightWithinTolerance(k.weight, weight)
    /\ k.party = party
=============================================================================
