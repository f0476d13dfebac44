--------------------------- MODULE ControlPolicy ---------------------------
(***************************************************************************)
(* The pure control rules of include/ControlPolicy.h and the two helpers   *)
(* of main.cpp that apply them to one inverter's settings.                 *)
(*                                                                         *)
(* A mask is the set of closed ripple-control contacts: contact k of the   *)
(* model is bit k of the firmware's 4-bit mask.                            *)
(***************************************************************************)
EXTENDS Integers

Contact == 0..3

Mask == SUBSET Contact

(* Enumerators of RseProfile. *)
RseProfile == {"StrictOneHot4", "Westnetz4", "EweHold4", "FnnEza3"}

(* The levels of the truth tables and the two results that are no level. *)
Level == {0, 30, 60, 100}
RSE_INVALID == -1
RSE_HOLD_LAST == -2
Decoded == Level \cup {RSE_INVALID, RSE_HOLD_LAST}

ContactLevel(k) == IF k = 0 THEN 100 ELSE IF k = 1 THEN 60
                                     ELSE IF k = 2 THEN 30 ELSE 0

IsOneHot4(mask) == \E k \in Contact : mask = {k}

(* The level of the only closed contact. *)
OneHotLevel(mask) == ContactLevel(CHOOSE k \in Contact : mask = {k})

(* Several closed contacts: the most restrictive one wins, none releases. *)
PriorityLevel(mask) ==
    IF 3 \in mask THEN 0 ELSE IF 2 \in mask THEN 30
                          ELSE IF 1 \in mask THEN 60 ELSE 100

(* What the one-hot profiles and the priority profiles leave to decide.    *)
OneHotOr(mask, other) == IF IsOneHot4(mask) THEN OneHotLevel(mask) ELSE other
PriorityOr(mask, full) == IF 0 \in mask THEN full ELSE PriorityLevel(mask)

DecodeRsePercent(mask, profile) ==
    IF profile = "EweHold4" THEN OneHotOr(mask, RSE_HOLD_LAST)
    ELSE IF profile = "Westnetz4" THEN PriorityOr(mask, 100)
    ELSE IF profile = "FnnEza3" THEN PriorityOr(mask, RSE_INVALID)
    ELSE OneHotOr(mask, RSE_INVALID)

(* More closed contacts than a priority profile expects.                   *)
RseMaskNeedsWarning(mask, profile) ==
    LET counted == IF profile = "Westnetz4" THEN mask
                   ELSE IF profile = "FnnEza3" THEN mask \ {0} ELSE {}
    IN  \E j, k \in counted : j # k

(* Mutant: the level of the input is not compared.                         *)
ManualTestIgnoresLevel(requested, physical) == physical >= 0

ManualTestRespectsPhysicalRse(requested, physical) ==
    physical >= 0 /\ requested <= physical

OtaControlStateIsSafe(manualTest, applying, physical, inputsStable, ready) ==
    ~manualTest /\ ~applying /\ physical = 100 /\ inputsStable /\ ready

(* Kaufmaennisch rounded share of the installed PV power. *)
CalculatePowerLimit(maximum, percent) == (maximum * percent + 50) \div 100

CalculateFeedInLimit(installed, ceiling, percent) ==
    LET share == CalculatePowerLimit(installed, percent)
    IN  IF share < ceiling THEN share ELSE ceiling

(* A curve gives watts, and a set of levels permits feed-in, at the four   *)
(* levels only.                                                            *)
ConfiguredRsePower(curve, percent) == IF percent \in Level THEN curve[percent] ELSE 0
ConfiguredFeedEnabled(levels, percent) == percent \in levels \cap Level

EffectiveFeedOutput(readback, feedEnabled) == IF feedEnabled THEN readback ELSE 0

MayValidateInverterRating(dryRun, manualTest, physical) ==
    ~dryRun /\ ~manualTest /\ physical = 100

MayControlInverter(enabled, verified) == enabled /\ verified

(* The configured curve capped by the verified ceiling; 0 is "no ceiling". *)
WattsForPercent(curve, ceiling, percent) ==
    IF ceiling > 0 /\ curve[percent] > ceiling THEN ceiling ELSE curve[percent]
=============================================================================
