---------------------------- MODULE ConfigRules ----------------------------
(***************************************************************************)
(* The settings of one inverter (InverterConfig of include/AppConfig.h):   *)
(* the curve derived from its ratings, the sanitizing that every load and  *)
(* save ends with, and what migrations make of the records of older        *)
(* schemas, and what the USB commands make of it before they save.  A      *)
(* curve gives the watts of each level.                                    *)
(***************************************************************************)
EXTENDS ControlPolicy

CONSTANTS
    Quantity,       \* registers of a power value (modbusQuantity), 1 or 2
    RegisterMax     \* largest value of one register (65535)

ASSUME RulesAssumption == Quantity \in {1, 2} /\ RegisterMax \in Nat \ {0}

InverterConfig ==
    [enabled : BOOLEAN, ratingVerified : BOOLEAN,
     maxPvPowerW : Nat, inverterLimitW : Nat,
     rsePowerW : [Level -> Nat], feedEnabledMask : SUBSET Level]

Controllable(c) == c.enabled /\ c.ratingVerified

Excluded(c) == [c EXCEPT !.enabled = FALSE, !.ratingVerified = FALSE]

DeriveRseTargets(c) ==
    [c EXCEPT
        !.rsePowerW = [l \in Level |-> IF l = 0 THEN 0
            ELSE CalculateFeedInLimit(c.maxPvPowerW, c.inverterLimitW, l)],
        !.feedEnabledMask = Level]

(* A rating that is missing or does not fit must not become a command.     *)
NeedsExclusion(c) ==
    \/ c.maxPvPowerW = 0
    \/ c.ratingVerified /\ c.inverterLimitW = 0
    \/ Quantity = 1 /\ c.inverterLimitW > RegisterMax

CapCurve(c) ==
    IF c.ratingVerified
    THEN [c EXCEPT !.rsePowerW = [l \in Level |->
             IF @[l] > c.inverterLimitW THEN c.inverterLimitW ELSE @[l]]]
    ELSE c

(* Mutant: the curve is left as it is. *)
SanitizeKeepsCurve(c) == IF NeedsExclusion(c) THEN Excluded(c) ELSE c

Sanitize(c) == CapCurve(IF NeedsExclusion(c) THEN Excluded(c) ELSE c)

(* Schemas 2 and 3 hold two ratings and no curve; schema 1 holds one       *)
(* rating, which becomes both.                                             *)
OlderSettings(rating, ceiling, enabled, verified) ==
    Sanitize(DeriveRseTargets(
        [enabled |-> enabled, ratingVerified |-> verified,
         maxPvPowerW |-> rating, inverterLimitW |-> ceiling,
         rsePowerW |-> [l \in Level |-> 0], feedEnabledMask |-> {}]))

FromSchema3(rating, ceiling, enabled, verified) ==
    OlderSettings(rating, ceiling, enabled, verified)

FromSchema1(rating, enabled, verified) ==
    OlderSettings(rating, rating, enabled, verified)
-----------------------------------------------------------------------------
(* The USB commands. *)

(* The rating is confirmed and usable. *)
HasRating(c) == c.ratingVerified /\ c.inverterLimitW > 0

(* max: another PV rating discards the verified one.                       *)
MaxSettings(c, watts) ==
    IF c.maxPvPowerW = watts THEN c
    ELSE [c EXCEPT !.maxPvPowerW = watts, !.inverterLimitW = 0,
                   !.ratingVerified = FALSE]

LimitSettings(c, watts) ==
    [c EXCEPT !.inverterLimitW = watts, !.ratingVerified = TRUE]

FitsRegisters(watts) == Quantity = 1 => watts <= RegisterMax

(* rsecfg checks and assigns the levels one after the other, 100 % first:  *)
(* the first one out of range ends the command.                            *)
OutOfRange(c, curve) ==
    {l \in Level : \/ ~FitsRegisters(curve[l])
                   \/ HasRating(c) /\ curve[l] > c.inverterLimitW}

RseCfgSettings(c, curve, mask) ==
    [c EXCEPT !.rsePowerW = curve, !.feedEnabledMask = mask]

RejectedSettings(c, curve) ==
    [c EXCEPT !.rsePowerW = [l \in Level |->
        IF \A bad \in OutOfRange(c, curve) : bad < l THEN curve[l] ELSE @[l]]]

(* commit: the ID goes off, keeps its rating, waits for its validation, or *)
(* gets the validated ceiling.                                             *)
OffSettings(c, watts) == [c EXCEPT !.enabled = FALSE, !.maxPvPowerW = watts]

OnSettings(c, watts) == [c EXCEPT !.enabled = TRUE, !.maxPvPowerW = watts]

PendingSettings(c, watts) ==
    [OnSettings(c, watts) EXCEPT !.inverterLimitW = 0, !.ratingVerified = FALSE]

RatedSettings(c, watts, ceiling) ==
    LimitSettings(OnSettings(c, watts), ceiling)

(* What one register can carry of the wanted watts (validationWatts).      *)
ValidationWatts(watts) ==
    IF FitsRegisters(watts) THEN watts ELSE RegisterMax
=============================================================================
