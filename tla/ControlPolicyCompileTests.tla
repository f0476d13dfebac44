--------------------- MODULE ControlPolicyCompileTests ----------------------
(***************************************************************************)
(* The assertions that the compiler evaluates over ControlPolicy.h, over   *)
(* the rules of the models: what the firmware is tested for is true of the *)
(* models too.  Those over millis() are theorems of PanelProofs.           *)
(***************************************************************************)
EXTENDS ControlPolicy, Display

(* Bit k of a mask is contact k. *)
MaskOf(bits) == {k \in Contact : (bits \div (2 ^ k)) % 2 = 1}

TableOf(profile) == [bits \in 0..15 |-> DecodeRsePercent(MaskOf(bits), profile)]

(* A table from mask 0 on. *)
Is(table, levels) == \A bits \in 0..15 : table[bits] = levels[bits + 1]

StrictTable ==
    <<-1, 100, 60, -1, 30, -1, -1, -1, 0, -1, -1, -1, -1, -1, -1, -1>>
WestnetzTable ==
    <<100, 100, 60, 100, 30, 100, 30, 100, 0, 100, 0, 100, 0, 100, 0, 100>>
EweTable ==
    <<-2, 100, 60, -2, 30, -2, -2, -2, 0, -2, -2, -2, -2, -2, -2, -2>>
FnnTable ==
    <<100, -1, 60, -1, 30, -1, 30, -1, 0, -1, 0, -1, 0, -1, 0, -1>>

ASSUME TruthTables ==
    /\ Is(TableOf("StrictOneHot4"), StrictTable)
    /\ Is(TableOf("Westnetz4"), WestnetzTable)
    /\ Is(TableOf("EweHold4"), EweTable)
    /\ Is(TableOf("FnnEza3"), FnnTable)

Warnings ==
    /\ RseMaskNeedsWarning(MaskOf(6), "Westnetz4")
    /\ RseMaskNeedsWarning(MaskOf(14), "FnnEza3")

ManualTestAndOta ==
    /\ ManualTestRespectsPhysicalRse(30, 60)
    /\ ~ManualTestRespectsPhysicalRse(100, 60)
    /\ ~ManualTestRespectsPhysicalRse(0, RSE_INVALID)
    /\ OtaControlStateIsSafe(FALSE, FALSE, 100, TRUE, TRUE)
    /\ ~OtaControlStateIsSafe(FALSE, FALSE, 60, TRUE, TRUE)
    /\ ~OtaControlStateIsSafe(TRUE, FALSE, 100, TRUE, TRUE)

PowerLimits ==
    /\ \A percent \in Level :
          /\ CalculatePowerLimit(10000, percent) = 100 * percent
          /\ CalculatePowerLimit(15000, percent) = 150 * percent
    /\ CalculatePowerLimit(12345, 30) = 3704

FeedInLimits ==
    /\ CalculateFeedInLimit(18000, 15000, 100) = 15000
    /\ CalculateFeedInLimit(18000, 15000, 60) = 10800
    /\ CalculateFeedInLimit(18000, 15000, 30) = 5400
    /\ CalculateFeedInLimit(18000, 15000, 0) = 0
    /\ CalculateFeedInLimit(10000, 15000, 100) = 10000
    /\ CalculateFeedInLimit(30000, 15000, 60) = 15000

EditableRseTargets ==
    [level \in Level |-> IF level = 100 THEN 15000 ELSE IF level = 60 THEN 10800
                         ELSE IF level = 30 THEN 5400 ELSE 250]

ConfiguredLevels ==
    /\ \A level \in Level :
          ConfiguredRsePower(EditableRseTargets, level) = EditableRseTargets[level]
    /\ ConfiguredRsePower(EditableRseTargets, 42) = 0
    /\ {level \in Level : ConfiguredFeedEnabled({100, 30, 0}, level)} = {100, 30, 0}
    /\ EffectiveFeedOutput(10800, TRUE) = 10800
    /\ EffectiveFeedOutput(10800, FALSE) = 0

Ratings ==
    /\ MayValidateInverterRating(FALSE, FALSE, 100)
    /\ ~MayValidateInverterRating(TRUE, FALSE, 100)
    /\ ~MayValidateInverterRating(FALSE, TRUE, 100)
    /\ \A level \in {60, 30, 0, RSE_INVALID} :
          ~MayValidateInverterRating(FALSE, FALSE, level)
    /\ ~MayControlInverter(TRUE, FALSE) /\ MayControlInverter(TRUE, TRUE)

Grids ==
    \A count \in 1..6 :
        <<DisplayGridColumns(count), DisplayGridRows(count)>>
            = << <<1, 1>>, <<2, 1>>, <<3, 1>>, <<2, 2>>, <<3, 2>>, <<3, 2>> >>[count]

DisplayedWatts ==
    \A current \in {14000, 13980, 14020} : ApproachDisplayedWatts(current, 14000) = 14000

ASSUME CompileTests ==
    /\ Warnings /\ ManualTestAndOta /\ PowerLimits /\ FeedInLimits
    /\ ConfiguredLevels /\ Ratings /\ Grids /\ DisplayedWatts
=============================================================================
