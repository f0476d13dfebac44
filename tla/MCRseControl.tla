---------------------------- MODULE MCRseControl ----------------------------
(* Two inverters: the first is capped by its verified ceiling and loses its *)
(* feed permission at 0 %; the second keeps it and only gets 0 W.  The      *)
(* operator enters 6 W as rating or ceiling, a curve that fits both and one *)
(* whose level 60 % does not.                                               *)
EXTENDS RseControl

Inverter(rating, ceiling, share, levels) ==
    CapCurve([enabled |-> TRUE, ratingVerified |-> TRUE,
              maxPvPowerW |-> rating, inverterLimitW |-> ceiling,
              rsePowerW |-> [l \in Level |-> l \div share],
              feedEnabledMask |-> levels])

TwoInverters ==
    {<<Inverter(10, 8, 10, {30, 60, 100}), Inverter(5, 5, 20, Level)>>}

EnteredCurves ==
    {[l \in Level |-> l \div 25],
     [l \in Level |-> IF l = 60 THEN 9 ELSE l \div 25]}
EnteredMasks == {Level}

(* Contact patterns: full release, full reduction, and no closed contact.   *)
Released == {0}
Reduced == {3}
Open == {}
ReleaseReduceOpen == {Released, Reduced, Open}

(* What may happen to a bridge that is the sole writer, to one whose TEST  *)
(* and batches are disturbed once more, to one that is not the sole writer, *)
(* and to one that is being set up.                                         *)
SoleMix == {"contact", "fault", "reboot", "test", "apply", "dryrun", "profile"}
TestMix == {"contact", "fault", "test"}
SharedMix == {"contact", "wrap", "foreign", "id", "probe"}
SetupMix == {"contact", "fault", "reboot", "setup", "id"}
SafetyMixes ==
    {[kinds |-> SoleMix, left |-> 3], [kinds |-> TestMix, left |-> 4],
     [kinds |-> SharedMix, left |-> 4], [kinds |-> SetupMix, left |-> 3]}
ContactMix == {[kinds |-> {"contact"}, left |-> 2]}

(* Only the sole writer is installed with each of the profiles.             *)
SafetyInit == Init /\ (budget.kinds # SoleMix => profile = "StrictOneHot4")

SafetySpec == SafetyInit /\ [][Next]_vars
=============================================================================
