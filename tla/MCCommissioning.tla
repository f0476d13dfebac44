-------------------------- MODULE MCCommissioning --------------------------
(* An inverter that clamps at 6 W behind registers that carry up to 8 W;   *)
(* the installer enters 4 or 10 W and a curve in or out of that range.     *)
EXTENDS Commissioning

TwoCurves ==
    {[l \in Level |-> IF l = 100 THEN 4 ELSE IF l = 60 THEN 3 ELSE 0],
     [l \in Level |-> IF l = 100 THEN 4 ELSE IF l = 60 THEN 7 ELSE 1]}
TwoFeedMasks == {Level, {60, 100}}
FewLevels == {30, 100, RSE_INVALID}

(* Records of older schemas: rated, pending without ceiling, disabled, and *)
(* with a rating of zero.                                                  *)
Migrated ==
    {FromSchema1(4, TRUE, TRUE), FromSchema1(0, TRUE, TRUE),
     FromSchema3(10, 0, TRUE, FALSE), FromSchema3(10, 6, TRUE, TRUE),
     FromSchema3(10, 10, FALSE, FALSE)}
=============================================================================
