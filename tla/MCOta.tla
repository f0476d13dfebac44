------------------------------- MODULE MCOta -------------------------------
(* Version 1 is delivered, 2 passes its trial, 3 does not. *)
EXTENDS Ota

Releases == {1, 2, 3}
Bad == {3}

Count(kind, k) == IF kind = k THEN 1 ELSE 0

(* One fault of each kind, and power is lost once more. *)
FaultAndPowerLoss ==
    {[k \in Fault |-> Count(a, k) + Count("power", k)] : a \in Fault}
=============================================================================
