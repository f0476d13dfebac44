---------------------------- MODULE MCRseUpdate -----------------------------
(* Four kinds of behaviour in one run: a reliable bus with TEST, updates,  *)
(* reboots and the wrap of millis(); updates and bus failures; updates and *)
(* bus failures while inverters are set up anew; and a bus with failures,  *)
(* other masters and IDs that come and go.                                 *)
EXTENDS MCRseControl, RseUpdate

ReliableMix == {"contact", "test", "update", "reboot", "wrap"}
FaultyMix == {"contact", "fault", "update"}
NewSetupMix == {"fault", "update", "setup"}
UnreliableMix == {"contact", "fault", "foreign", "id", "probe"}
LiveMixes == [kinds : {ReliableMix, FaultyMix, NewSetupMix, UnreliableMix},
              left : {3}]

(* Each kind with some of the profiles. *)
LiveInit ==
    /\ UpdateInit
    /\ budget.kinds = ReliableMix => profile # "EweHold4"
    /\ budget.kinds = UnreliableMix => profile # "FnnEza3"
    /\ budget.kinds \in {FaultyMix, NewSetupMix} => profile = "StrictOneHot4"

LiveSpec == LiveInit /\ [][UpdateNext]_controlUpdateVars /\ UpdateFairness
=============================================================================
