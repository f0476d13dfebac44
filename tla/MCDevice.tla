------------------------------ MODULE MCDevice ------------------------------
(* Four parts of the firmware that share no state.  One of them moves in a *)
(* behaviour, the others rest in their first state, so that their states   *)
(* add up and each property speaks of the behaviours of its own part.      *)
EXTENDS RollbackGesture, EventLog, ControlPolicyCompileTests, OtaSchedule

VARIABLE part

gestureVars == vars
deviceVars == <<part, gestureVars, logVars, displayVars, scheduleVars>>

Only(name, others) == part = name /\ UNCHANGED <<part, others>>

OnlyGesture == Only("gesture", <<logVars, displayVars, scheduleVars>>)
OnlyLog == Only("log", <<gestureVars, displayVars, scheduleVars>>)
OnlyDisplay == Only("display", <<gestureVars, logVars, scheduleVars>>)
OnlySchedule == Only("schedule", <<gestureVars, logVars, displayVars>>)

SomeTiles == {{}, {1}, {1, 2}, 1..3, 1..4, 1..5, 1..6}

(* The end of February in a leap year, and the last day but one of a       *)
(* century; that the day numbers are right of all dates is a theorem.      *)
FirstDate == <<2024, 2, 28>>
SomeDates == {FirstDate, <<2099, 12, 30>>}

(* 15, 30 and 60 minutes, 6 and 24 hours, in quarters of an hour.          *)
Quarters == <<1, 2, 4, 24, 96>>

(* A part that rests needs only one first state. *)
DeviceInit ==
    /\ part \in {"gesture", "log", "display", "schedule"}
    /\ Init /\ LogInit /\ DisplayInit /\ ScheduleInit
    /\ part # "display" => shownTiles = {} /\ page = "ota"
    /\ part # "schedule" => date = FirstDate

DeviceNext ==
    \/ OnlyGesture /\ Next
    \/ OnlyLog /\ LogNext
    \/ OnlyDisplay /\ DisplayNext
    \/ OnlySchedule /\ ScheduleNext

(* The fairness of the part that moves. *)
DeviceSpec ==
    /\ DeviceInit /\ [][DeviceNext]_deviceVars
    /\ WF_deviceVars(OnlyGesture /\ Loop)
    /\ WF_deviceVars(OnlyGesture /\ Tick)
    /\ WF_deviceVars(OnlyDisplay /\ Frame)
=============================================================================
