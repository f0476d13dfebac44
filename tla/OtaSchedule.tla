---------------------------- MODULE OtaSchedule ----------------------------
(***************************************************************************)
(* When the bridge looks for updates by itself (OtaManager::service() and  *)
(* the settings it goes by): once a day, in the hour that follows the      *)
(* scheduled time of the battery-backed clock, with a pause after every    *)
(* failure.  Time is a number of Unit minutes; the clock is evaluated at   *)
(* least once in each.  What an installation does is in Ota.tla.           *)
(*                                                                         *)
(* Times of millis() are not modelled as such: a pause is what is left of  *)
(* it, 0 for the stored 0 that means none.                                 *)
(***************************************************************************)
EXTENDS Integers

CONSTANTS
    DayLength,      \* 1440 minutes
    WindowLength,   \* OTA_WINDOW_MINUTES
    Backoff,        \* FAILURE_BACKOFF_MS
    Starts,         \* dates <<year, month, day>> at which a behaviour starts
    Schedules,      \* times of day that the operator sets
    DefaultTime,    \* 01:00
    ShiftLength,    \* how far the clock is set: daylight saving time
    MaxDays,        \* bound on the days of a behaviour
    MaxEvents       \* bound on commands, faults and reboots

MinuteOfDay == 0..(DayLength - 1)

(* A shift of the clock leads out of a window that it falls into, and does *)
(* not lead around the day into it again.                                  *)
ASSUME ScheduleAssumption ==
    /\ DayLength \in Nat /\ ShiftLength \in Nat
    /\ WindowLength \in Nat \ {0} /\ WindowLength <= ShiftLength
    /\ WindowLength + ShiftLength <= DayLength
    /\ Backoff \in [1..5 -> Nat] /\ Backoff[1] > 0
    /\ \A n \in 1..5 : Backoff[n] >= Backoff[1]
    /\ WindowLength % Backoff[1] = 0
    /\ Schedules \subseteq MinuteOfDay /\ DefaultTime \in MinuteOfDay

VARIABLES
    date, minute, clockIsValid,     \* the clock
    settings,       \* in RAM: wifi, automatic, schedule
    stored,         \* in NVS: the same
    lastScheduledDay, failures,     \* in RAM
    noted,          \* in NVS: day and failures
    pause,          \* until nextAutomaticCheckMs_
    currentWindowDay,               \* window of the last attempt, in RAM
    evaluated,      \* service() has looked at this time
    ready,          \* Wi-Fi is connected and the control state safe
    today,          \* history: days that have begun
    attempts,       \* ... checks of this window, since no pause was cleared
    results,        \* ... checks of it that found no update or installed it
    forgotten,      \* ... it was one of these, and a restart forgot it
    doneOn,         \* ... window that is noted as done
    usable,         \* ... on, with a valid clock, since before this window
    saved,          \* ... no command has failed to save since one saved
    events

rtc == <<date, minute, clockIsValid>>
diagnostics == <<lastScheduledDay, failures, noted>>
counted == <<attempts, results, forgotten, doneOn>>
scheduleVars == <<rtc, settings, stored, diagnostics, pause, currentWindowDay,
                  evaluated, ready, today, counted, usable, saved, events>>

-----------------------------------------------------------------------------
(* The calendar. *)

IsLeap(year) == year % 4 = 0 /\ (year % 100 # 0 \/ year % 400 = 0)

DaysIn(year, month) ==
    IF month = 2 THEN IF IsLeap(year) THEN 29 ELSE 28
    ELSE IF month \in {4, 6, 9, 11} THEN 30 ELSE 31

Dates == {d \in Int \X (1..12) \X (1..31) : d[3] <= DaysIn(d[1], d[2])}

ASSUME StartsAssumption == Starts \subseteq Dates

DayAfter(d) ==
    IF d[3] < DaysIn(d[1], d[2]) THEN <<d[1], d[2], d[3] + 1>>
    ELSE IF d[2] < 12 THEN <<d[1], d[2] + 1, 1>>
    ELSE <<d[1] + 1, 1, 1>>

DayBefore(d) ==
    IF d[3] > 1 THEN <<d[1], d[2], d[3] - 1>>
    ELSE IF d[2] > 1 THEN <<d[1], d[2] - 1, DaysIn(d[1], d[2] - 1)>>
    ELSE <<d[1] - 1, 12, 31>>

(* Julian day number: the year begins in March. *)
CalendarDayNumber(d) ==
    LET a == (14 - d[2]) \div 12
        y == d[1] + 4800 - a
        m == d[2] + 12 * a - 3
    IN  d[3] + (153 * m + 2) \div 5 + 365 * y
            + y \div 4 - y \div 100 + y \div 400 - 32045

-----------------------------------------------------------------------------
(* The window. *)

SinceSchedule == (minute - settings.schedule) % DayLength
InWindow == SinceSchedule < WindowLength

(* Mutant: after midnight a window belongs to the new day. *)
WindowDayAtMidnight == CalendarDayNumber(date)

(* The day on which the window opened. *)
WindowDay ==
    CalendarDayNumber(date) - (IF InWindow /\ minute < settings.schedule THEN 1 ELSE 0)

(* The same in days that have begun: when the clock last came to the       *)
(* scheduled time.                                                         *)
OpenedOn(day, time, schedule) == IF time >= schedule THEN day ELSE day - 1

(* The note of a window that has been used was not written, and is gone. *)
Forgets == /\ results > 0 /\ noted.day # lastScheduledDay
           /\ lastScheduledDay' # lastScheduledDay

(* Each window is counted anew, attempts also when a pause was cleared. *)
Recount(cleared) ==
    LET same == OpenedOn(today', minute', settings'.schedule)
                    = OpenedOn(today, minute, settings.schedule)
    IN  /\ attempts' = IF same /\ InWindow /\ ~cleared THEN attempts ELSE 0
        /\ results' = IF same THEN results ELSE 0
        /\ forgotten' = (same /\ (forgotten \/ Forgets))

Count(cleared) == Recount(cleared) /\ UNCHANGED doneOn

(* A window is usable that finds the bridge on and its clock valid. *)
KeepsUsable ==
    usable' = (/\ clockIsValid' /\ settings'.automatic
               /\ usable \/ ~InWindow \/ ~InWindow')

-----------------------------------------------------------------------------
(* service() *)

PauseAfter(failed) == Backoff[IF failed = 0 THEN 1 ELSE IF failed > 5 THEN 5 ELSE failed]

AtMostSix(n) == IF n > 6 THEN 6 ELSE n      \* all beyond 5 are alike

Looks == ~evaluated /\ UNCHANGED <<rtc, stored, ready, today>>

Evaluates == Looks /\ evaluated' = TRUE /\ UNCHANGED <<usable, saved>>

Off ==
    /\ Evaluates
    /\ ~settings.automatic \/ ~clockIsValid
    /\ UNCHANGED <<settings, diagnostics, pause, currentWindowDay, counted, events>>

Enabled == settings.automatic /\ clockIsValid
IsOpen == InWindow /\ lastScheduledDay # WindowDay

(* Mutant: the pause of the last failure outlasts its window. *)
ClosedKeepsPause ==
    /\ Evaluates /\ Enabled /\ ~IsOpen
    /\ UNCHANGED <<settings, diagnostics, pause, currentWindowDay, counted, events>>

(* Outside the window, or its check is done: no pause goes on. *)
Closed ==
    /\ Evaluates /\ Enabled /\ ~IsOpen
    /\ pause' = 0
    /\ UNCHANGED <<settings, diagnostics, currentWindowDay, counted, events>>

Waits ==
    /\ Evaluates /\ Enabled /\ IsOpen
    /\ ~ready \/ pause > 0
    /\ UNCHANGED <<settings, diagnostics, pause, currentWindowDay, counted, events>>

Attempts ==
    /\ Looks /\ Enabled /\ IsOpen
    /\ ready /\ pause = 0

(* saveDiagnostics(), called once or more: a call may write one of the two *)
(* or none, and nobody asks.                                               *)
SaveDiagnostics(days, counts) ==
    noted' \in [day : {noted.day} \cup days, failures : {noted.failures} \cup counts]

(* In an attempt this is a fault of its own.                               *)
Counts(saves) == events' = (IF saves THEN events ELSE events - 1) /\ events' >= 0

(* A check fails or finds nothing; or a download fails after the check for *)
(* it has counted as a success.                                            *)
Checks ==
    \/ /\ failures' \in {0, AtMostSix(failures + 1)}
       /\ SaveDiagnostics({lastScheduledDay}, {failures'})
    \/ /\ failures' = 1
       /\ SaveDiagnostics({lastScheduledDay}, {0, 1})

(* The manifest cannot be had; or the image of the update cannot; or the   *)
(* update is withdrawn between the check and the download.                 *)
AttemptFails ==
    /\ Attempts /\ Evaluates /\ Checks
    /\ currentWindowDay' = WindowDay
    /\ attempts' = attempts + 1
    /\ pause' = PauseAfter(failures')
    /\ Counts(noted' = [day |-> lastScheduledDay, failures |-> failures'])
    /\ UNCHANGED <<lastScheduledDay, settings, results, forgotten, doneOn>>

UpToDate ==
    /\ Attempts /\ Evaluates
    /\ SaveDiagnostics({lastScheduledDay, WindowDay}, {0})
    /\ Counts(noted' = [day |-> WindowDay, failures |-> 0])
    /\ lastScheduledDay' = WindowDay /\ failures' = 0
    /\ currentWindowDay' = WindowDay /\ pause' = 0
    /\ attempts' = attempts + 1 /\ results' = results + 1
    /\ doneOn' = OpenedOn(today, minute, settings.schedule)
    /\ UNCHANGED <<settings, forgotten>>

(* begin(): everything is as it was stored. *)
Begins ==
    /\ evaluated' = FALSE
    /\ settings' = stored /\ pause' = 0 /\ currentWindowDay' = -1 /\ saved' = TRUE
    /\ lastScheduledDay' = noted'.day /\ failures' = noted'.failures
    /\ UNCHANGED <<rtc, stored, ready, today>>
    /\ KeepsUsable

(* The update is installed, and the bridge restarts into it. *)
Installs ==
    /\ Attempts
    /\ SaveDiagnostics({lastScheduledDay, WindowDay}, {0})
    /\ Counts(noted' = [day |-> WindowDay, failures |-> 0])
    /\ Begins
    /\ LET same == settings'.schedule = settings.schedule
       IN  /\ attempts' = 0 /\ results' = IF same THEN results + 1 ELSE 0
           /\ forgotten' = (same /\ (forgotten \/ noted'.day # WindowDay))
    /\ doneOn' = OpenedOn(today, minute, settings.schedule) + noted'.day - WindowDay

AttemptSucceeds == UpToDate \/ Installs

Service == Off \/ Closed \/ Waits \/ AttemptFails \/ AttemptSucceeds

-----------------------------------------------------------------------------
(* Commands and reboots. *)

Event == evaluated /\ events > 0 /\ events' = events - 1

(* save() writes the settings that differ, one after the other, and tries  *)
(* the next ones when one cannot be written.                               *)
Save(new) ==
    \/ stored' = new /\ saved' = TRUE
    \/ /\ stored' \in [wifi : {stored.wifi, new.wifi},
                       automatic : {stored.automatic, new.automatic},
                       schedule : {stored.schedule, new.schedule}]
       /\ saved' = FALSE

Told ==
    /\ Event /\ evaluated' = FALSE
    /\ UNCHANGED <<rtc, diagnostics, currentWindowDay, today>>

SetAutomatic(on) ==
    /\ Told
    /\ LET new == [settings EXCEPT !.automatic = on]
       IN  Save(new) /\ settings' = IF saved' THEN new ELSE settings
    /\ pause' = IF saved' /\ on THEN 0 ELSE pause
    /\ Count(saved' /\ on) /\ KeepsUsable
    /\ UNCHANGED ready

SetSchedule(time) ==
    /\ Told
    /\ LET new == [settings EXCEPT !.schedule = time]
       IN  Save(new) /\ settings' = IF saved' THEN new ELSE settings
    /\ pause' = IF saved' THEN 0 ELSE pause
    /\ Count(saved') /\ KeepsUsable
    /\ UNCHANGED ready

(* A network that cannot be saved is used until the next boot. *)
SaveWifi ==
    /\ Told
    /\ settings' = [settings EXCEPT !.wifi = TRUE] /\ Save(settings')
    /\ KeepsUsable
    /\ UNCHANGED <<pause, counted, ready>>

(* Mutant: the update client stays on without a network. *)
ClearWifiAlone ==
    /\ Told
    /\ settings' = [settings EXCEPT !.wifi = FALSE] /\ ready' = FALSE
    /\ \/ stored' = [wifi |-> FALSE, automatic |-> FALSE, schedule |-> DefaultTime]
          /\ saved' = TRUE
       \/ UNCHANGED stored /\ saved' = FALSE
    /\ KeepsUsable
    /\ UNCHANGED <<pause, counted>>

(* The store is cleared; the time of day in RAM is not. *)
ClearWifi ==
    /\ Told
    /\ settings' = [settings EXCEPT !.wifi = FALSE, !.automatic = FALSE]
    /\ ready' = FALSE
    /\ \/ stored' = [wifi |-> FALSE, automatic |-> FALSE, schedule |-> DefaultTime]
          /\ saved' = TRUE
       \/ UNCHANGED stored /\ saved' = FALSE
    /\ KeepsUsable
    /\ UNCHANGED <<pause, counted>>

(* "ota check", and "ota update" that installs nothing *)
CheckByHand ==
    /\ Event /\ Checks
    /\ UNCHANGED <<rtc, settings, stored, lastScheduledDay, pause, currentWindowDay,
                   evaluated, ready, today, counted, usable, saved>>

StartsAgain ==
    /\ Event /\ Begins /\ Recount(TRUE)
    /\ doneOn' = doneOn + lastScheduledDay' - lastScheduledDay

Reset == UNCHANGED noted /\ StartsAgain

(* An installation by hand is noted for the window of the last attempt. *)
UpdateByHand ==
    /\ LET day == IF currentWindowDay >= 0 THEN currentWindowDay ELSE lastScheduledDay
       IN  SaveDiagnostics({lastScheduledDay, day}, {0})
    /\ StartsAgain

-----------------------------------------------------------------------------
(* The clock. *)

(* The clock shows another time; the network and the inverters are as they *)
(* are then.                                                               *)
Shows(newDay, newMinute) ==
    /\ minute' = newMinute /\ today' = today + newDay
    /\ date' = IF newDay = 1 THEN DayAfter(date)
               ELSE IF newDay = -1 THEN DayBefore(date) ELSE date
    /\ evaluated' = FALSE
    /\ UNCHANGED <<clockIsValid, settings, stored, diagnostics, currentWindowDay,
                   saved>>
    /\ ready' \in IF InWindow' /\ settings.wifi THEN BOOLEAN ELSE {FALSE}
    /\ Count(FALSE) /\ KeepsUsable

TimePasses ==
    /\ evaluated
    /\ IF minute < DayLength - 1 THEN Shows(0, minute + 1)
       ELSE today < MaxDays /\ Shows(1, 0)
    /\ pause' = IF pause > 0 THEN pause - 1 ELSE 0
    /\ UNCHANGED events

(* The clock is set by the network after a change of daylight saving time. *)
Shift ==
    /\ Event /\ clockIsValid
    /\ \/ minute >= ShiftLength /\ Shows(0, minute - ShiftLength)
       \/ minute < ShiftLength /\ Shows(-1, minute - ShiftLength + DayLength)
       \/ minute + ShiftLength < DayLength /\ Shows(0, minute + ShiftLength)
       \/ /\ minute + ShiftLength >= DayLength /\ today < MaxDays
          /\ Shows(1, minute + ShiftLength - DayLength)
    /\ UNCHANGED pause

(* The clock loses its time and is set again by the network. *)
ClockLost ==
    /\ Event /\ clockIsValid' = ~clockIsValid /\ evaluated' = FALSE
    /\ UNCHANGED <<date, minute, settings, stored, diagnostics, pause,
                   currentWindowDay, ready, today, counted, saved>>
    /\ KeepsUsable

Over == today = MaxDays /\ minute = DayLength - 1 /\ evaluated /\ UNCHANGED scheduleVars

ScheduleInit ==
    /\ date \in Starts /\ minute = 0 /\ clockIsValid = TRUE
    /\ settings = [wifi |-> TRUE, automatic |-> TRUE, schedule |-> DefaultTime]
    /\ stored = settings
    /\ lastScheduledDay = -1 /\ failures = 0
    /\ noted = [day |-> lastScheduledDay, failures |-> failures]
    /\ pause = 0 /\ currentWindowDay = -1
    /\ evaluated = FALSE /\ ready = FALSE
    /\ today = 0 /\ attempts = 0 /\ results = 0 /\ forgotten = FALSE
    /\ doneOn = lastScheduledDay - CalendarDayNumber(date)
    /\ usable = TRUE /\ saved = TRUE /\ events = MaxEvents

ScheduleNext ==
    \/ Service
    \/ \E on \in BOOLEAN : SetAutomatic(on)
    \/ \E time \in Schedules : SetSchedule(time)
    \/ SaveWifi \/ ClearWifi \/ CheckByHand \/ Reset \/ UpdateByHand
    \/ TimePasses \/ Shift \/ ClockLost \/ Over

ScheduleSpec == ScheduleInit /\ [][ScheduleNext]_scheduleVars

-----------------------------------------------------------------------------
(* Properties. *)

(* A window ends with one answer, also when it crosses midnight, the clock *)
(* is set back into it or the bridge restarts in it, unless its note was   *)
(* not written and a restart in this very window forgot it; and failures   *)
(* are retried only a few times in it, the first pause apart.              *)
WindowIsUsedOnce ==
    /\ results <= 1 \/ forgotten
    /\ attempts <= WindowLength \div Backoff[1]

(* A window that finds the bridge on, its clock valid, its network there   *)
(* and control at rest is used at once, whatever was done, failed or       *)
(* waited for in the windows before it.                                    *)
EveryWindowIsUsed ==
    evaluated /\ usable /\ ready /\ InWindow =>
        attempts >= 1 \/ doneOn = OpenedOn(today, minute, settings.schedule)

(* While updates are automatic, the next boot goes on as the operator was  *)
(* told: what failed to be saved aside, the stored settings are in use.    *)
AnsweredIsStored == saved /\ settings.automatic => settings = stored
=============================================================================
