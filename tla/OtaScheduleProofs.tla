-------------------------- MODULE OtaScheduleProofs --------------------------
(***************************************************************************)
(* Theorems about the daily window of updates (OtaSchedule.tla), for every *)
(* date, schedule, length of the window and of the pauses that the         *)
(* assumption admits.                                                      *)
(***************************************************************************)
EXTENDS OtaSchedule, TLAPS

-----------------------------------------------------------------------------
(* The calendar. *)

LEMMA DateParts ==
    ASSUME NEW d \in Dates
    PROVE  /\ d[1] \in Int /\ d[2] \in 1..12 /\ d[3] \in 1..31
           /\ d[3] <= DaysIn(d[1], d[2])
  BY DEF Dates

LEMMA DayNumberIsInt == ASSUME NEW d \in Dates PROVE CalendarDayNumber(d) \in Int
  BY DateParts DEF CalendarDayNumber

(* Months follow each other, through the end of February in leap years and *)
(* in others, and through the end of the year.                             *)
LEMMA MonthsFollow ==
    ASSUME NEW y \in Int, NEW m \in 1..12
    PROVE  /\ m < 12 => CalendarDayNumber(<<y, m + 1, 1>>)
                            = CalendarDayNumber(<<y, m, DaysIn(y, m)>>) + 1
           /\ m = 12 => CalendarDayNumber(<<y + 1, 1, 1>>)
                            = CalendarDayNumber(<<y, 12, 31>>) + 1
<1>1. CASE m = 2
  BY <1>1, SMTT(30) DEF CalendarDayNumber, DaysIn, IsLeap
<1>2. CASE m = 12
  BY <1>2, SMTT(30) DEF CalendarDayNumber
<1>3. CASE m = 1
  BY <1>3, SMTT(30) DEF CalendarDayNumber, DaysIn
<1>4. CASE m \in 3..11
  BY <1>4, SMTT(30) DEF CalendarDayNumber, DaysIn
<1> QED
  BY <1>1, <1>2, <1>3, <1>4

LEMMA DaysFollow ==
    ASSUME NEW y \in Int, NEW m \in 1..12, NEW n \in 1..31
    PROVE  CalendarDayNumber(<<y, m, n + 1>>) = CalendarDayNumber(<<y, m, n>>) + 1
  BY SMTT(30) DEF CalendarDayNumber

LEMMA DaysInMonth ==
    ASSUME NEW y \in Int, NEW m \in 1..12
    PROVE  DaysIn(y, m) \in 28..31 /\ (m \in {1, 12} => DaysIn(y, m) = 31)
  BY DEF DaysIn

(* The day number counts days: it grows by one from each date to the next, *)
(* and the day before a date is the one that it follows.                   *)
LEMMA DayAfterIsNext ==
    ASSUME NEW d \in Dates
    PROVE  /\ DayAfter(d) \in Dates
           /\ CalendarDayNumber(DayAfter(d)) = CalendarDayNumber(d) + 1
<1>1. PICK y \in Int, m \in 1..12, n \in 1..31 : d = <<y, m, n>> /\ n <= DaysIn(y, m)
  BY DEF Dates
<1>2. CASE n < DaysIn(y, m)
  <2>1. DayAfter(d) = <<y, m, n + 1>> /\ n + 1 \in 1..31
    BY <1>1, <1>2, DaysInMonth DEF DayAfter
  <2>2. DayAfter(d) \in Dates
    BY <1>2, <2>1, DaysInMonth DEF Dates
  <2> QED
    BY <1>1, <2>1, <2>2, DaysFollow
<1>3. CASE n = DaysIn(y, m) /\ m < 12
  <2>1. DayAfter(d) = <<y, m + 1, 1>> /\ m + 1 \in 1..12
    BY <1>1, <1>3 DEF DayAfter
  <2>2. DaysIn(y, m + 1) >= 1
    BY <2>1, DaysInMonth
  <2>3. DayAfter(d) \in Dates
    BY <2>1, <2>2 DEF Dates
  <2> QED
    BY <1>1, <1>3, <2>1, <2>3, MonthsFollow
<1>4. CASE n = DaysIn(y, m) /\ m = 12
  <2>1. n = 31 /\ DaysIn(y + 1, 1) = 31
    BY <1>4, DaysInMonth
  <2>2. DayAfter(d) = <<y + 1, 1, 1>>
    BY <1>1, <1>4 DEF DayAfter
  <2>3. DayAfter(d) \in Dates
    BY <2>1, <2>2 DEF Dates
  <2> QED
    BY <1>1, <1>4, <2>1, <2>2, <2>3, MonthsFollow
<1> QED
  BY <1>1, <1>2, <1>3, <1>4, DaysInMonth

LEMMA DayBeforeIsLast ==
    ASSUME NEW d \in Dates
    PROVE  /\ DayBefore(d) \in Dates
           /\ CalendarDayNumber(DayBefore(d)) = CalendarDayNumber(d) - 1
<1>1. PICK y \in Int, m \in 1..12, n \in 1..31 : d = <<y, m, n>> /\ n <= DaysIn(y, m)
  BY DEF Dates
<1>2. CalendarDayNumber(d) \in Int
  BY <1>1 DEF CalendarDayNumber
<1>3. CASE n > 1
  <2>1. DayBefore(d) = <<y, m, n - 1>> /\ n - 1 \in 1..31 /\ n - 1 <= DaysIn(y, m)
    BY <1>1, <1>3, DaysInMonth DEF DayBefore
  <2>2. DayBefore(d) \in Dates /\ CalendarDayNumber(<<y, m, n - 1>>) \in Int
    BY <2>1 DEF Dates, CalendarDayNumber
  <2>3. CalendarDayNumber(<<y, m, (n - 1) + 1>>) = CalendarDayNumber(<<y, m, n - 1>>) + 1
    BY <2>1, DaysFollow
  <2> QED
    BY <1>1, <2>1, <2>2, <2>3
<1>4. CASE n = 1 /\ m > 1
  <2>1. PICK k \in 1..12 : m = k + 1 /\ k = m - 1
    BY <1>4
  <2>2. DayBefore(d) = <<y, k, DaysIn(y, k)>> /\ DaysIn(y, k) \in 28..31
    BY <1>1, <1>4, <2>1, DaysInMonth DEF DayBefore
  <2>3. DayBefore(d) \in Dates /\ CalendarDayNumber(<<y, k, DaysIn(y, k)>>) \in Int
    BY <2>2 DEF Dates, CalendarDayNumber
  <2>4. CalendarDayNumber(<<y, k + 1, 1>>) = CalendarDayNumber(<<y, k, DaysIn(y, k)>>) + 1
    <3>1. k < 12
      BY <2>1
    <3> QED
      BY <3>1, MonthsFollow, Zenon
  <2> QED
    BY <1>1, <1>4, <2>1, <2>2, <2>3, <2>4
<1>5. CASE n = 1 /\ m = 1
  <2>1. PICK x \in Int : y = x + 1 /\ x = y - 1
    OBVIOUS
  <2>2. DayBefore(d) = <<x, 12, 31>> /\ DaysIn(x, 12) = 31
    BY <1>1, <1>5, <2>1, DaysInMonth DEF DayBefore
  <2>3. DayBefore(d) \in Dates /\ CalendarDayNumber(<<x, 12, 31>>) \in Int
    BY <2>2 DEF Dates, CalendarDayNumber
  <2>4. CalendarDayNumber(<<x + 1, 1, 1>>) = CalendarDayNumber(<<x, 12, 31>>) + 1
    <3>1. 12 \in 1..12
      OBVIOUS
    <3> QED
      BY <3>1, MonthsFollow, Zenon
  <2> QED
    BY <1>1, <1>5, <2>1, <2>2, <2>3, <2>4
<1> QED
  BY <1>1, <1>3, <1>4, <1>5

-----------------------------------------------------------------------------
(* The state. *)

Setting == [wifi : BOOLEAN, automatic : BOOLEAN, schedule : MinuteOfDay]
Note == [day : Int, failures : Nat]

ScheduleType ==
    /\ date \in Dates /\ minute \in MinuteOfDay
    /\ settings \in Setting /\ stored \in Setting
    /\ lastScheduledDay \in Int /\ pause \in Nat /\ currentWindowDay \in Int
    /\ failures \in Nat /\ noted \in Note
    /\ today \in Int /\ attempts \in Nat /\ results \in Nat /\ doneOn \in Int

Opened == OpenedOn(today, minute, settings.schedule)
Position == IF minute >= settings.schedule THEN minute - settings.schedule
                                           ELSE minute - settings.schedule + DayLength
WindowDone == doneOn = Opened

(* The day that the code notes and the days that have begun go together.   *)
Linked == lastScheduledDay - doneOn = CalendarDayNumber(date) - today

(* A window that is answered is noted, and nothing that is still in RAM    *)
(* from an earlier attempt can take the note back; a note that was never   *)
(* written apart.                                                          *)
Once ==
    \/ forgotten
    \/ /\ results <= 1
       /\ results = 1 =>
             WindowDone /\ (currentWindowDay < 0 \/ currentWindowDay = lastScheduledDay)

KeepsResults ==
    results' = 0 \/ /\ results' = results /\ Opened' = Opened
                    /\ forgotten \/ Forgets => forgotten'

(* Each attempt of a window took the shortest pause before the next one.   *)
Paced ==
    /\ attempts <= WindowLength \div Backoff[1]
    /\ Position < WindowLength =>
          WindowDone \/ attempts * Backoff[1] <= Position + pause

(* No pause of an earlier window is left when a window opens.              *)
Served ==
    /\ usable => Enabled
    /\ evaluated /\ Enabled /\ Position >= WindowLength => pause = 0
    /\ evaluated /\ usable /\ ready /\ Position < WindowLength =>
          attempts >= 1 \/ WindowDone
    /\ usable /\ Position < WindowLength /\ pause > 0 => attempts >= 1 \/ WindowDone

LEMMA Numbers ==
    /\ DayLength \in Nat /\ WindowLength \in Nat /\ ShiftLength \in Nat /\ WindowLength > 0
    /\ WindowLength <= ShiftLength /\ WindowLength + ShiftLength <= DayLength
    /\ Backoff[1] \in Nat /\ Backoff[1] > 0
    /\ DefaultTime \in MinuteOfDay /\ Schedules \subseteq MinuteOfDay
    /\ \A f \in Nat : PauseAfter(f) \in Nat /\ PauseAfter(f) >= Backoff[1]
<1>1. \A n \in 1..5 : Backoff[n] \in Nat /\ Backoff[n] >= Backoff[1]
  BY ScheduleAssumption
<1>2. ASSUME NEW f \in Nat PROVE PauseAfter(f) \in Nat /\ PauseAfter(f) >= Backoff[1]
  <2>1. PICK n \in 1..5 : n = IF f = 0 THEN 1 ELSE IF f > 5 THEN 5 ELSE f
    OBVIOUS
  <2> QED
    BY <1>1, <2>1 DEF PauseAfter
<1> QED
  BY <1>1, <1>2, ScheduleAssumption

(* Where the clock stands in the day that the schedule divides. *)
LEMMA PositionIs ==
    ASSUME ScheduleType
    PROVE  /\ SinceSchedule = Position /\ Position \in 0..DayLength - 1
           /\ InWindow <=> Position < WindowLength
           /\ InWindow => WindowDay = CalendarDayNumber(date) - today + Opened
<1> DEFINE n == minute - settings.schedule
<1>1. /\ DayLength \in Nat /\ DayLength > 0 /\ minute \in 0..DayLength - 1
      /\ settings.schedule \in 0..DayLength - 1
  BY Numbers DEF ScheduleType, Setting, MinuteOfDay
<1>2. n % DayLength = IF n >= 0 THEN n ELSE n + DayLength
  BY <1>1, SMTT(20)
<1>3. SinceSchedule = Position /\ Position \in 0..DayLength - 1
  BY <1>1, <1>2 DEF SinceSchedule, Position
<1>4. CalendarDayNumber(date) \in Int /\ today \in Int
  BY DayNumberIsInt DEF ScheduleType
<1> QED
  BY <1>1, <1>3, <1>4 DEF InWindow, WindowDay, Opened, OpenedOn

LEMMA PositionAfter ==
    (ScheduleType =>
        /\ SinceSchedule = Position /\ Position \in 0..DayLength - 1
        /\ InWindow <=> Position < WindowLength
        /\ InWindow => WindowDay = CalendarDayNumber(date) - today + Opened)'
  BY PositionIs, PTL

LEMMA RecountKeeps ==
    ASSUME ScheduleType, ScheduleType', NEW c, Recount(c)
    PROVE  /\ attempts' = 0 \/ attempts' = attempts
           /\ attempts' = 0 \/ (Opened' = Opened /\ Position < WindowLength /\ ~c)
           /\ Opened' = Opened /\ Position < WindowLength /\ ~c => attempts' = attempts
           /\ KeepsResults
<1>1. Opened' = Opened => KeepsResults
  BY DEF Recount, KeepsResults, Opened
<1>2. Opened' # Opened => KeepsResults
  BY DEF Recount, KeepsResults, Opened
<1>3. /\ attempts' = 0 \/ attempts' = attempts
      /\ attempts' = 0 \/ (Opened' = Opened /\ Position < WindowLength /\ ~c)
      /\ Opened' = Opened /\ Position < WindowLength /\ ~c => attempts' = attempts
  BY PositionIs DEF Recount, Opened
<1> QED
  BY <1>1, <1>2, <1>3

LEMMA UsableKeeps ==
    ASSUME ScheduleType, ScheduleType', KeepsUsable, usable'
    PROVE  /\ Enabled'
           /\ usable \/ Position >= WindowLength \/ Position' >= WindowLength
<1>1. /\ clockIsValid' /\ settings'.automatic
      /\ usable \/ ~InWindow \/ ~InWindow'
  BY Zenon DEF KeepsUsable
<1>2. DayLength \in Nat /\ WindowLength \in Nat /\ Position \in Int /\ Position' \in Int
  BY Numbers, PositionIs, PositionAfter
<1>3. usable \/ Position >= WindowLength \/ Position' >= WindowLength
  BY <1>1, <1>2, PositionIs, PositionAfter
<1> QED
  BY <1>1, <1>3 DEF Enabled

LEMMA SavedSetting ==
    ASSUME ScheduleType, NEW new \in Setting, Save(new)
    PROVE  stored' \in Setting
  BY DEF Save, ScheduleType, Setting

(* A command that the operator gives about the settings. *)
CommandKeeps ==
    /\ UNCHANGED <<date, minute, clockIsValid, today, lastScheduledDay, currentWindowDay>>
    /\ doneOn' = doneOn /\ evaluated' = FALSE /\ KeepsUsable
    /\ \/ attempts' = 0
       \/ attempts' = attempts /\ pause' = pause /\ settings'.schedule = settings.schedule
    /\ \/ pause' = 0
       \/ /\ pause' = pause /\ settings'.schedule = settings.schedule
          /\ Position < WindowLength => attempts' = attempts
    /\ KeepsResults

Command ==
    \/ \E on \in BOOLEAN : SetAutomatic(on)
    \/ \E time \in Schedules : SetSchedule(time)
    \/ SaveWifi \/ ClearWifi

LEMMA CommandType ==
    ASSUME ScheduleType, Command
    PROVE  /\ ScheduleType'
           /\ UNCHANGED <<date, minute, clockIsValid, today, lastScheduledDay>>
           /\ UNCHANGED <<currentWindowDay, doneOn>> /\ evaluated' = FALSE /\ KeepsUsable
<1>1. /\ UNCHANGED <<date, minute, clockIsValid, lastScheduledDay, failures, noted>>
      /\ UNCHANGED <<currentWindowDay, today, doneOn>>
      /\ evaluated' = FALSE /\ KeepsUsable
  BY Zenon
     DEF Command, Told, SetAutomatic, SetSchedule, SaveWifi, ClearWifi, rtc, diagnostics,
         Count, counted
<1>2. attempts' \in Nat /\ results' \in Nat
  <2>1. (\E c : Recount(c)) \/ (attempts' = attempts /\ results' = results)
    BY Zenon DEF Command, SetAutomatic, SetSchedule, SaveWifi, ClearWifi, Count, counted
  <2>2. ASSUME NEW c, Recount(c)
        PROVE  (attempts' = attempts \/ attempts' = 0) /\ (results' = results \/ results' = 0)
    BY <2>2, Zenon DEF Recount
  <2> QED
    BY <2>1, <2>2 DEF ScheduleType
<1>3. ASSUME NEW on \in BOOLEAN, SetAutomatic(on)
      PROVE  settings' \in Setting /\ stored' \in Setting /\ pause' \in Nat
  <2> DEFINE new == [settings EXCEPT !.automatic = on]
  <2>1. new \in Setting
    BY DEF ScheduleType, Setting
  <2>2. Save(new) /\ settings' \in {new, settings} /\ pause' \in {0, pause}
    BY <1>3 DEF SetAutomatic
  <2> QED
    BY <2>1, <2>2, SavedSetting DEF ScheduleType
<1>4. ASSUME NEW time \in Schedules, SetSchedule(time)
      PROVE  settings' \in Setting /\ stored' \in Setting /\ pause' \in Nat
  <2> DEFINE new == [settings EXCEPT !.schedule = time]
  <2>1. new \in Setting
    BY Numbers DEF ScheduleType, Setting
  <2>2. Save(new) /\ settings' \in {new, settings} /\ pause' \in {0, pause}
    BY <1>4 DEF SetSchedule
  <2> QED
    BY <2>1, <2>2, SavedSetting DEF ScheduleType
<1>5. CASE SaveWifi
  <2>1. settings' \in Setting /\ Save(settings') /\ pause' = pause
    BY <1>5 DEF SaveWifi, ScheduleType, Setting
  <2> QED
    BY <1>1, <1>2, <2>1, SavedSetting DEF ScheduleType
<1>6. CASE ClearWifi
  <2>1. settings' = [settings EXCEPT !.wifi = FALSE, !.automatic = FALSE] /\ pause' = pause
        /\ \/ stored' = [wifi |-> FALSE, automatic |-> FALSE, schedule |-> DefaultTime]
           \/ stored' = stored
    BY <1>6 DEF ClearWifi
  <2>2. settings' \in Setting
    BY <2>1 DEF ScheduleType, Setting
  <2>3. stored' \in Setting
    <3>1. DefaultTime \in MinuteOfDay
      BY Numbers
    <3>2. [wifi |-> FALSE, automatic |-> FALSE, schedule |-> DefaultTime] \in Setting
      BY <3>1 DEF Setting
    <3> QED
      BY <2>1, <3>2 DEF ScheduleType
  <2> QED
    BY <1>1, <1>2, <2>1, <2>2, <2>3 DEF ScheduleType
<1> QED
  BY <1>1, <1>2, <1>3, <1>4, <1>5, <1>6 DEF Command, ScheduleType

LEMMA CommandStep == ASSUME ScheduleType, Command PROVE CommandKeeps
<1>0. ScheduleType'
  BY CommandType
<1>1. ASSUME settings'.schedule = settings.schedule PROVE Opened' = Opened
  BY <1>1, CommandType DEF Opened
<1>2. ASSUME NEW on \in BOOLEAN, SetAutomatic(on) PROVE CommandKeeps
  <2>1. settings'.schedule = settings.schedule
    BY <1>2 DEF SetAutomatic, ScheduleType, Setting
  <2>2. Recount(saved' /\ on) /\ pause' = IF saved' /\ on THEN 0 ELSE pause
    BY <1>2 DEF SetAutomatic, Count
  <2> HIDE DEF CommandKeeps
  <2>3. /\ attempts' = 0 \/ (attempts' = attempts /\ pause' = pause)
        /\ pause' = 0 \/ (pause' = pause /\ (Position < WindowLength => attempts' = attempts))
        /\ KeepsResults
    BY <1>0, <1>1, <2>1, <2>2, RecountKeeps
  <2> QED
    BY <2>1, <2>3, CommandType DEF CommandKeeps
<1>3. ASSUME NEW time \in Schedules, SetSchedule(time) PROVE CommandKeeps
  <2>1. saved' \/ settings' = settings
    BY <1>3 DEF SetSchedule
  <2>2. Recount(saved') /\ pause' = IF saved' THEN 0 ELSE pause
    BY <1>3 DEF SetSchedule, Count
  <2>3. /\ attempts' = 0 \/ (attempts' = attempts /\ ~saved')
        /\ KeepsResults
    BY <1>0, <2>2, RecountKeeps
  <2>4. ~saved' => (Position < WindowLength => attempts' = attempts)
    BY <1>0, <1>1, <2>1, <2>2, RecountKeeps
  <2> QED
    BY <2>1, <2>2, <2>3, <2>4, CommandType DEF CommandKeeps
<1>4. CASE SaveWifi \/ ClearWifi
  <2>1. /\ settings'.schedule = settings.schedule /\ pause' = pause
        /\ attempts' = attempts /\ results' = results
    BY <1>4 DEF SaveWifi, ClearWifi, counted, ScheduleType, Setting
  <2>2. forgotten' = forgotten
    BY <1>4, Zenon DEF SaveWifi, ClearWifi, counted
  <2>3. ~Forgets
    BY CommandType DEF Forgets
  <2>4. KeepsResults
    BY <1>1, <2>1, <2>2, <2>3 DEF KeepsResults
  <2> QED
    BY <2>1, <2>4, CommandType DEF CommandKeeps
<1> QED
  BY <1>2, <1>3, <1>4 DEF Command

LEMMA SavedNote ==
    ASSUME NEW days, NEW counts, ScheduleType, days \subseteq Int, counts \subseteq Nat,
           SaveDiagnostics(days, counts)
    PROVE  /\ noted' \in Note
           /\ noted'.day \in {noted.day} \cup days
  BY DEF SaveDiagnostics, ScheduleType, Note

LEMMA CheckedNote ==
    ASSUME ScheduleType, Checks
    PROVE  failures' \in Nat /\ noted' \in Note
<1>1. failures' \in Nat /\ {lastScheduledDay} \subseteq Int
  BY DEF Checks, AtMostSix, ScheduleType
<1>2. \/ SaveDiagnostics({lastScheduledDay}, {failures'})
      \/ SaveDiagnostics({lastScheduledDay}, {0, 1})
  BY Zenon DEF Checks
<1> QED
  BY <1>1, <1>2, SavedNote

(* The firmware starts again; what an installation by hand notes is of the *)
(* last attempt.                                                           *)
LEMMA StartStep ==
    ASSUME ScheduleType, Reset \/ UpdateByHand
    PROVE  /\ ScheduleType' /\ KeepsUsable
           /\ UNCHANGED <<date, minute, clockIsValid, today>>
           /\ attempts' = 0 /\ pause' = 0 /\ evaluated' = FALSE /\ currentWindowDay' = -1
           /\ KeepsResults
           /\ lastScheduledDay' - doneOn' = lastScheduledDay - doneOn
           /\ \/ lastScheduledDay' \in {noted.day, lastScheduledDay}
              \/ currentWindowDay >= 0 /\ lastScheduledDay' = currentWindowDay
<1>1. StartsAgain
  BY DEF Reset, UpdateByHand
<1>2. /\ UNCHANGED <<date, minute, clockIsValid, today, stored>> /\ settings' = stored
      /\ pause' = 0 /\ evaluated' = FALSE /\ currentWindowDay' = -1
      /\ Recount(TRUE) /\ KeepsUsable
      /\ lastScheduledDay' = noted'.day /\ failures' = noted'.failures
      /\ doneOn' = doneOn + lastScheduledDay' - lastScheduledDay
  BY <1>1, Zenon DEF StartsAgain, Begins, rtc
<1>3. attempts' = 0 /\ (results' = results \/ results' = 0)
  BY <1>2 DEF Recount
<1>4. /\ noted' \in Note
      /\ \/ noted'.day \in {noted.day, lastScheduledDay}
         \/ currentWindowDay >= 0 /\ noted'.day = currentWindowDay
  <2>1. CASE Reset
    BY <2>1 DEF Reset, ScheduleType
  <2>2. CASE UpdateByHand
    <3> DEFINE day == IF currentWindowDay >= 0 THEN currentWindowDay ELSE lastScheduledDay
    <3>1. SaveDiagnostics({lastScheduledDay, day}, {0})
      BY <2>2 DEF UpdateByHand
    <3>2. {lastScheduledDay, day} \subseteq Int /\ {0} \subseteq Nat
      BY DEF ScheduleType
    <3>3. noted' \in Note /\ noted'.day \in {noted.day} \cup {lastScheduledDay, day}
      BY <3>1, <3>2, SavedNote
    <3> QED
      BY <3>3
  <2> QED
    BY <2>1, <2>2
<1>5. /\ lastScheduledDay' \in Int /\ failures' \in Nat /\ doneOn' \in Int
      /\ lastScheduledDay' - doneOn' = lastScheduledDay - doneOn
  BY <1>2, <1>4 DEF ScheduleType, Note
<1>7. ScheduleType'
  BY <1>2, <1>3, <1>4, <1>5 DEF ScheduleType
<1>6. KeepsResults
  BY <1>2, <1>7, RecountKeeps
<1> QED
  BY <1>2, <1>3, <1>4, <1>5, <1>6, <1>7

(* The clock shows another time. *)
LEMMA ClockStep ==
    ASSUME ScheduleType, TimePasses \/ Shift
    PROVE  /\ ScheduleType' /\ KeepsUsable /\ Recount(FALSE)
           /\ UNCHANGED <<clockIsValid, settings, lastScheduledDay, currentWindowDay, doneOn>>
           /\ evaluated /\ evaluated' = FALSE
           /\ CalendarDayNumber(date') - today' = CalendarDayNumber(date) - today
           /\ pause' \in 0..pause
           /\ Position < WindowLength /\ Position' < WindowLength =>
                 Position' = Position + 1 /\ Opened' = Opened /\ pause' + 1 >= pause
<1>1. PICK newDay \in {-1, 0, 1}, newMinute \in MinuteOfDay :
         /\ Shows(newDay, newMinute)
         /\ \/ /\ newDay = 0 /\ newMinute = minute + 1
               /\ pause' = IF pause > 0 THEN pause - 1 ELSE 0
            \/ /\ newDay = 1 /\ newMinute = 0 /\ minute = DayLength - 1
               /\ pause' = IF pause > 0 THEN pause - 1 ELSE 0
            \/ /\ pause' = pause
               /\ newDay * DayLength + newMinute \in {minute - ShiftLength, minute + ShiftLength}
  <2>1. /\ DayLength \in Nat /\ ShiftLength \in Nat /\ WindowLength \in Nat
        /\ WindowLength > 0 /\ WindowLength <= ShiftLength
        /\ WindowLength + ShiftLength <= DayLength /\ minute \in 0..DayLength - 1
    BY Numbers DEF ScheduleType, MinuteOfDay
  <2>2. ASSUME TimePasses
        PROVE  /\ pause' = IF pause > 0 THEN pause - 1 ELSE 0
               /\ \/ minute < DayLength - 1 /\ Shows(0, minute + 1)
                  \/ minute = DayLength - 1 /\ Shows(1, 0)
    BY <2>1, <2>2 DEF TimePasses
  <2>3. ASSUME Shift
        PROVE  /\ pause' = pause
               /\ \/ minute >= ShiftLength /\ Shows(0, minute - ShiftLength)
                  \/ minute < ShiftLength /\ Shows(-1, minute - ShiftLength + DayLength)
                  \/ minute + ShiftLength < DayLength /\ Shows(0, minute + ShiftLength)
                  \/ /\ minute + ShiftLength >= DayLength
                     /\ Shows(1, minute + ShiftLength - DayLength)
    BY <2>3 DEF Shift
  <2> QED
    BY <2>1, <2>2, <2>3 DEF MinuteOfDay
<1>2. /\ minute' = newMinute /\ today' = today + newDay /\ evaluated' = FALSE
      /\ UNCHANGED <<clockIsValid, settings, stored, lastScheduledDay, failures, noted>>
      /\ currentWindowDay' = currentWindowDay
      /\ Recount(FALSE) /\ doneOn' = doneOn /\ KeepsUsable
  BY <1>1, Zenon DEF Shows, Count, diagnostics
<1>3. evaluated
  BY DEF TimePasses, Shift, Event
<1>4. date' \in Dates /\ CalendarDayNumber(date') = CalendarDayNumber(date) + newDay
  <2>1. date' = IF newDay = 1 THEN DayAfter(date)
                ELSE IF newDay = -1 THEN DayBefore(date) ELSE date
    BY <1>1 DEF Shows
  <2>2. date \in Dates /\ CalendarDayNumber(date) \in Int
    BY DayNumberIsInt DEF ScheduleType
  <2> QED
    BY <2>1, <2>2, DayAfterIsNext, DayBeforeIsLast
<1>5. attempts' \in {attempts, 0} /\ results' \in {results, 0}
  BY <1>2, Zenon DEF Recount
<1>6. pause' \in 0..pause /\ pause \in Nat
  BY <1>1 DEF ScheduleType
<1>7. ScheduleType'
  BY <1>1, <1>2, <1>4, <1>5, <1>6 DEF ScheduleType
<1>8. CalendarDayNumber(date') - today' = CalendarDayNumber(date) - today
  <2>1. CalendarDayNumber(date) \in Int /\ today \in Int
    BY DayNumberIsInt DEF ScheduleType
  <2> QED
    BY <1>1, <1>2, <1>4, <2>1
<1>9. ASSUME Position < WindowLength, Position' < WindowLength
      PROVE  Position' = Position + 1 /\ Opened' = Opened /\ pause' + 1 >= pause
  <2>1. /\ DayLength \in Nat /\ ShiftLength \in Nat /\ WindowLength \in Nat
        /\ WindowLength > 0 /\ WindowLength <= ShiftLength
        /\ WindowLength + ShiftLength <= DayLength
    BY Numbers
  <2>2. /\ minute \in 0..DayLength - 1 /\ newMinute \in 0..DayLength - 1
        /\ settings.schedule \in 0..DayLength - 1 /\ today \in Int
    BY DEF ScheduleType, Setting, MinuteOfDay
  <2>3. Position' = IF newMinute >= settings.schedule THEN newMinute - settings.schedule
                    ELSE newMinute - settings.schedule + DayLength
    BY <1>2 DEF Position
  <2>4. newDay * DayLength + newMinute \notin {minute - ShiftLength, minute + ShiftLength}
    <3>1. CASE newDay = 0
      BY <1>9, <2>1, <2>2, <2>3, <3>1 DEF Position
    <3>2. CASE newDay = 1
      BY <1>9, <2>1, <2>2, <2>3, <3>2 DEF Position
    <3>3. CASE newDay = -1
      <4>1. newDay * DayLength = -DayLength
        BY <2>1, <3>3
      <4> QED
        BY <1>9, <2>1, <2>2, <2>3, <4>1 DEF Position
    <3> QED
      BY <3>1, <3>2, <3>3
  <2>5. /\ pause' = IF pause > 0 THEN pause - 1 ELSE 0
        /\ \/ newDay = 0 /\ newMinute = minute + 1
           \/ newDay = 1 /\ newMinute = 0 /\ minute = DayLength - 1
    BY <1>1, <2>4
  <2>6. Opened' = IF newMinute >= settings.schedule THEN today + newDay ELSE today + newDay - 1
    BY <1>2, <2>2 DEF Opened, OpenedOn
  <2> QED
    BY <1>6, <1>9, <2>1, <2>2, <2>3, <2>5, <2>6 DEF Position, Opened, OpenedOn
<1> QED
  BY <1>2, <1>3, <1>6, <1>7, <1>8, <1>9

LEMMA DaysAreInts ==
    ASSUME ScheduleType PROVE WindowDay \in Int /\ Opened \in Int
<1>1. CalendarDayNumber(date) \in Int
  BY DayNumberIsInt DEF ScheduleType
<1> QED
  BY <1>1 DEF WindowDay, Opened, OpenedOn, ScheduleType

(* The update is installed: the note of the window may be missing then.    *)
LEMMA InstallStep ==
    ASSUME ScheduleType, Installs
    PROVE  /\ ScheduleType' /\ KeepsUsable
           /\ UNCHANGED <<date, minute, clockIsValid, today, ready>>
           /\ attempts' = 0 /\ pause' = 0 /\ evaluated' = FALSE /\ currentWindowDay' = -1
           /\ lastScheduledDay' - doneOn' = WindowDay - Opened
           /\ \/ results' = 0
              \/ results' = results + 1 /\ Opened' = Opened
                 /\ (forgotten' \/ lastScheduledDay' = WindowDay)
<1>1. /\ UNCHANGED <<date, minute, clockIsValid, today, ready, stored>> /\ settings' = stored
      /\ pause' = 0 /\ evaluated' = FALSE /\ currentWindowDay' = -1 /\ KeepsUsable
      /\ lastScheduledDay' = noted'.day /\ failures' = noted'.failures
  BY Zenon DEF Installs, Begins, rtc
<1>2. /\ attempts' = 0
      /\ doneOn' = Opened + noted'.day - WindowDay
      /\ results' = IF settings'.schedule = settings.schedule THEN results + 1 ELSE 0
      /\ forgotten' = (/\ settings'.schedule = settings.schedule
                       /\ forgotten \/ noted'.day # WindowDay)
  BY DEF Installs, Opened
<1>3. noted' \in Note
  <2>1. SaveDiagnostics({lastScheduledDay, WindowDay}, {0})
    BY DEF Installs
  <2>2. {lastScheduledDay, WindowDay} \subseteq Int /\ {0} \subseteq Nat
    BY DaysAreInts DEF ScheduleType
  <2> QED
    BY <2>1, <2>2, SavedNote
<1>4. /\ lastScheduledDay' \in Int /\ failures' \in Nat /\ doneOn' \in Int
      /\ lastScheduledDay' - doneOn' = WindowDay - Opened
  BY <1>1, <1>2, <1>3, DaysAreInts DEF Note
<1>5. attempts' \in Nat /\ results' \in Nat
  BY <1>2 DEF ScheduleType
<1>6. ScheduleType'
  BY <1>1, <1>3, <1>4, <1>5 DEF ScheduleType
<1>7. settings'.schedule = settings.schedule => Opened' = Opened
  BY <1>1 DEF Opened
<1> QED
  BY <1>1, <1>2, <1>4, <1>6, <1>7

(* One look at the clock. *)
LEMMA LookType ==
    ASSUME ScheduleType, Service
    PROVE  /\ ScheduleType'
           /\ UNCHANGED <<date, minute, clockIsValid, today, ready>> /\ ~evaluated
<1>1. /\ UNCHANGED <<date, minute, clockIsValid, today, ready, stored>> /\ ~evaluated
  BY DEF Service, Off, Closed, Waits, AttemptFails, AttemptSucceeds, UpToDate, Installs,
         Attempts, Evaluates, Looks, rtc
<1>2. CASE Off \/ Closed \/ Waits
  BY <1>1, <1>2 DEF Off, Closed, Waits, diagnostics, counted, ScheduleType
<1>3. CASE AttemptFails
  <2>1. /\ failures' \in Nat /\ noted' \in Note
        /\ UNCHANGED <<lastScheduledDay, settings, results, doneOn>>
        /\ currentWindowDay' = WindowDay /\ attempts' = attempts + 1
        /\ pause' = PauseAfter(failures')
    BY <1>3, CheckedNote DEF AttemptFails
  <2>2. pause' \in Nat
    BY <2>1, Numbers
  <2> QED
    BY <1>1, <2>1, <2>2, DaysAreInts DEF ScheduleType
<1>4. CASE UpToDate
  <2>1. SaveDiagnostics({lastScheduledDay, WindowDay}, {0})
    BY <1>4 DEF UpToDate
  <2>2. {lastScheduledDay, WindowDay} \subseteq Int /\ {0} \subseteq Nat
    BY DaysAreInts DEF ScheduleType
  <2>3. noted' \in Note
    BY <2>1, <2>2, SavedNote
  <2>4. /\ failures' = 0 /\ pause' = 0 /\ settings' = settings
        /\ lastScheduledDay' = WindowDay /\ currentWindowDay' = WindowDay
        /\ attempts' = attempts + 1 /\ results' = results + 1 /\ doneOn' = Opened
    BY <1>4 DEF UpToDate, Opened
  <2> QED
    BY <1>1, <2>3, <2>4, DaysAreInts DEF ScheduleType
<1>5. CASE Installs
  BY <1>1, <1>5, InstallStep
<1> QED
  BY <1>1, <1>2, <1>3, <1>4, <1>5 DEF Service, AttemptSucceeds

LEMMA TypeStep == ScheduleType /\ [ScheduleNext]_scheduleVars => ScheduleType'
<1> SUFFICES ASSUME ScheduleType, [ScheduleNext]_scheduleVars PROVE ScheduleType'
  OBVIOUS
<1>1. CASE CheckByHand
  <2>1. failures' \in Nat /\ noted' \in Note
    BY <1>1, CheckedNote DEF CheckByHand
  <2> QED
    BY <1>1, <2>1 DEF CheckByHand, ScheduleType, rtc, counted
<1>2. CASE ClockLost
  BY <1>2 DEF ClockLost, ScheduleType, diagnostics, counted
<1>3. CASE UNCHANGED scheduleVars \/ Over
  BY <1>3 DEF Over, scheduleVars, rtc, diagnostics, counted, ScheduleType
<1>4. CASE Command
  BY <1>4, CommandType
<1>5. CASE Reset \/ UpdateByHand
  BY <1>5, StartStep
<1>6. CASE TimePasses \/ Shift
  BY <1>6, ClockStep
<1>7. CASE Service
  BY <1>7, LookType
<1> QED
  BY <1>1, <1>2, <1>3, <1>4, <1>5, <1>6, <1>7 DEF ScheduleNext, Command

LEMMA InitHolds ==
    ScheduleInit => ScheduleType /\ Linked /\ Once /\ Paced /\ Served
<1> SUFFICES ASSUME ScheduleInit
             PROVE  ScheduleType /\ Linked /\ Once /\ Paced /\ Served
  OBVIOUS
<1>1. date \in Dates /\ CalendarDayNumber(date) \in Int
  BY DayNumberIsInt, StartsAssumption DEF ScheduleInit
<1>2. /\ DayLength > 0 /\ DayLength \in Nat /\ DefaultTime \in MinuteOfDay /\ 0 \in MinuteOfDay
      /\ WindowLength \in Nat /\ Backoff[1] \in Nat /\ Backoff[1] > 0
  BY Numbers DEF MinuteOfDay
<1>3. ScheduleType
  BY <1>1, <1>2 DEF ScheduleInit, ScheduleType, Setting, Note
<1>4. Linked /\ Once
  BY <1>1 DEF ScheduleInit, Linked, Once
<1>5. WindowLength \div Backoff[1] >= 0
  BY <1>2
<1>6. Paced
  BY <1>2, <1>3, <1>5, PositionIs DEF ScheduleInit, Paced
<1>7. Served
  BY DEF ScheduleInit, Served, Enabled
<1> QED
  BY <1>3, <1>4, <1>6, <1>7

-----------------------------------------------------------------------------
(* The window. *)

(* A pause that divides the window fits in it once more.                   *)
LEMMA OneMore ==
    ASSUME NEW a \in Nat, NEW b \in Nat, b > 0, NEW w \in Nat, w % b = 0, a * b < w
    PROVE  a + 1 <= w \div b
<1> DEFINE q == w \div b
<1>1. q \in Nat /\ w = q * b
  BY SMTT(30)
<1> HIDE DEF q
<1>2. CASE a >= q
  <2>1. a * b >= q * b
    BY <1>1, <1>2, SMTT(30)
  <2> QED
    BY <1>1, <2>1, SMTT(30)
<1>3. CASE a < q
  BY <1>1, <1>3 DEF q
<1> QED
  BY <1>1, <1>2, <1>3

LEMMA LinkedStep ==
    ASSUME ScheduleType, ScheduleType', Linked, [ScheduleNext]_scheduleVars
    PROVE  Linked'
<1>0. /\ CalendarDayNumber(date) \in Int /\ lastScheduledDay \in Int /\ doneOn \in Int
      /\ today \in Int
  BY DayNumberIsInt DEF ScheduleType
<1>1. CASE Reset \/ UpdateByHand
  BY <1>0, <1>1, StartStep DEF Linked
<1>2. CASE TimePasses \/ Shift
  BY <1>0, <1>2, ClockStep DEF Linked
<1>3. CASE Command
  BY <1>0, <1>3, CommandType DEF Linked
<1>4. CASE AttemptSucceeds
  <2>1. InWindow /\ date' = date /\ today' = today
    BY <1>4 DEF AttemptSucceeds, UpToDate, Installs, Attempts, IsOpen, Looks, rtc
  <2>2. lastScheduledDay' - doneOn' = WindowDay - Opened
    BY <1>4, InstallStep DEF AttemptSucceeds, UpToDate, Opened
  <2>3. WindowDay = CalendarDayNumber(date) - today + Opened /\ Opened \in Int
    BY <2>1, DaysAreInts, PositionIs
  <2> QED
    BY <1>0, <2>1, <2>2, <2>3 DEF Linked
<1>5. CASE \/ Off \/ Closed \/ Waits \/ AttemptFails \/ CheckByHand \/ ClockLost
           \/ Over \/ UNCHANGED scheduleVars
  <2>1. UNCHANGED <<date, today, lastScheduledDay, doneOn>>
    BY <1>5
       DEF Off, Closed, Waits, AttemptFails, CheckByHand, ClockLost, Over, scheduleVars,
           Attempts, Evaluates, Looks, rtc, diagnostics, counted
  <2> QED
    BY <2>1 DEF Linked
<1> QED
  BY <1>1, <1>2, <1>3, <1>4, <1>5 DEF ScheduleNext, Service, Command

(* A window whose note is not in place is not answered. *)
LEMMA OpenIsNotDone ==
    ASSUME ScheduleType, Linked
    PROVE  Position < WindowLength => (WindowDone <=> lastScheduledDay = WindowDay)
<1>1. /\ CalendarDayNumber(date) \in Int /\ lastScheduledDay \in Int /\ doneOn \in Int
      /\ today \in Int /\ Opened \in Int
  BY DayNumberIsInt DEF ScheduleType, Opened, OpenedOn
<1> QED
  BY <1>1, PositionIs DEF Linked, WindowDone

LEMMA OnceStep ==
    ASSUME ScheduleType, ScheduleType', Linked, Linked', Once, [ScheduleNext]_scheduleVars
    PROVE  Once'
<1>0. /\ results \in Nat /\ results' \in Nat /\ lastScheduledDay \in Int
      /\ currentWindowDay \in Int
      /\ ~forgotten => results \in {0, 1}
  BY DEF ScheduleType, Once
<1>1. ASSUME KeepsResults,
             UNCHANGED <<doneOn, lastScheduledDay>>,
             currentWindowDay' = currentWindowDay \/ currentWindowDay' = -1
      PROVE  Once'
  BY <1>0, <1>1 DEF Once, WindowDone, KeepsResults
<1>2. CASE Reset \/ UpdateByHand
  <2>1. /\ KeepsResults /\ currentWindowDay' = -1
        /\ lastScheduledDay' - doneOn' = lastScheduledDay - doneOn
        /\ \/ lastScheduledDay' \in {noted.day, lastScheduledDay}
           \/ currentWindowDay >= 0 /\ lastScheduledDay' = currentWindowDay
    BY <1>2, StartStep
  <2>2. ASSUME ~forgotten', results' # 0
        PROVE  results' = 1 /\ WindowDone'
    <3>1. results' = results /\ Opened' = Opened /\ ~forgotten /\ ~Forgets
      BY <2>1, <2>2 DEF KeepsResults
    <3>2. /\ results = 1 /\ WindowDone
          /\ currentWindowDay < 0 \/ currentWindowDay = lastScheduledDay
      BY <1>0, <2>2, <3>1 DEF Once
    <3>3. lastScheduledDay' = lastScheduledDay
      BY <1>0, <2>1, <3>1, <3>2 DEF Forgets
    <3>4. doneOn \in Int /\ doneOn' \in Int
      BY DEF ScheduleType
    <3>5. \A a, c, d \in Int : a - c = a - d => c = d
      OBVIOUS
    <3>6. doneOn' = doneOn
      BY <1>0, <2>1, <3>3, <3>4, <3>5
    <3> QED
      BY <3>1, <3>2, <3>6 DEF WindowDone
  <2> QED
    BY <2>1, <2>2 DEF Once
<1>3. CASE TimePasses \/ Shift
  <2>1. KeepsResults
    BY <1>3, ClockStep, RecountKeeps
  <2> QED
    BY <1>1, <1>3, <2>1, ClockStep
<1>4. CASE Command
  BY <1>1, <1>4, CommandStep DEF CommandKeeps
<1>5. CASE AttemptFails \/ AttemptSucceeds
  <2>1. Attempts
    BY <1>5 DEF AttemptFails, AttemptSucceeds, UpToDate, Installs
  <2>2. /\ InWindow /\ lastScheduledDay # WindowDay /\ UNCHANGED <<minute, today>>
    BY <2>1 DEF Attempts, IsOpen, Looks, rtc
  <2>3. ~forgotten => results = 0
    BY <1>0, <2>2, OpenIsNotDone, PositionIs DEF Once
  <2>4. CASE AttemptFails
    <3>1. results' = results
      BY <2>4 DEF AttemptFails
    <3>2. forgotten => forgotten'
      BY <2>4, Zenon DEF AttemptFails
    <3> QED
      BY <2>3, <3>1, <3>2 DEF Once
  <2>5. CASE UpToDate
    <3>1. /\ doneOn' = Opened /\ lastScheduledDay' = WindowDay
          /\ currentWindowDay' = WindowDay /\ results' = results + 1 /\ settings' = settings
      BY <2>5 DEF UpToDate, Opened
    <3>2. forgotten => forgotten'
      BY <2>5, Zenon DEF UpToDate
    <3>3. Opened' = Opened
      BY <2>2, <3>1 DEF Opened
    <3> QED
      BY <2>3, <3>1, <3>2, <3>3 DEF Once, WindowDone
  <2>6. CASE Installs
    <3>1. /\ currentWindowDay' = -1
          /\ lastScheduledDay' - doneOn' = WindowDay - Opened
          /\ \/ results' = 0
             \/ results' = results + 1 /\ Opened' = Opened
                /\ (forgotten' \/ lastScheduledDay' = WindowDay)
      BY <2>6, InstallStep
    <3>2. forgotten => results' = 0 \/ forgotten'
      BY <2>6 DEF Installs
    <3>3. ASSUME ~forgotten', results' # 0
          PROVE  results' = 1 /\ WindowDone'
      <4>1. results = 0 /\ results' = 1 /\ Opened' = Opened /\ lastScheduledDay' = WindowDay
        BY <2>3, <3>1, <3>2, <3>3
      <4>2. doneOn' \in Int /\ WindowDay \in Int /\ Opened \in Int
        BY DaysAreInts DEF ScheduleType
      <4>3. \A a, c, d \in Int : a - c = a - d => c = d
        OBVIOUS
      <4>4. doneOn' = Opened
        BY <3>1, <4>1, <4>2, <4>3
      <4> QED
        BY <4>1, <4>4 DEF WindowDone
    <3> QED
      BY <3>1, <3>3 DEF Once
  <2> QED
    BY <1>5, <2>4, <2>5, <2>6 DEF AttemptSucceeds
<1>6. CASE \/ Off \/ Closed \/ Waits \/ CheckByHand \/ ClockLost
           \/ Over \/ UNCHANGED scheduleVars
  <2>1. /\ UNCHANGED <<minute, today, settings, results, doneOn, lastScheduledDay>>
        /\ UNCHANGED currentWindowDay
    BY <1>6
       DEF Off, Closed, Waits, CheckByHand, ClockLost, Over, scheduleVars,
           Evaluates, Looks, rtc, diagnostics, counted
  <2>2. forgotten' = forgotten
    BY <1>6, Zenon
       DEF Off, Closed, Waits, CheckByHand, ClockLost, Over, scheduleVars, counted
  <2>3. ~Forgets
    BY <2>1 DEF Forgets
  <2>4. Opened' = Opened
    BY <2>1 DEF Opened
  <2>5. KeepsResults
    BY <2>1, <2>2, <2>3, <2>4 DEF KeepsResults
  <2> QED
    BY <1>1, <2>1, <2>5
<1> QED
  BY <1>2, <1>3, <1>4, <1>5, <1>6 DEF ScheduleNext, Service, Command

LEMMA PacedStep ==
    ASSUME ScheduleType, ScheduleType', Linked, Paced, [ScheduleNext]_scheduleVars
    PROVE  Paced'
<1> DEFINE b == Backoff[1]
<1>0. /\ b \in Nat /\ b > 0 /\ WindowLength \in Nat /\ WindowLength % b = 0
      /\ attempts \in Nat /\ pause \in Nat /\ Position \in Nat /\ Position' \in Nat
      /\ pause' \in Nat /\ attempts * b \in Nat /\ WindowLength \div b \in Nat
  <2>1. b \in Nat /\ b > 0 /\ WindowLength \in Nat /\ WindowLength % b = 0 /\ DayLength \in Nat
    BY Numbers, ScheduleAssumption
  <2>2. attempts \in Nat /\ pause \in Nat /\ pause' \in Nat
    BY DEF ScheduleType
  <2>3. attempts * b \in Nat /\ WindowLength \div b \in Nat
    BY <2>1, <2>2, SMTT(20)
  <2> QED
    BY <2>1, <2>2, <2>3, PositionIs, PositionAfter
<1>1. attempts <= WindowLength \div b
      /\ (Position < WindowLength => WindowDone \/ attempts * b <= Position + pause)
  BY DEF Paced
<1> HIDE DEF b
<1>2. ASSUME attempts' = 0 PROVE Paced'
  <2>1. 0 * b = 0
    BY <1>0
  <2> QED
    BY <1>0, <1>2, <2>1 DEF Paced, b
<1>3. ASSUME attempts' = attempts, UNCHANGED <<minute, today, doneOn>>,
             settings'.schedule = settings.schedule,
             pause' = pause \/ Position >= WindowLength \/ WindowDone
      PROVE  Paced'
  <2>1. Position' = Position /\ Opened' = Opened
    BY <1>3 DEF Position, Opened
  <2> QED
    BY <1>0, <1>1, <1>3, <2>1 DEF Paced, WindowDone, b
<1>4. CASE Command
  <2>1. CommandKeeps
    BY <1>4, CommandStep
  <2> QED
    BY <1>2, <1>3, <2>1 DEF CommandKeeps
<1>5. CASE Reset \/ UpdateByHand
  BY <1>2, <1>5, StartStep
<1>6. CASE TimePasses \/ Shift
  <2>1. /\ Recount(FALSE) /\ doneOn' = doneOn
        /\ Position < WindowLength /\ Position' < WindowLength =>
                 Position' = Position + 1 /\ Opened' = Opened /\ pause' + 1 >= pause
    BY <1>6, ClockStep
  <2>2. attempts' = 0 \/ (attempts' = attempts /\ Position < WindowLength)
    BY <2>1, RecountKeeps
  <2>3. ASSUME attempts' = attempts, Position < WindowLength PROVE Paced'
    <3>1. ASSUME Position' < WindowLength, ~WindowDone'
          PROVE  attempts' * b <= Position' + pause'
      <4>1. ~WindowDone /\ Position' = Position + 1 /\ pause' + 1 >= pause
        BY <2>1, <2>3, <3>1 DEF WindowDone
      <4>2. PICK k \in Nat : k = attempts * b
        BY <1>0
      <4>3. k <= Position' + pause'
        <5>1. k <= Position + pause
          BY <1>1, <2>3, <4>1, <4>2
        <5>2. \A p, q, r \in Nat : k <= p + q /\ r + 1 >= q => k <= p + 1 + r
          OBVIOUS
        <5> QED
          BY <1>0, <4>1, <5>1, <5>2
      <4> QED
        BY <2>3, <4>2, <4>3
    <3> QED
      BY <1>1, <2>3, <3>1 DEF Paced, b
  <2> QED
    BY <1>2, <2>2, <2>3
<1>7. CASE Off \/ Closed \/ Waits
  <2>1. /\ UNCHANGED <<minute, today, settings, doneOn, attempts>>
        /\ pause' = pause \/ ~IsOpen
    BY <1>7 DEF Off, Closed, Waits, Evaluates, Looks, rtc, counted
  <2>2. ~IsOpen => Position >= WindowLength \/ WindowDone
    BY <1>0, OpenIsNotDone, PositionIs DEF IsOpen
  <2> QED
    BY <1>3, <2>1, <2>2
<1>8. CASE AttemptFails \/ UpToDate
  <2>1. Attempts
    BY <1>8 DEF AttemptFails, UpToDate
  <2>2. /\ Position < WindowLength /\ ~WindowDone /\ pause = 0
        /\ UNCHANGED <<minute, today>>
    BY <2>1, OpenIsNotDone, PositionIs DEF Attempts, IsOpen, Looks, rtc
  <2>3. attempts * b < WindowLength
    BY <1>0, <1>1, <2>2
  <2>4. attempts + 1 <= WindowLength \div b
    BY <1>0, <2>3, OneMore
  <2>5. (attempts + 1) * b = attempts * b + b
    BY <1>0, SMTT(20)
  <2>6. CASE AttemptFails
    <3>1. /\ attempts' = attempts + 1 /\ settings' = settings /\ pause' = PauseAfter(failures')
          /\ failures' \in Nat
      BY <2>6 DEF AttemptFails, ScheduleType
    <3>2. pause' >= b
      BY <3>1, Numbers DEF b
    <3>3. Position' = Position
      BY <2>2, <3>1 DEF Position
    <3>4. (attempts + 1) * b <= Position' + pause'
      <4>1. PICK k \in Nat : k = attempts * b
        BY <1>0
      <4>2. k + b <= Position' + pause'
        <5>1. k <= Position + pause
          BY <1>1, <2>2, <4>1
        <5>2. \A p, q \in Nat : k <= p /\ q >= b => k + b <= p + q
          BY <1>0
        <5>3. k <= Position
          BY <1>0, <2>2, <5>1
        <5> QED
          BY <1>0, <3>2, <3>3, <5>2, <5>3
      <4> QED
        BY <2>5, <4>1, <4>2
    <3> QED
      BY <2>4, <3>1, <3>4 DEF Paced, b
  <2>7. CASE UpToDate
    <3>1. doneOn' = Opened /\ attempts' = attempts + 1 /\ settings' = settings
      BY <2>7 DEF UpToDate, Opened
    <3>2. WindowDone'
      BY <2>2, <3>1 DEF WindowDone, Opened
    <3> QED
      BY <2>4, <3>1, <3>2 DEF Paced, b
  <2> QED
    BY <1>8, <2>6, <2>7
<1>9. CASE CheckByHand \/ ClockLost \/ Over \/ UNCHANGED scheduleVars
  <2>1. UNCHANGED <<minute, today, settings, doneOn, attempts, pause>>
    BY <1>9 DEF CheckByHand, ClockLost, Over, scheduleVars, rtc, diagnostics, counted
  <2> QED
    BY <1>3, <2>1
<1>10. CASE Installs
  BY <1>2, <1>10, InstallStep
<1> QED
  BY <1>4, <1>5, <1>6, <1>7, <1>8, <1>9, <1>10
     DEF ScheduleNext, Service, AttemptSucceeds, Command

LEMMA ServedStep ==
    ASSUME ScheduleType, ScheduleType', Linked, Served, [ScheduleNext]_scheduleVars
    PROVE  Served'
<1>0. /\ WindowLength \in Nat /\ Position \in Nat /\ Position' \in Nat /\ pause \in Nat
      /\ pause' \in Nat /\ attempts \in Nat
  BY Numbers, PositionIs, PositionAfter DEF ScheduleType
(* A step after which the clock is to be looked at. *)
<1>1. ASSUME KeepsUsable, evaluated' = FALSE,
             usable' /\ Position' < WindowLength /\ pause' > 0 => attempts' >= 1 \/ WindowDone'
      PROVE  Served'
  BY <1>1, UsableKeeps DEF Served
<1>2. CASE Command
  <2>1. CommandKeeps
    BY <1>2, CommandStep
  <2>2. ASSUME usable', Position' < WindowLength, pause' > 0
        PROVE  attempts' >= 1 \/ WindowDone'
    <3>1. /\ pause' = pause /\ settings'.schedule = settings.schedule
          /\ Position < WindowLength => attempts' = attempts
          /\ UNCHANGED <<minute, today>> /\ doneOn' = doneOn
      BY <1>0, <2>1, <2>2 DEF CommandKeeps
    <3>2. Position' = Position /\ Opened' = Opened
      BY <3>1 DEF Position, Opened
    <3>3. usable
      BY <1>0, <2>1, <2>2, <3>2, UsableKeeps DEF CommandKeeps
    <3> QED
      BY <2>2, <3>1, <3>2, <3>3 DEF Served, WindowDone
  <2> QED
    BY <1>1, <2>1, <2>2 DEF CommandKeeps
<1>3. CASE Reset \/ UpdateByHand
  <2>1. KeepsUsable /\ evaluated' = FALSE /\ pause' = 0
    BY <1>3, StartStep
  <2>2. ~(pause' > 0)
    BY <2>1
  <2> QED
    BY <1>1, <2>1, <2>2, Zenon
<1>4. CASE TimePasses \/ Shift
  <2>1. /\ Recount(FALSE) /\ doneOn' = doneOn /\ KeepsUsable
        /\ UNCHANGED <<clockIsValid, settings>> /\ evaluated /\ evaluated' = FALSE
        /\ pause' \in 0..pause
        /\ Position < WindowLength /\ Position' < WindowLength => Opened' = Opened
    BY <1>4, ClockStep
  <2>2. ASSUME usable', Position' < WindowLength, pause' > 0
        PROVE  attempts' >= 1 \/ WindowDone'
    <3>1. Enabled
      BY <2>1, <2>2, UsableKeeps DEF Enabled
    <3>2. Position < WindowLength /\ pause > 0
      BY <1>0, <2>1, <2>2, <3>1 DEF Served
    <3>3. usable
      BY <1>0, <2>1, <2>2, <3>2, UsableKeeps
    <3>4. attempts' = attempts
      BY <2>1, <2>2, <3>2, RecountKeeps
    <3> QED
      BY <2>1, <2>2, <3>2, <3>3, <3>4 DEF Served, WindowDone
  <2> QED
    BY <1>1, <2>1, <2>2
<1>5. CASE ClockLost
  <2>1. /\ UNCHANGED <<minute, today, settings, pause, attempts, doneOn>>
        /\ KeepsUsable /\ evaluated' = FALSE
    BY <1>5 DEF ClockLost, counted
  <2>2. Position' = Position /\ Opened' = Opened
    BY <2>1 DEF Position, Opened
  <2>3. usable' /\ Position' < WindowLength => usable
    BY <1>0, <2>1, <2>2, UsableKeeps
  <2> QED
    BY <1>1, <2>1, <2>2, <2>3 DEF Served, WindowDone
<1>6. CASE Off \/ Closed \/ Waits \/ CheckByHand \/ Over \/ UNCHANGED scheduleVars
  <2>1. /\ UNCHANGED <<minute, today, settings, doneOn, attempts, clockIsValid, usable>>
        /\ ready' = ready
    BY <1>6
       DEF Off, Closed, Waits, CheckByHand, Over, scheduleVars, Evaluates, Looks, rtc,
           diagnostics, counted
  <2>2. Position' = Position /\ Opened' = Opened /\ (Enabled' <=> Enabled)
        /\ (WindowDone' <=> WindowDone)
    BY <2>1 DEF Position, Opened, Enabled, WindowDone
  <2>3. CASE Off
    <3>1. ~Enabled /\ pause' = pause
      BY <2>3 DEF Off, Enabled
    <3> QED
      BY <2>1, <2>2, <3>1 DEF Served
  <2>4. CASE Closed
    <3>1. pause' = 0 /\ (Position >= WindowLength \/ WindowDone)
      BY <1>0, <2>4, OpenIsNotDone, PositionIs DEF Closed, IsOpen
    <3> QED
      BY <1>0, <2>1, <2>2, <3>1 DEF Served
  <2>5. CASE Waits
    <3>1. pause' = pause /\ Position < WindowLength /\ (~ready \/ pause > 0)
      BY <2>5, PositionIs DEF Waits, IsOpen
    <3> QED
      BY <1>0, <2>1, <2>2, <3>1 DEF Served
  <2>6. CASE CheckByHand \/ Over \/ UNCHANGED scheduleVars
    <3>1. pause' = pause /\ evaluated' = evaluated
      BY <2>6 DEF CheckByHand, Over, scheduleVars
    <3> QED
      BY <2>1, <2>2, <3>1 DEF Served
  <2> QED
    BY <1>6, <2>3, <2>4, <2>5, <2>6
<1>7. CASE AttemptFails \/ AttemptSucceeds
  <2>1. Attempts
    BY <1>7 DEF AttemptFails, AttemptSucceeds, UpToDate, Installs
  <2>2. Position < WindowLength /\ UNCHANGED <<minute, today, clockIsValid>> /\ Enabled
    BY <2>1, PositionIs DEF Attempts, IsOpen, Looks, rtc
  <2>3. CASE AttemptFails
    <3>1. attempts' = attempts + 1 /\ settings' = settings /\ usable' = usable
      BY <2>3 DEF AttemptFails, Evaluates
    <3>2. Position' = Position /\ Enabled'
      BY <2>2, <3>1 DEF Position, Enabled
    <3> QED
      BY <1>0, <2>2, <3>1, <3>2 DEF Served
  <2>4. CASE Installs
    <3>1. KeepsUsable /\ pause' = 0 /\ evaluated' = FALSE
      BY <2>4, InstallStep
    <3>2. ~(pause' > 0)
      BY <3>1
    <3> QED
      BY <1>1, <3>1, <3>2, Zenon
  <2>5. CASE UpToDate
    <3>1. /\ settings' = settings /\ usable' = usable /\ pause' = 0
          /\ doneOn' = Opened
      BY <2>5 DEF UpToDate, Evaluates, Opened
    <3>2. Position' = Position /\ Enabled' /\ WindowDone'
      BY <2>2, <3>1 DEF Position, Enabled, WindowDone, Opened
    <3>3. ~(Position' >= WindowLength)
      BY <1>0, <2>2, <3>2
    <3> QED
      BY <3>2, <3>3, Zenon DEF Served
  <2> QED
    BY <1>7, <2>3, <2>4, <2>5 DEF AttemptSucceeds
<1> QED
  BY <1>2, <1>3, <1>4, <1>5, <1>6, <1>7 DEF ScheduleNext, Service, Command

LEMMA ScheduleInvariance ==
    ScheduleSpec => [](ScheduleType /\ Linked /\ Once /\ Paced /\ Served)
<1> DEFINE IInv == ScheduleType /\ Linked /\ Once /\ Paced /\ Served
<1>1. IInv /\ [ScheduleNext]_scheduleVars => IInv'
  <2> SUFFICES ASSUME IInv, [ScheduleNext]_scheduleVars PROVE IInv'
    OBVIOUS
  <2>1. ScheduleType'
    BY TypeStep
  <2>2. Linked'
    BY <2>1, LinkedStep
  <2> QED
    BY <2>1, <2>2, OnceStep, PacedStep, ServedStep
<1> QED
  BY <1>1, InitHolds, PTL DEF ScheduleSpec

(* The window that opened once a day gets one answer and a bounded number  *)
(* of attempts: through midnight, the end of every month and year, shifts  *)
(* of the clock, restarts, commands and installations by hand (service(),  *)
(* installUpdate()).  It gets another answer only when saveDiagnostics()   *)
(* has not written its note and a restart in it has lost what RAM knew.    *)
THEOREM WindowIsUsedOnceAlways == ScheduleSpec => []WindowIsUsedOnce
<1>1. Once /\ Paced => WindowIsUsedOnce
  BY DEF Once, Paced, WindowIsUsedOnce
<1> QED
  BY <1>1, ScheduleInvariance, PTL

(* No window that could be used passes unused for a pause, a note or a     *)
(* setting that is left from an earlier one (service()).                   *)
THEOREM EveryWindowIsUsedAlways == ScheduleSpec => []EveryWindowIsUsed
<1>1. ScheduleType /\ Served => EveryWindowIsUsed
  BY PositionIs DEF Served, EveryWindowIsUsed, WindowDone, Opened
<1> QED
  BY <1>1, ScheduleInvariance, PTL

(* What the operator was told is stored is what the next boot goes by, as  *)
(* long as updates are automatic (save(), clearWifi()).                    *)
THEOREM AnsweredIsStoredAlways == ScheduleSpec => []AnsweredIsStored
<1>1. ScheduleInit => AnsweredIsStored
  BY DEF ScheduleInit, AnsweredIsStored
<1>2. ScheduleType /\ AnsweredIsStored /\ [ScheduleNext]_scheduleVars => AnsweredIsStored'
  <2> SUFFICES ASSUME ScheduleType, AnsweredIsStored, [ScheduleNext]_scheduleVars,
                      saved', settings'.automatic
               PROVE  settings' = stored'
    BY DEF AnsweredIsStored
  <2>1. CASE \E on \in BOOLEAN : SetAutomatic(on)
    BY <2>1 DEF SetAutomatic, Save
  <2>2. CASE \E time \in Schedules : SetSchedule(time)
    BY <2>2 DEF SetSchedule, Save
  <2>3. CASE SaveWifi
    BY <2>3 DEF SaveWifi, Save
  <2>4. CASE ClearWifi
    BY <2>4 DEF ClearWifi, ScheduleType, Setting
  <2>5. CASE Reset \/ UpdateByHand
    BY <2>5 DEF Reset, UpdateByHand, StartsAgain, Begins
  <2>6. CASE Service
    <3>1. CASE Installs
      BY <3>1 DEF Installs, Begins
    <3>2. CASE Off \/ Closed \/ Waits \/ AttemptFails \/ UpToDate
      BY <3>2
         DEF Off, Closed, Waits, AttemptFails, UpToDate, Attempts, Evaluates, Looks,
             AnsweredIsStored
    <3> QED
      BY <2>6, <3>1, <3>2 DEF Service, AttemptSucceeds
  <2>7. CASE TimePasses \/ Shift \/ ClockLost \/ CheckByHand \/ Over \/ UNCHANGED scheduleVars
    BY <2>7
       DEF TimePasses, Shift, Shows, ClockLost, CheckByHand, Over, scheduleVars,
           AnsweredIsStored
  <2> QED
    BY <2>1, <2>2, <2>3, <2>4, <2>5, <2>6, <2>7 DEF ScheduleNext
<1>3. ScheduleSpec => []ScheduleType
  BY ScheduleInvariance, PTL
<1> QED
  BY <1>1, <1>2, <1>3, PTL DEF ScheduleSpec
=============================================================================
