------------------------------ MODULE EventLog ------------------------------
(***************************************************************************)
(* The event log on the SD card (EventLog.cpp): a file that is appended to *)
(* and, when it is full, becomes the previous one.  Every call to the card *)
(* may fail, and power may be lost between any two of them.                *)
(*                                                                         *)
(* A record is its number.  The size of a file is its number of records.   *)
(***************************************************************************)
EXTENDS Naturals, SequencesExt

CONSTANTS
    Capacity,       \* MAX_LOG_BYTES, in records
    MaxRecords,     \* bound on the records of a behaviour
    MaxFaults       \* bound on failing calls and losses of power

ASSUME LogAssumption ==
    Capacity \in Nat \ {0} /\ MaxRecords \in Nat /\ MaxFaults \in Nat

Absent == <<0>>     \* no such file; 0 is no record

VARIABLES
    log, old,       \* LOG_PATH and OLD_LOG_PATH
    available,      \* available_
    call,           \* the next call of append()
    next,           \* number of the next record
    written,        \* all records that the card has taken
    faults          \* failures that may still happen

logVars == <<log, old, available, call, next, written, faults>>

File == Seq(1..MaxRecords) \cup {Absent}

(* While the log is in use, there is one to append to. *)
LogTypeOK ==
    /\ log \in File /\ old \in File /\ written \in Seq(1..MaxRecords)
    /\ available \in BOOLEAN
    /\ call \in {"off", "idle", "remove", "rename", "create", "reopen", "write"}
    /\ next \in 1..(MaxRecords + 1) /\ faults \in 0..MaxFaults
    /\ available /\ call # "create" => log # Absent

Fault == faults > 0 /\ faults' = faults - 1

LogInit ==
    /\ log = Absent /\ old = Absent /\ available = FALSE /\ call = "off"
    /\ next = 1 /\ written = <<>> /\ faults = MaxFaults

(* begin(): without a log file one is created; a card may be missing. *)
Begin ==
    /\ call = "off" /\ call' = "idle"
    /\ \/ available' = TRUE /\ UNCHANGED faults
          /\ log' = IF log = Absent THEN <<>> ELSE log
       \/ available' = FALSE /\ Fault /\ UNCHANGED log
    /\ UNCHANGED <<old, next, written>>

(* Mutant: a file of the full size takes one more record. *)
IsOverfull(file) == Len(file) > Capacity

IsFull(file) == Len(file) >= Capacity

(* append() opens the file. *)
Open ==
    /\ call = "idle" /\ available /\ next <= MaxRecords
    /\ next' = next + 1
    /\ \/ /\ call' = IF IsFull(log) THEN "remove" ELSE "write"
          /\ UNCHANGED <<available, faults>>
       \/ Fault /\ available' = FALSE /\ UNCHANGED call
    /\ UNCHANGED <<log, old, written>>

(* The line goes to USB alone. *)
Unavailable ==
    /\ call = "idle" /\ ~available /\ next <= MaxRecords
    /\ next' = next + 1
    /\ UNCHANGED <<log, old, available, call, written, faults>>

(* The result of remove() is not looked at. *)
RemoveOld ==
    /\ call = "remove" /\ call' = "rename"
    /\ \/ old' = Absent /\ UNCHANGED faults
       \/ Fault /\ UNCHANGED old
    /\ UNCHANGED <<log, available, next, written>>

(* Mutant: a file is created whether or not the full one was renamed. *)
RenameUnchecked ==
    /\ call = "rename" /\ call' = "create"
    /\ \/ old = Absent /\ old' = log /\ log' = Absent /\ UNCHANGED faults
       \/ /\ IF old = Absent THEN Fault ELSE UNCHANGED faults
          /\ UNCHANGED <<log, old>>
    /\ UNCHANGED <<available, next, written>>

(* rename() fails if the name is taken. *)
Rename ==
    /\ call = "rename"
    /\ \/ /\ old = Absent
          /\ old' = log /\ log' = Absent /\ call' = "create" /\ UNCHANGED faults
       \/ /\ IF old = Absent THEN Fault ELSE UNCHANGED faults
          /\ call' = "reopen" /\ UNCHANGED <<log, old>>
    /\ UNCHANGED <<available, next, written>>

(* createLogFile() empties the file if there is one. *)
Create ==
    /\ call = "create"
    /\ \/ log' = <<>> /\ call' = "reopen" /\ UNCHANGED <<available, faults>>
       \/ Fault /\ available' = FALSE /\ call' = "idle" /\ UNCHANGED log
    /\ UNCHANGED <<old, next, written>>

Reopen ==
    /\ call = "reopen"
    /\ \/ call' = "write" /\ UNCHANGED <<available, faults>>
       \/ Fault /\ available' = FALSE /\ call' = "idle"
    /\ UNCHANGED <<log, old, next, written>>

(* The results of println() and flush() are not looked at. *)
Write ==
    /\ call = "write" /\ call' = "idle"
    /\ \/ /\ log' = Append(log, next - 1) /\ written' = Append(written, next - 1)
          /\ UNCHANGED faults
       \/ Fault /\ UNCHANGED <<log, written>>
    /\ UNCHANGED <<old, available, next>>

PowerLoss ==
    /\ call # "off" /\ Fault
    /\ call' = "off" /\ available' = FALSE
    /\ UNCHANGED <<log, old, next, written>>

Done == call = "idle" /\ next > MaxRecords /\ UNCHANGED logVars

LogNext == \/ Begin \/ Open \/ Unavailable \/ RemoveOld \/ Rename \/ Create
           \/ Reopen \/ Write \/ PowerLoss \/ Done

LogSpec == LogInit /\ [][LogNext]_logVars

-----------------------------------------------------------------------------
(* Properties. *)

Records(file) == IF file = Absent THEN <<>> ELSE file
OnCard == Records(old) \o Records(log)

(* Wherever a call fails or power is lost, the two files hold the newest   *)
(* records that the card has taken, in order and without a gap, and a full *)
(* file of them if there were so many: a rotation loses only what is older.*)
KeepsLatest ==
    /\ IsSuffix(OnCard, written)
    /\ Len(OnCard) >= Capacity \/ OnCard = written

(* The file outgrows its capacity only by the records of failed rotations. *)
GrowthIsExcused ==
    Len(Records(log)) <= Capacity + MaxFaults - faults
=============================================================================
