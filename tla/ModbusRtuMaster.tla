--------------------------- MODULE ModbusRtuMaster ---------------------------
(***************************************************************************)
(* The sole master of the inverter bus (ModbusRtuMaster.cpp): one          *)
(* transaction at a time, each a transmission that first empties the       *)
(* receive buffer and a wait for an answer that fits.                      *)
(*                                                                         *)
(* An answer fits when its checksum, slave and function do; nothing in it  *)
(* names the address it was asked for.  An answer that comes after its     *)
(* wait has ended is therefore taken for the answer to the next            *)
(* transmission.  One that comes later still finds an emptied buffer.      *)
(*                                                                         *)
(* Each inverter has one register, its power limit, and the requests are   *)
(* to read it alone, to read a block that contains it, and to write it.    *)
(***************************************************************************)
EXTENDS Integers

CONSTANTS
    Slaves,
    Values,         \* of the power limit
    InitialPower,   \* bound on what the registers hold at first
    MaxFaults       \* bound on requests and answers lost, late or refused

ASSUME BusAssumption ==
    /\ Slaves \subseteq 2..7
    /\ Values \cap {"none", "exception", "ack"} = {}
    /\ InitialPower \subseteq [Slaves -> Values]
    /\ MaxFaults \in Nat

Limit(s) == [slave |-> s, function |-> "read", what |-> "limit"]
Block(s) == [slave |-> s, function |-> "read", what |-> "block"]
WriteLimit(s, v) == [slave |-> s, function |-> "write", what |-> v]

Reads == {Limit(s) : s \in Slaves} \cup {Block(s) : s \in Slaves}
Writes == {WriteLimit(s, v) : s \in Slaves, v \in Values}

(* An answer carries the slave and function of its request, and of its     *)
(* address only what the length shows (kept whole here for the checks).    *)
None == [slave |-> 0, function |-> "none", what |-> "none"]     \* no request
NoAnswer == [request |-> None, data |-> "none"]
AnswersTo(r) == [request : {r},
                 data : {"exception"} \cup (IF r \in Reads THEN Values ELSE {"ack"})]
Answers == UNION {AnswersTo(r) : r \in Reads \cup Writes}

NoWire == [request |-> None, answer |-> NoAnswer]

VARIABLES
    power,          \* the register of each inverter
    committing,     \* value it has acknowledged but not taken over yet
    wire,           \* the transaction in flight
    late,           \* answer that may still come into the next one
    crossed,        \* a late answer has been taken for another
    faults

busVars == <<power, committing, wire, late, crossed, faults>>

BusTypeOK ==
    /\ power \in [Slaves -> Values]
    /\ committing \in [Slaves -> Values \cup {"none"}]
    /\ \/ wire = NoWire
       \/ /\ wire.request \in Reads \cup Writes
          /\ wire.answer \in AnswersTo(wire.request) \cup {NoAnswer}
    /\ late \in Answers \cup {NoAnswer}
    /\ crossed \in BOOLEAN
    /\ faults \in 0..MaxFaults

BusInit ==
    /\ power \in InitialPower
    /\ committing = [s \in Slaves |-> "none"]
    /\ wire = NoWire /\ late = NoAnswer /\ crossed = FALSE /\ faults = 0

Fails == faults < MaxFaults /\ faults' = faults + 1

-----------------------------------------------------------------------------
(* transmit(): the inverter hears the request and answers with what it     *)
(* holds now, refuses it, or does not hear it.  It takes a written value   *)
(* over at once or keeps the old one for a while.                          *)
Heard(r) ==
    /\ UNCHANGED faults
    /\ \/ /\ r \in Reads
          /\ wire' = [request |-> r,
                      answer |-> [request |-> r, data |-> power[r.slave]]]
          /\ UNCHANGED <<power, committing>>
       \/ /\ r \in Writes
          /\ wire' = [request |-> r, answer |-> [request |-> r, data |-> "ack"]]
          /\ \/ /\ power' = [power EXCEPT ![r.slave] = r.what]
                /\ committing' = [committing EXCEPT ![r.slave] = "none"]
             \/ /\ committing' = [committing EXCEPT ![r.slave] = r.what]
                /\ UNCHANGED power

Refused(r) ==
    /\ Fails
    /\ wire' = [request |-> r, answer |-> [request |-> r, data |-> "exception"]]
    /\ UNCHANGED <<power, committing>>

Unheard(r) ==
    /\ Fails
    /\ wire' = [request |-> r, answer |-> NoAnswer]
    /\ UNCHANGED <<power, committing>>

Transmit(r) ==
    /\ Heard(r) \/ Refused(r) \/ Unheard(r)
    /\ UNCHANGED <<late, crossed>>

Commit(s) ==
    /\ committing[s] # "none"
    /\ power' = [power EXCEPT ![s] = committing[s]]
    /\ committing' = [committing EXCEPT ![s] = "none"]

-----------------------------------------------------------------------------
(* receive(): an answer of the slave and function is accepted.             *)
Fits(a, r) ==
    /\ a # NoAnswer
    /\ a.request.slave = r.slave /\ a.request.function = r.function

(* readRaw(): the length is checked too.                                   *)
FitsExactly(a, r) == Fits(a, r) /\ a.request.what = r.what

(* End of the wait with answer a, or NoAnswer after an error or timeout;   *)
(* fits says whether the late answer is one the caller accepts.            *)
(* Comes before its end: the own answer, or a late one of the              *)
(* transmission before it.                                                 *)
OwnAnswer(a) ==
    /\ a = wire.answer /\ late' = NoAnswer
    /\ UNCHANGED <<crossed, faults>>

LostOrDelayed(a) ==
    /\ wire.answer # NoAnswer /\ Fails
    /\ a = NoAnswer /\ late' \in {NoAnswer, wire.answer}
    /\ UNCHANGED crossed

LateAnswer(a, fits) ==
    /\ late # NoAnswer
    /\ a = (IF fits THEN late ELSE NoAnswer)
    /\ crossed' = (crossed \/ a # NoAnswer)
    /\ late' \in {NoAnswer, wire.answer}
    /\ UNCHANGED faults

Receive(a, fits) ==
    /\ wire # NoWire /\ wire' = NoWire
    /\ OwnAnswer(a) \/ LostOrDelayed(a) \/ LateAnswer(a, fits)
    /\ UNCHANGED <<power, committing>>
==============================================================================
