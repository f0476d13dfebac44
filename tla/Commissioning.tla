--------------------------- MODULE Commissioning ---------------------------
(***************************************************************************)
(* The USB commands that set up one inverter (processUsbCommand() of       *)
(* src/main.cpp): max, id, limit, rsecfg and commit.  A commit validates   *)
(* the rating against the inverter: it reads the power register, writes    *)
(* the candidate, reads it back, looks at the contacts again and accepts   *)
(* the read value as ceiling, or writes the old value back.  Each of these *)
(* Modbus waits lets the contacts change.                                  *)
(*                                                                         *)
(* The contacts are given by the level they decode to, before and after    *)
(* debouncing.  save() either stores the configuration or fails            *)
(* (ConfigStore); a batch of the control core writes the level's target or *)
(* fails (RseControl, which also has the health counters and TEST).        *)
(***************************************************************************)
EXTENDS ConfigRules

CONSTANTS
    Watts,          \* ratings the operator enters
    Curves,         \* curves the operator enters
    FeedMasks,      \* feed permissions the operator enters
    InitialPower,   \* register values the inverter may start with
    Nameplate,      \* the inverter clamps every power write to this value
    Levels,         \* levels the contacts show, RSE_INVALID among them
    InitialConfigs, \* settings found in flash
    Commands,       \* USB commands the operator uses in this instance
    Faults,         \* "save", "bus"
    MaxFaults

ASSUME CommissioningAssumption ==
    /\ Watts \subseteq Nat \ {0} /\ Curves \subseteq [Level -> Nat]
    /\ FeedMasks \subseteq SUBSET Level
    /\ Nameplate \in Nat \ {0} /\ MaxFaults \in Nat
    /\ InitialPower \subseteq 0..Nameplate
    /\ Quantity = 1 => InitialPower \subseteq 0..RegisterMax
    /\ Levels \subseteq Level \cup {RSE_INVALID}

(* load() ends with sanitize(). *)
ASSUME LoadAssumption ==
    /\ InitialConfigs \subseteq InverterConfig
    /\ \A c \in InitialConfigs : Sanitize(c) = c

VARIABLES
    config, saved,          \* settings in RAM and in flash
    power,                  \* power register of the inverter
    inverterAtTarget,
    physical, stable,       \* level of the contacts, raw and debounced
    dryRun,
    pc,                     \* "idle" or the stage of a commit
    wanted,                 \* installed watts of the running commit
    before,                 \* register value it found
    candidate,              \* result of its write: [ok, communicationOk, value]
    leftLive,               \* it found the contacts off 100 %
    answer,                 \* last answer to the operator
    budget

commit == <<wanted, before, candidate, leftLive>>
input == <<physical, stable, dryRun>>
device == <<power, inverterAtTarget>>
vars == <<config, saved, device, input, pc, commit, answer, budget>>

Answer == {"none", "OK", "CLAMPED", "PENDING", "ERROR", "ERROR restored",
           "ERROR restore failed"}

NoResult == [ok |-> FALSE, communicationOk |-> FALSE, value |-> 0]

Rated == HasRating(config)

TypeOK ==
    /\ config \in InverterConfig /\ saved \in InverterConfig
    /\ power \in Nat /\ inverterAtTarget \in BOOLEAN
    /\ physical \in Levels /\ stable \in Levels /\ dryRun \in BOOLEAN
    /\ pc \in {"idle", "read", "write", "check", "restore"}
    /\ pc # "idle" => wanted \in Watts /\ ~Rated
    /\ wanted \in Nat /\ before \in Nat /\ leftLive \in BOOLEAN
    /\ candidate \in [ok : BOOLEAN, communicationOk : BOOLEAN, value : Nat]
    /\ answer \in Answer
    /\ budget \in 0..MaxFaults

Disturb(kind) == kind \in Faults /\ budget > 0 /\ budget' = budget - 1

Smaller(a, b) == IF a < b THEN a ELSE b

Accepted(watts) == Smaller(watts, Nameplate)

Candidate == ValidationWatts(wanted)

-----------------------------------------------------------------------------
(* saveConfig() with the settings of the caller, who puts the ones of      *)
(* before back when it fails.                                              *)
SaveSucceeds(c) ==
    /\ config' = Sanitize(c) /\ saved' = Sanitize(c)
    /\ UNCHANGED budget

SaveFails(c) == Disturb("save") /\ config' = c /\ UNCHANGED saved

SaveOrKeep(c, good) ==
    \/ SaveSucceeds(c) /\ answer' = good
    \/ SaveFails(config) /\ answer' = "ERROR"

Forget ==
    /\ wanted' = 0 /\ before' = 0 /\ candidate' = NoResult
    /\ leftLive' = FALSE

Command(name) == pc = "idle" /\ name \in Commands

Max(watts) ==
    /\ Command("max")
    /\ SaveOrKeep(MaxSettings(config, watts), "OK")
    /\ UNCHANGED <<device, input, pc, commit>>

Id(on) ==
    /\ Command("id")
    /\ SaveOrKeep([config EXCEPT !.enabled = on], "OK")
    /\ UNCHANGED <<device, input, pc, commit>>

Limit(watts) ==
    /\ Command("limit")
    /\ FitsRegisters(watts)
    /\ SaveOrKeep(LimitSettings(config, watts), "OK")
    /\ UNCHANGED <<device, input, pc, commit>>

RseCfgAccepted(curve, mask) ==
    /\ Command("rsecfg")
    /\ OutOfRange(config, curve) = {}
    /\ SaveOrKeep(RseCfgSettings(config, curve, mask), "OK")
    /\ UNCHANGED <<device, input, pc, commit>>

RseCfgRejected(curve) ==
    /\ Command("rsecfg")
    /\ OutOfRange(config, curve) # {}
    /\ config' = RejectedSettings(config, curve)
    /\ answer' = "ERROR"
    /\ UNCHANGED <<saved, device, input, pc, commit, budget>>

-----------------------------------------------------------------------------
(* commit *)

CommitOff(watts) ==
    /\ Command("commit")
    /\ SaveOrKeep(OffSettings(config, watts), "OK")
    /\ UNCHANGED <<device, input, pc, commit>>

CommitWithRating(watts) ==
    /\ Command("commit")
    /\ Rated
    /\ SaveOrKeep(OnSettings(config, watts), "OK")
    /\ UNCHANGED <<device, input, pc, commit>>

(* No TEST runs while an installer commits. *)
MayValidate == MayValidateInverterRating(dryRun, FALSE, physical)

CommitDeferred(watts) ==
    /\ Command("commit")
    /\ ~Rated /\ ~MayValidate
    /\ SaveOrKeep(PendingSettings(config, watts), "PENDING")
    /\ UNCHANGED <<device, input, pc, commit>>

(* Mutant: a known ceiling is validated again. *)
CommitStartAlways(watts) ==
    /\ Command("commit")
    /\ MayValidate
    /\ wanted' = watts
    /\ pc' = "read"
    /\ UNCHANGED <<config, saved, device, input, before, candidate, leftLive,
                   answer, budget>>

CommitStart(watts) ==
    /\ Command("commit")
    /\ ~Rated /\ MayValidate
    /\ wanted' = watts
    /\ pc' = "read"
    /\ UNCHANGED <<config, saved, device, input, before, candidate, leftLive,
                   answer, budget>>

CommitRead ==
    /\ pc = "read"
    /\ before' = power
    /\ pc' = "write"
    /\ UNCHANGED <<config, saved, device, input, wanted, candidate, leftLive,
                   answer, budget>>

(* No answer: the commit is deferred.  Its save may fail with the bus.     *)
CommitReadFails ==
    /\ pc = "read"
    /\ Disturb("bus")
    /\ \/ /\ config' = Sanitize(PendingSettings(config, wanted))
          /\ saved' = config'
          /\ answer' = "PENDING"
       \/ /\ "save" \in Faults /\ UNCHANGED <<config, saved>>
          /\ answer' = "ERROR"
    /\ pc' = "idle"
    /\ Forget
    /\ UNCHANGED <<device, input>>

ReadBack(value) ==
    [ok |-> value = Candidate, communicationOk |-> TRUE, value |-> value]

(* One attempt of writeAndVerify().  The readback decides: a lost write is *)
(* seen as the old value, and a lost readback as no value.                 *)
CommitWrite ==
    /\ pc = "write"
    /\ \/ /\ power' = Accepted(Candidate)
          /\ candidate' = ReadBack(power')
          /\ UNCHANGED budget
       \/ /\ Disturb("bus")
          /\ UNCHANGED power
          /\ candidate' = ReadBack(power)
       \/ /\ Disturb("bus")
          /\ power' \in {power, Accepted(Candidate)}
          /\ \E heard \in BOOLEAN :
                 candidate' = [NoResult EXCEPT !.communicationOk = heard]
    /\ pc' = "check"
    /\ UNCHANGED <<config, saved, inverterAtTarget, input, wanted, before,
                   leftLive, answer>>

(* The second look at the contacts. *)
CommitLeavesLive ==
    /\ pc = "check" /\ physical # 100
    /\ leftLive' = TRUE
    /\ pc' = "restore"
    /\ UNCHANGED <<config, saved, device, input, wanted, before, candidate,
                   answer, budget>>

HasCeiling == candidate.ok \/ (candidate.communicationOk /\ candidate.value > 0)

WithCeiling == RatedSettings(config, wanted, candidate.value)

CommitAccepted ==
    /\ pc = "check" /\ physical = 100 /\ HasCeiling
    /\ SaveSucceeds(WithCeiling)
    /\ inverterAtTarget' = TRUE
    /\ answer' = IF candidate.ok THEN "OK" ELSE "CLAMPED"
    /\ pc' = "idle"
    /\ Forget
    /\ UNCHANGED <<power, input>>

(* Mutant: the inverter keeps the candidate that was not saved. *)
CommitNotSavedKeepsCandidate ==
    /\ pc = "check" /\ physical = 100 /\ HasCeiling
    /\ SaveFails(config)
    /\ answer' = "ERROR restored"
    /\ pc' = "idle"
    /\ Forget
    /\ UNCHANGED <<device, input>>

CommitNotSaved ==
    /\ pc = "check" /\ physical = 100 /\ HasCeiling
    /\ SaveFails(config)
    /\ pc' = "restore"
    /\ UNCHANGED <<device, input, commit, answer>>

CommitNotConfirmed ==
    /\ pc = "check" /\ physical = 100 /\ ~HasCeiling
    /\ pc' = "restore"
    /\ UNCHANGED <<config, saved, device, input, commit, answer, budget>>

(* The old value is written back.  After a change of the contacts the      *)
(* command goes on to returnToPhysicalRse(); the inverter has no rating    *)
(* yet, so that its batch leaves it alone.                                 *)
CommitRestore ==
    /\ pc = "restore"
    /\ \/ /\ power' = Accepted(before)
          /\ answer' = "ERROR restored"
          /\ UNCHANGED budget
       \/ /\ Disturb("bus")
          /\ power' \in {power, Accepted(before)}
          /\ answer' = "ERROR restore failed"
    /\ stable' = IF leftLive THEN physical ELSE stable
    /\ pc' = "idle"
    /\ Forget
    /\ UNCHANGED <<config, saved, inverterAtTarget, physical, dryRun>>

-----------------------------------------------------------------------------
(* The contacts, the control core and SAFE. *)

(* A batch of the control core as far as this inverter, set up as c, is     *)
(* concerned.                                                              *)
Batch(c, level, locked) ==
    IF Controllable(c) /\ ~locked /\ level \in Level
    THEN LET target == WattsForPercent(c.rsePowerW, c.inverterLimitW, level)
         IN  \/ /\ power' = Accepted(target)
                /\ inverterAtTarget' = (power' = target)
                /\ UNCHANGED budget
             \/ /\ Disturb("bus")
                /\ inverterAtTarget' = FALSE
                /\ UNCHANGED power
    ELSE UNCHANGED <<device, budget>>

ContactsChange ==
    /\ \E level \in Levels \ {physical} : physical' = level
    /\ UNCHANGED <<config, saved, device, stable, dryRun, pc, commit, answer,
                   budget>>

RseTransition ==
    /\ pc = "idle" /\ physical # stable
    /\ stable' = physical
    /\ Batch(config, physical, dryRun)
    /\ UNCHANGED <<config, saved, physical, dryRun, pc, commit, answer>>

DryRunOn ==
    /\ Command("dryrun")
    /\ SaveOrKeep(config, "OK")
    /\ dryRun' = IF answer' = "OK" THEN TRUE ELSE dryRun
    /\ UNCHANGED <<device, physical, stable, pc, commit>>

DryRunNotOff ==
    /\ Command("dryrun")
    /\ SaveFails(config)
    /\ answer' = "ERROR"
    /\ UNCHANGED <<device, input, pc, commit>>

DryRunOff ==
    /\ Command("dryrun")
    /\ config' = Sanitize(config) /\ saved' = Sanitize(config)
    /\ dryRun' = FALSE /\ stable' = physical
    /\ Batch(Sanitize(config), physical, FALSE)
    /\ answer' = "OK"
    /\ UNCHANGED <<physical, pc, commit>>

-----------------------------------------------------------------------------
Init ==
    /\ config \in InitialConfigs /\ saved = config
    /\ power \in InitialPower /\ inverterAtTarget = FALSE
    /\ physical \in Levels /\ stable = physical /\ dryRun \in BOOLEAN
    /\ pc = "idle"
    /\ wanted = 0 /\ before = 0 /\ candidate = NoResult /\ leftLive = FALSE
    /\ answer = "none"
    /\ budget = MaxFaults

UsbCommand ==
    \/ \E watts \in Watts :
           \/ Max(watts) \/ Limit(watts) \/ CommitOff(watts)
           \/ CommitWithRating(watts) \/ CommitDeferred(watts)
           \/ CommitStart(watts)
    \/ \E curve \in Curves :
           \/ RseCfgRejected(curve)
           \/ \E mask \in FeedMasks : RseCfgAccepted(curve, mask)
    \/ \E on \in BOOLEAN : Id(on)
    \/ DryRunOn \/ DryRunNotOff \/ DryRunOff

CommitStep ==
    \/ CommitRead \/ CommitReadFails \/ CommitWrite \/ CommitLeavesLive
    \/ CommitAccepted \/ CommitNotSaved \/ CommitNotConfirmed \/ CommitRestore

Next == UsbCommand \/ CommitStep \/ ContactsChange \/ RseTransition

Spec == Init /\ [][Next]_vars

-----------------------------------------------------------------------------
(* Properties. *)

(* Whatever order max, limit, rsecfg, commit and failed saves come in, an   *)
(* inverter whose rating is verified has a writable ceiling and no level of *)
(* its curve above it, in use and in flash.                                 *)
CurveWithinCeiling ==
    \A c \in {config, saved} :
        c.ratingVerified =>
            /\ c.maxPvPowerW > 0 /\ c.inverterLimitW > 0
            /\ Quantity = 1 => c.inverterLimitW <= RegisterMax
            /\ \A l \in Level : c.rsePowerW[l] <= c.inverterLimitW

(* A commit ends with a rated inverter and the saved rating, or with the    *)
(* register as it found it and no rating, or it reports that the register   *)
(* could not be restored.                                                   *)
CommitEndsRatedOrRestored ==
    [][pc # "idle" /\ pc' = "idle" =>
        \/ answer' \in {"OK", "CLAMPED"} /\ Rated' /\ saved' = config'
        \/ answer' \in {"PENDING", "ERROR"} /\ power' = power /\ ~Rated'
        \/ answer' = "ERROR restored" /\ power' = before /\ ~Rated'
        \/ answer' = "ERROR restore failed" /\ ~Rated']_vars

Validated == pc = "check" /\ ~Rated /\ Rated'

(* Claim of a comment in commit: the readback it saves as verified ceiling  *)
(* is the candidate as the inverter clamped it.                             *)
CeilingIsClamp ==
    [][Validated => config'.inverterLimitW = Accepted(Candidate)]_vars

(* Claim of a comment in commit: the candidate can never relax a lower      *)
(* network limit, so that none is in force when it is accepted.             *)
CommitRespectsStableLevel ==
    [][Validated => stable \notin {0, 30, 60}]_vars

(* Claim of a comment in sanitize(): a missing rating never turns into a    *)
(* 0 W command.  No command of the instance sets a curve.                   *)
ControlledGetsPower == Controllable(config) => config.rsePowerW[100] > 0
=============================================================================
