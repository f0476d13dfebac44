----------------------------- MODULE RseControl -----------------------------
(***************************************************************************)
(* The control core of the bridge (src/main.cpp): sampling and debouncing  *)
(* of the ripple-control contacts, the write batch over all inverters, its *)
(* abortion by a newer input, manual TEST, SAFE (dry run), the read-only   *)
(* round-robin poll and reboots.                                           *)
(*                                                                         *)
(* The firmware is one thread: pc names the phase of loop() or the stage   *)
(* of the batch it is in.  Every Modbus wait runs the idle callback        *)
(* serviceTimeCriticalInputs, so SampleInputs may happen between any two   *)
(* stages; contacts, clock and inverters change at any time.               *)
(*                                                                         *)
(* The settings of the inverters change under USB commands while the       *)
(* bridge controls them; what each command does to the settings of one     *)
(* inverter is in ConfigRules.tla.                                         *)
(*                                                                         *)
(* One budget bounds the whole environment: a change of the contacts, a    *)
(* bus failure, a USB command, a foreign write and a reboot each take one  *)
(* unit of `budget`, which says what kinds of them a behaviour admits.     *)
(***************************************************************************)
EXTENDS ConfigRules

CONSTANTS
    N,                \* number of inverter slots (INVERTER_COUNT)
    InitialSettings,  \* settings of all inverters the bridge may start with
    Watts,            \* ratings the operator enters
    Curves,           \* curves the operator enters
    FeedMasks,        \* feed permissions the operator enters
    Profiles,         \* profiles the installation may be set to
    Patterns,         \* contact patterns the grid operator's receiver shows
    ForeignWatts,     \* register values that clamping or other masters cause
    Mixes             \* budgets of the environment

HEALTH_FAILURE_THRESHOLD == 3

Inverters == 1..N

(* Kinds of environment steps, and what a behaviour may have of them.      *)
Kinds == {"contact", "fault", "reboot", "test", "apply", "dryrun", "profile", "id",
          "setup", "probe", "foreign", "wrap", "update"}
Budget == [kinds : SUBSET Kinds, left : Nat]

ASSUME NAssumption == N \in Nat \ {0}
ASSUME SettingsAssumption ==
    /\ InitialSettings \subseteq [Inverters -> InverterConfig]
    /\ \A settings \in InitialSettings, i \in Inverters :
           Sanitize(settings[i]) = settings[i]         \* load()
    /\ Watts \subseteq Nat \ {0} /\ Curves \subseteq [Level -> Nat]
    /\ FeedMasks \subseteq SUBSET Level
ASSUME SetAssumption ==
    /\ Profiles \subseteq RseProfile
    /\ Patterns \subseteq Mask
    /\ ForeignWatts \subseteq Nat
    /\ Mixes \subseteq Budget

VARIABLES
    contacts,               \* the physical contacts
    rawRseMask,             \* last sample
    stableRseMask,          \* debounced mask
    age,                    \* time since rawChangedAt: 0 below debounceMs,
                            \* 1 debounced, 2 debounced for another 2 s
    profile, dryRun,
    setup, saved,           \* settings of the inverters, in use and in flash
    commit,                 \* the commit that runs, and for which inverter
    activePercent,          \* commanded level, -1 when there is none
    outputHealthy,
    controlReapplyRequired,
    manualTestActive,
    testDue,                \* manualTestDeadline has passed
    power, feed,            \* registers of the inverters themselves
    inverterAtTarget, inverterHealthy, inverterFailureStreak,
    unjudged,               \* history, no part of the program: the inverters
                            \* whose settings or register a command changed
                            \* since a batch or a poll compared them
    periodicReadCursor,
    pc,                     \* phase of loop(), stage of applyLevel() or commit
    ret,                    \* phase that follows the running batch
    cur,                    \* inverter the batch is at
    superseded, allOk, feedOk,          \* locals of applyLevel()
    result,                 \* last power transaction: see Result
    budget                  \* kinds of environment steps, how many are left

inputVars == <<contacts, rawRseMask, stableRseMask, age>>
configVars == <<profile, dryRun, setup, saved, commit>>
testVars == <<manualTestActive, testDue>>
deviceVars == <<power, feed>>
flagVars == <<inverterAtTarget, inverterHealthy, inverterFailureStreak>>
statusVars == <<flagVars, unjudged>>
batchVars == <<cur, superseded, allOk, feedOk, result>>

vars == <<inputVars, configVars, activePercent, outputHealthy,
          controlReapplyRequired, testVars, deviceVars, statusVars,
          periodicReadCursor, pc, ret, batchVars, budget>>

Commit == [inverter : Inverters, watts : Nat, before : Nat, read : Nat,
           leftLive : BOOLEAN]
NoCommit == [inverter |-> 1, watts |-> 0, before |-> 0, read |-> 0,
             leftLive |-> FALSE]

(* "match"/"differs": verified read of the target/of another value. *)
Result == {"fail", "match", "differs"}

LoopPhase == {"usb", "expiry", "rse", "poll"}
BatchStage == {"check", "feedOff", "preWrite", "write", "feed", "gap", "finish"}
CommitStage == {"commitRead", "commitWrite", "commitCheck", "commitRestore"}

TypeOK ==
    /\ contacts \in Mask /\ rawRseMask \in Mask /\ stableRseMask \in Mask
    /\ age \in 0..2
    /\ profile \in RseProfile /\ dryRun \in BOOLEAN
    /\ setup \in [Inverters -> InverterConfig]
    /\ saved \in [Inverters -> InverterConfig]
    /\ commit \in Commit
    /\ activePercent \in Level \cup {-1}
    /\ pc \in BatchStage => activePercent \in Level
    /\ outputHealthy \in BOOLEAN /\ controlReapplyRequired \in BOOLEAN
    /\ manualTestActive \in BOOLEAN /\ testDue \in BOOLEAN
    /\ power \in [Inverters -> Nat] /\ feed \in [Inverters -> BOOLEAN]
    /\ inverterAtTarget \in [Inverters -> BOOLEAN]
    /\ inverterHealthy \in [Inverters -> BOOLEAN]
    /\ inverterFailureStreak \in [Inverters -> 0..HEALTH_FAILURE_THRESHOLD]
    /\ unjudged \in SUBSET Inverters
    /\ periodicReadCursor \in Inverters
    /\ pc \in LoopPhase \cup BatchStage \cup CommitStage \cup {"boot"}
    /\ ret \in LoopPhase
    /\ cur \in Inverters
    /\ superseded \in BOOLEAN /\ allOk \in BOOLEAN /\ feedOk \in BOOLEAN
    /\ result \in Result
    /\ budget \in Budget

-----------------------------------------------------------------------------
(* Settings applied to one inverter. *)

Enabled == {i \in Inverters : setup[i].enabled}
Verified == {i \in Inverters : setup[i].ratingVerified}
Controlled == Enabled \cap Verified     \* controlEnabled()

Target(i, level) ==
    WattsForPercent(setup[i].rsePowerW, setup[i].inverterLimitW, level)

FeedWanted(i, level) == level \in setup[i].feedEnabledMask

OnTarget(i, level) ==
    power[i] = Target(i, level) /\ feed[i] = FeedWanted(i, level)

(* The input differs from the applied one for the whole debounce time. *)
NewerInput == rawRseMask # stableRseMask /\ age >= 1

(* The environment may act; a fault it causes takes one unit. *)
Disturb(kind) ==
    /\ kind \in budget.kinds /\ budget.left > 0
    /\ budget' = [budget EXCEPT !.left = budget.left - 1]

PayFault(faulty) == IF faulty THEN Disturb("fault") ELSE UNCHANGED budget

-----------------------------------------------------------------------------
(* Entering control. *)

(* The locals of applyLevel() outside a batch and at its head.             *)
FreshLocals ==
    /\ cur' = 1 /\ superseded' = FALSE /\ allOk' = TRUE /\ feedOk' = TRUE
    /\ result' = "fail"

(* Head of applyLevel(): the batch of one level over all controlled IDs. *)
StartBatch(level, next) ==
    /\ activePercent' = level
    /\ controlReapplyRequired' = FALSE
    /\ FreshLocals
    /\ pc' = "check" /\ ret' = next
    /\ UNCHANGED outputHealthy

(* handleStableRseState(): hold, alarm or batch; `reapply` is the value   *)
(* the caller leaves in controlReapplyRequired when no batch resets it.    *)
HandleStableRseState(decoded, reapply, next) ==
    \/ /\ decoded = RSE_HOLD_LAST
       /\ controlReapplyRequired' = reapply
       /\ pc' = next
       /\ UNCHANGED <<activePercent, outputHealthy, ret, batchVars>>
    \/ /\ decoded = RSE_INVALID
       /\ activePercent' = -1 /\ outputHealthy' = FALSE
       /\ controlReapplyRequired' = reapply
       /\ pc' = next
       /\ UNCHANGED <<ret, batchVars>>
    \/ /\ decoded \in Level
       /\ StartBatch(decoded, next)

(* returnToPhysicalRse(): the contacts count at once, without debouncing. *)
ReturnToPhysicalRse(useProfile, next) ==
    /\ manualTestActive' = FALSE /\ testDue' = FALSE
    /\ rawRseMask' = contacts /\ stableRseMask' = contacts /\ age' = 0
    /\ HandleStableRseState(DecodeRsePercent(contacts, useProfile),
                            controlReapplyRequired, next)

(* Mutant: the streak of failures grows beyond the threshold.              *)
UpdateHealthUncapped(answered, failed) ==
    /\ inverterFailureStreak' = [i \in Inverters |->
          IF i \in answered THEN 0
          ELSE IF i \in failed THEN inverterFailureStreak[i] + 1
          ELSE inverterFailureStreak[i]]
    /\ inverterHealthy' = [i \in Inverters |->
          \/ i \in answered
          \/ inverterHealthy[i] /\ ~ (i \in failed /\ inverterFailureStreak[i] >= 2)]

(* updateInverterHealth() for the inverters that answered and those that   *)
(* did not; the others keep their state.                                   *)
UpdateHealth(answered, failed) ==
    /\ inverterFailureStreak' = [i \in Inverters |->
          IF i \in answered THEN 0
          ELSE IF i \in failed /\ inverterFailureStreak[i] < HEALTH_FAILURE_THRESHOLD
               THEN inverterFailureStreak[i] + 1
               ELSE inverterFailureStreak[i]]
    /\ inverterHealthy' = [i \in Inverters |->
          \/ i \in answered
          \/ /\ inverterHealthy[i]
             /\ ~ (/\ i \in failed
                   /\ inverterFailureStreak[i] + 1 >= HEALTH_FAILURE_THRESHOLD)]

(* Mutant: communication alone makes the output healthy.                   *)
RefreshIgnoresTarget(atTarget, isHealthy) ==
    outputHealthy' =
        IF activePercent < 0 THEN outputHealthy
        ELSE Enabled # {} /\ \A i \in Enabled : i \in Verified /\ isHealthy[i]

(* refreshOutputHealthFromCommunication() on the statuses just updated. *)
RefreshOutputHealth(atTarget, isHealthy) ==
    outputHealthy' =
        IF activePercent < 0 THEN outputHealthy
        ELSE /\ Enabled # {}
             /\ \A i \in Enabled : /\ i \in Verified
                                   /\ isHealthy[i]
                                   /\ dryRun \/ atTarget[i]

-----------------------------------------------------------------------------
(* Boot. *)

Init ==
    /\ contacts \in Patterns
    /\ rawRseMask = {} /\ stableRseMask = {} /\ age = 0
    /\ profile \in Profiles /\ dryRun = FALSE
    /\ setup \in InitialSettings /\ saved = setup /\ commit = NoCommit
    /\ activePercent = -1 /\ outputHealthy = FALSE
    /\ controlReapplyRequired = FALSE
    /\ manualTestActive = FALSE /\ testDue = FALSE
    /\ power = [i \in Inverters |-> setup[i].inverterLimitW]
    /\ feed = [i \in Inverters |-> TRUE]
    /\ inverterAtTarget = [i \in Inverters |-> FALSE]
    /\ inverterHealthy = [i \in Inverters |-> FALSE]
    /\ inverterFailureStreak = [i \in Inverters |-> 0]
    /\ periodicReadCursor = 1
    /\ pc = "boot" /\ ret = "usb"
    /\ cur = 1 /\ superseded = FALSE /\ allOk = TRUE /\ feedOk = TRUE
    /\ result = "fail"
    /\ unjudged = {}
    /\ budget \in Mixes

(* startInverterControl(): sample, probe every enabled ID, apply the input. *)
StartInverterControl ==
    /\ pc = "boot"
    /\ rawRseMask' = contacts /\ stableRseMask' = contacts /\ age' = 0
    /\ \E silent \in SUBSET Enabled :
          /\ PayFault(silent # {})
          /\ UpdateHealth(Enabled \ silent, silent)
    /\ HandleStableRseState(DecodeRsePercent(contacts, profile),
                            controlReapplyRequired, "usb")
    /\ UNCHANGED <<contacts, configVars, testVars, deviceVars,
                   inverterAtTarget, unjudged, periodicReadCursor>>

(* RAM is lost, settings that were not saved with it; the inverters keep   *)
(* their registers.                                                        *)
Restarts ==
    /\ rawRseMask' = {} /\ stableRseMask' = {} /\ age' = 0
    /\ activePercent' = -1 /\ outputHealthy' = FALSE
    /\ controlReapplyRequired' = FALSE
    /\ manualTestActive' = FALSE /\ testDue' = FALSE
    /\ inverterAtTarget' = [i \in Inverters |-> FALSE]
    /\ inverterHealthy' = [i \in Inverters |-> FALSE]
    /\ inverterFailureStreak' = [i \in Inverters |-> 0]
    /\ periodicReadCursor' = 1
    /\ pc' = "boot" /\ ret' = "usb"
    /\ FreshLocals
    /\ setup' = saved /\ commit' = NoCommit /\ unjudged' = {}
    /\ UNCHANGED <<contacts, profile, dryRun, saved, deviceVars>>

(* Power loss, watchdog or "reset". *)
Reboot == pc # "boot" /\ Disturb("reboot") /\ Restarts

-----------------------------------------------------------------------------
(* applyLevel(), one inverter at a time. *)

(* The for loop goes on to the next slot or is over.                       *)
NextSlot ==
    IF cur = N THEN pc' = "finish" /\ UNCHANGED cur
               ELSE pc' = "check" /\ cur' = cur + 1

BatchSkip ==
    /\ pc = "check" /\ cur \notin Controlled
    /\ NextSlot
    /\ UNCHANGED <<inputVars, configVars, activePercent, outputHealthy,
                   controlReapplyRequired, testVars, deviceVars, statusVars,
                   periodicReadCursor, ret, superseded, allOk, feedOk, result, budget>>

(* Before an inverter is touched: stop for a newer input, skip writes in   *)
(* SAFE, and disable feed-in first when the level demands it.              *)
BatchCheck ==
    /\ pc = "check" /\ cur \in Controlled
    /\ \/ /\ NewerInput
          /\ superseded' = TRUE /\ pc' = "finish"
          /\ UNCHANGED <<allOk, feedOk, result>>
       \/ /\ ~NewerInput /\ dryRun
          /\ allOk' = (allOk /\ inverterHealthy[cur])
          /\ pc' = "gap"
          /\ UNCHANGED <<superseded, feedOk, result>>
       \/ /\ ~NewerInput /\ ~dryRun
          /\ feedOk' = TRUE /\ result' = "fail"
          /\ pc' = IF FeedWanted(cur, activePercent) THEN "preWrite" ELSE "feedOff"
          /\ UNCHANGED <<superseded, allOk>>
    /\ UNCHANGED <<inputVars, configVars, activePercent, outputHealthy,
                   controlReapplyRequired, testVars, deviceVars, statusVars,
                   periodicReadCursor, ret, cur, budget>>

(* writeBitCommandAndVerify(): after its last retry the register may hold  *)
(* either state, whatever was read back.                                   *)
BitCommandOutcomes(i, want, faulty) ==
    [ok : {TRUE}, feed : {want}, fault : {faulty}]
        \cup [ok : {FALSE}, feed : {want, feed[i]}, fault : {TRUE}]

(* What setFeedPermission() can return for inverter i: register 0x0007 is  *)
(* read, left alone when it already agrees, and otherwise commanded.  It   *)
(* is commanded after a failed read only when `blind`.                     *)
FeedPermissionOutcomes(i, want, blind) ==
    LET agrees == [ok : {TRUE}, feed : {want}, fault : {FALSE}]
        unread == [ok : {FALSE}, feed : {feed[i]}, fault : {TRUE}]
    IN  (IF feed[i] = want THEN agrees ELSE BitCommandOutcomes(i, want, FALSE))
            \cup (IF blind THEN BitCommandOutcomes(i, want, TRUE) ELSE unread)

SetFeedPermission(i, outcome) ==
    /\ PayFault(outcome.fault)
    /\ feed' = [feed EXCEPT ![i] = outcome.feed]

BatchFeedOff ==
    /\ pc = "feedOff"
    /\ \E outcome \in FeedPermissionOutcomes(cur, FALSE, FALSE) :
          /\ SetFeedPermission(cur, outcome)
          /\ feedOk' = outcome.ok
    /\ pc' = "preWrite"
    /\ UNCHANGED <<inputVars, configVars, activePercent, outputHealthy,
                   controlReapplyRequired, testVars, power, statusVars,
                   periodicReadCursor, ret, cur, superseded, allOk, result>>

(* The fresh FC03 read that decides whether to write, and the check for a  *)
(* newer input that follows it.  A blocked feed change blocks the write.   *)
BatchPreWrite ==
    /\ pc = "preWrite"
    /\ \E readOk \in BOOLEAN :
          /\ feedOk \/ ~readOk
          /\ PayFault(feedOk /\ ~readOk)
          /\ result' = IF ~readOk THEN "fail"
                       ELSE IF power[cur] = Target(cur, activePercent)
                            THEN "match" ELSE "differs"
    /\ superseded' = (superseded \/ NewerInput)
    /\ pc' = IF NewerInput \/ result' = "match" \/ ~feedOk THEN "feed" ELSE "write"
    /\ UNCHANGED <<inputVars, configVars, activePercent, outputHealthy,
                   controlReapplyRequired, testVars, deviceVars, statusVars,
                   periodicReadCursor, ret, cur, allOk, feedOk>>

(* writeAndVerify(): after its last retry the register may hold the old,   *)
(* the requested or a clamped value; only a matching read is a success.    *)
BatchWrite ==
    /\ pc = "write"
    /\ LET want == Target(cur, activePercent)
       IN  \/ /\ power' = [power EXCEPT ![cur] = want]
              /\ result' = "match"
              /\ UNCHANGED budget
           \/ /\ \E left \in {want, power[cur]} \cup ForeignWatts :
                    power' = [power EXCEPT ![cur] = left]
              /\ result' = "fail"
              /\ PayFault(TRUE)
    /\ pc' = "feed"
    /\ UNCHANGED <<inputVars, configVars, activePercent, outputHealthy,
                   controlReapplyRequired, testVars, feed, statusVars,
                   periodicReadCursor, ret, cur, superseded, allOk, feedOk>>

(* Mutant: the feed permission is not part of the verified target.         *)
VerifiedPowerOnly(permissionOk) == result = "match"

VerifiedAtTarget(permissionOk) == result = "match" /\ permissionOk

(* A failed power transaction disables feed-in; otherwise a level that     *)
(* permits feed-in enables it.  Then the inverter's status is settled.     *)
BatchFeed ==
    /\ pc = "feed"
    /\ \/ /\ feedOk /\ result = "fail"
          /\ \E outcome \in FeedPermissionOutcomes(cur, FALSE, TRUE) :
                SetFeedPermission(cur, outcome)
          /\ feedOk' = FALSE
       \/ /\ ~(feedOk /\ result = "fail")
          /\ FeedWanted(cur, activePercent)
          /\ \E outcome \in FeedPermissionOutcomes(cur, TRUE, FALSE) :
                /\ SetFeedPermission(cur, outcome)
                /\ feedOk' = outcome.ok
       \/ /\ ~(feedOk /\ result = "fail")
          /\ ~FeedWanted(cur, activePercent)
          /\ UNCHANGED <<feed, feedOk, budget>>
    /\ IF result = "fail" THEN UpdateHealth({}, {cur}) ELSE UpdateHealth({cur}, {})
    /\ inverterAtTarget' = [inverterAtTarget EXCEPT ![cur] = VerifiedAtTarget(feedOk')]
    /\ unjudged' = unjudged \ {cur}
    /\ allOk' = (allOk /\ result # "fail" /\ feedOk' /\ ~superseded)
    /\ pc' = "gap"
    /\ UNCHANGED <<inputVars, configVars, activePercent, outputHealthy,
                   controlReapplyRequired, testVars, power,
                   periodicReadCursor, ret, cur, superseded, result>>

(* The quiet gap between two devices ends in another supersede check.      *)
BatchGap ==
    /\ pc = "gap"
    /\ IF NewerInput THEN pc' = "finish" /\ UNCHANGED cur ELSE NextSlot
    /\ superseded' = (superseded \/ NewerInput)
    /\ UNCHANGED <<inputVars, configVars, activePercent, outputHealthy,
                   controlReapplyRequired, testVars, deviceVars, statusVars,
                   periodicReadCursor, ret, allOk, feedOk, result, budget>>

(* Mutant: an aborted batch ends TEST but does not ask for a new pass.     *)
BatchFinishForgetsReapply ==
    /\ pc = "finish"
    /\ outputHealthy' = (/\ ~superseded /\ allOk
                         /\ Enabled # {} /\ Enabled \subseteq Verified)
    /\ manualTestActive' = (manualTestActive /\ ~superseded)
    /\ testDue' = (testDue /\ ~superseded)
    /\ pc' = ret /\ ret' = "usb"
    /\ FreshLocals
    /\ UNCHANGED <<inputVars, configVars, activePercent, controlReapplyRequired,
                   deviceVars, statusVars, periodicReadCursor, budget>>

(* Tail of applyLevel(): a superseded batch asks for a complete pass.      *)
BatchFinish ==
    /\ pc = "finish"
    /\ outputHealthy' = (/\ ~superseded /\ allOk
                         /\ Enabled # {} /\ Enabled \subseteq Verified)
    /\ IF superseded
       THEN controlReapplyRequired' = TRUE /\ manualTestActive' = FALSE /\ testDue' = FALSE
       ELSE UNCHANGED <<controlReapplyRequired, testVars>>
    /\ pc' = ret /\ ret' = "usb"
    /\ FreshLocals
    /\ UNCHANGED <<inputVars, configVars, activePercent, deviceVars, statusVars,
                   periodicReadCursor, budget>>

Batch == \/ BatchSkip \/ BatchCheck \/ BatchFeedOff \/ BatchPreWrite
         \/ BatchWrite \/ BatchFeed \/ BatchGap \/ BatchFinish

-----------------------------------------------------------------------------
(* Phase "usb" of loop(): commands of the configurator.  A command whose   *)
(* configuration cannot be saved restores the old one and changes nothing. *)

Usb(command) == pc = "usb" /\ Disturb(command)

(* What a command leaves in RAM, and the history of it. *)
Change(settings) ==
    /\ setup' = settings
    /\ unjudged' = unjudged \cup {i \in Inverters : settings[i] # setup[i]}

(* save() sanitizes all settings and stores all of them.                   *)
Save(settings) ==
    /\ Change([i \in Inverters |-> Sanitize(settings[i])])
    /\ saved' = setup'

(* "test <level> CONFIRM": in LIVE only under a stable, weaker input.      *)
UsbTest(level) ==
    /\ Usb("test")
    /\ \/ dryRun
       \/ /\ contacts = rawRseMask /\ contacts = stableRseMask /\ age >= 1
          /\ ManualTestRespectsPhysicalRse(level, DecodeRsePercent(contacts, profile))
    /\ manualTestActive' = TRUE /\ testDue' = FALSE
    /\ StartBatch(level, "usb")
    /\ UNCHANGED <<inputVars, configVars, deviceVars, statusVars, periodicReadCursor>>

(* "apply CONFIRM": the stable input once more; a running TEST stays on.   *)
UsbApply ==
    /\ Usb("apply")
    /\ HandleStableRseState(DecodeRsePercent(stableRseMask, profile),
                            controlReapplyRequired, "usb")
    /\ UNCHANGED <<inputVars, configVars, testVars, deviceVars, statusVars,
                   periodicReadCursor>>

UsbDryRunOn ==
    /\ Usb("dryrun")
    /\ dryRun' = TRUE
    /\ Save(setup)
    /\ UNCHANGED <<inputVars, profile, commit, activePercent, outputHealthy,
                   controlReapplyRequired, testVars, deviceVars, flagVars,
                   periodicReadCursor, pc, ret, batchVars>>

(* "dryrun off CONFIRM": arm LIVE and evaluate the physical input.         *)
UsbDryRunOff ==
    /\ Usb("dryrun")
    /\ dryRun' = FALSE
    /\ Save(setup)
    /\ ReturnToPhysicalRse(profile, "usb")
    /\ UNCHANGED <<contacts, profile, commit, deviceVars, flagVars, periodicReadCursor>>

(* "rse profile <name> CONFIRM".                                           *)
UsbProfile(requested) ==
    /\ Usb("profile")
    /\ profile' = requested
    /\ Save(setup)
    /\ ReturnToPhysicalRse(requested, "usb")
    /\ UNCHANGED <<contacts, dryRun, commit, deviceVars, flagVars, periodicReadCursor>>

(* A command that changes settings only: no register is written, and what  *)
(* is commanded and reported stays as it is.                               *)
SettingsOnly ==
    UNCHANGED <<inputVars, profile, dryRun, commit, activePercent, outputHealthy,
                controlReapplyRequired, testVars, deviceVars, flagVars,
                periodicReadCursor, pc, ret, batchVars>>

Configure(i, c) == Save([setup EXCEPT ![i] = c]) /\ SettingsOnly

(* "id <n> on|off" *)
UsbId(i, on) == Usb("id") /\ Configure(i, [setup[i] EXCEPT !.enabled = on])

(* "max <n> <watts>" *)
UsbMax(i, watts) == Usb("setup") /\ Configure(i, MaxSettings(setup[i], watts))

(* "limit <n> <watts> CONFIRM" *)
UsbLimit(i, watts) ==
    /\ FitsRegisters(watts)
    /\ Usb("setup") /\ Configure(i, LimitSettings(setup[i], watts))

(* "rsecfg <n> ... CONFIRM" *)
UsbRseCfg(i, curve, mask) ==
    /\ OutOfRange(setup[i], curve) = {}
    /\ Usb("setup") /\ Configure(i, RseCfgSettings(setup[i], curve, mask))

(* The levels before the first one out of range stay in RAM, not saved.    *)
UsbRseCfgRejected(i, curve) ==
    /\ OutOfRange(setup[i], curve) # {}
    /\ Usb("setup")
    /\ Change([setup EXCEPT ![i] = RejectedSettings(setup[i], curve)])
    /\ UNCHANGED saved /\ SettingsOnly

(* "commit <n> off <watts>" *)
UsbCommitOff(i, watts) == Usb("setup") /\ Configure(i, OffSettings(setup[i], watts))

(* "commit <n> on <watts>" keeps a rating it knows, and without one waits   *)
(* for LIVE at 100 % or validates one.                                     *)
UsbCommitRated(i, watts) ==
    /\ HasRating(setup[i])
    /\ Usb("setup") /\ Configure(i, OnSettings(setup[i], watts))

MayValidate ==
    MayValidateInverterRating(dryRun, manualTestActive,
                              DecodeRsePercent(contacts, profile))

UsbCommitDeferred(i, watts) ==
    /\ ~HasRating(setup[i]) /\ ~MayValidate
    /\ Usb("setup") /\ Configure(i, PendingSettings(setup[i], watts))

UsbCommitStart(i, watts) ==
    /\ ~HasRating(setup[i]) /\ MayValidate
    /\ Usb("setup")
    /\ commit' = [NoCommit EXCEPT !.inverter = i, !.watts = watts]
    /\ pc' = "commitRead"
    /\ UNCHANGED <<inputVars, profile, dryRun, setup, saved, activePercent,
                   outputHealthy, controlReapplyRequired, testVars, deviceVars,
                   statusVars, periodicReadCursor, ret, batchVars>>

UsbSetup ==
    \E i \in Inverters :
        \/ \E watts \in Watts :
               \/ UsbMax(i, watts) \/ UsbLimit(i, watts)
               \/ UsbCommitOff(i, watts) \/ UsbCommitRated(i, watts)
               \/ UsbCommitDeferred(i, watts) \/ UsbCommitStart(i, watts)
        \/ \E curve \in Curves :
               \/ UsbRseCfgRejected(i, curve)
               \/ \E mask \in FeedMasks : UsbRseCfg(i, curve, mask)

(* Read-only, then the output health is recomputed. *)
UsbProbe(asked) ==
    /\ Usb("probe")
    /\ \E silent \in SUBSET asked :
          /\ silent = {} \/ "fault" \in budget.kinds
          /\ UpdateHealth(asked \ silent, silent)
    /\ RefreshOutputHealth(inverterAtTarget, inverterHealthy')
    /\ UNCHANGED <<inputVars, configVars, activePercent, controlReapplyRequired,
                   testVars, deviceVars, inverterAtTarget, unjudged,
                   periodicReadCursor, pc, ret, batchVars>>

(* "probe all" asks the enabled inverters, "scan all" every ID.            *)
UsbProbeAll == UsbProbe(Enabled) \/ UsbProbe(Inverters)

(* "probe <n>" leaves the output health alone.                             *)
UsbProbeOne(i) ==
    /\ Usb("probe")
    /\ \/ UpdateHealth({i}, {})
       \/ "fault" \in budget.kinds /\ UpdateHealth({}, {i})
    /\ UNCHANGED <<inputVars, configVars, activePercent, outputHealthy,
                   controlReapplyRequired, testVars, deviceVars, inverterAtTarget,
                   unjudged, periodicReadCursor, pc, ret, batchVars>>

UsbCommand ==
    \/ \E level \in Level : UsbTest(level)
    \/ UsbApply \/ UsbDryRunOn \/ UsbDryRunOff
    \/ \E requested \in Profiles : UsbProfile(requested)
    \/ \E i \in Inverters, on \in BOOLEAN : UsbId(i, on)
    \/ UsbSetup
    \/ UsbProbeAll
    \/ \E i \in Inverters : UsbProbeOne(i)

-----------------------------------------------------------------------------
(* The Modbus exchanges of a commit, each a wait. *)

CommitOf == commit.inverter

(* The command is over.                                                    *)
CommitEnds == pc' = "usb" /\ commit' = NoCommit

CommitRead ==
    /\ pc = "commitRead"
    /\ commit' = [commit EXCEPT !.before = power[CommitOf]]
    /\ pc' = "commitWrite"
    /\ UNCHANGED <<inputVars, profile, dryRun, setup, saved, activePercent,
                   outputHealthy, controlReapplyRequired, testVars, deviceVars,
                   statusVars, periodicReadCursor, ret, batchVars, budget>>

(* No answer: the commit is deferred, if that can be saved.                *)
CommitUnread ==
    /\ pc = "commitRead"
    /\ PayFault(TRUE)
    /\ \/ Save([setup EXCEPT ![CommitOf] =
                    PendingSettings(setup[CommitOf], commit.watts)])
       \/ UNCHANGED <<setup, saved, unjudged>>
    /\ CommitEnds
    /\ UNCHANGED <<inputVars, profile, dryRun, activePercent, outputHealthy,
                   controlReapplyRequired, testVars, deviceVars, flagVars,
                   periodicReadCursor, ret, batchVars>>

(* A register write of the commit. *)
WriteRegister(i, left) ==
    /\ power' = [power EXCEPT ![i] = left]
    /\ unjudged' = unjudged \cup {i}

(* One attempt of writeAndVerify(): the inverter takes the candidate or    *)
(* clamps it, or the write, its answer or the read-back (read 0) is lost.  *)
CommitWrite ==
    /\ pc = "commitWrite"
    /\ LET want == ValidationWatts(commit.watts)
       IN  \E left \in {want, power[CommitOf]} \cup ForeignWatts :
             \E read \in {left, 0} :
                 /\ PayFault(read # left \/ left \notin {want} \cup ForeignWatts)
                 /\ WriteRegister(CommitOf, left)
                 /\ commit' = [commit EXCEPT !.read = read]
    /\ pc' = "commitCheck"
    /\ UNCHANGED <<inputVars, profile, dryRun, setup, saved, activePercent,
                   outputHealthy, controlReapplyRequired, testVars, feed,
                   flagVars, periodicReadCursor, ret, batchVars>>

(* The contacts once more, undebounced.  The value read back becomes the   *)
(* ceiling and the inverter counts as at target, whatever its curve says.  *)
CommitAccepted ==
    /\ pc = "commitCheck" /\ MayValidate /\ commit.read > 0
    /\ Save([setup EXCEPT ![CommitOf] =
                RatedSettings(setup[CommitOf], commit.watts, commit.read)])
    /\ inverterAtTarget' = [inverterAtTarget EXCEPT ![CommitOf] = TRUE]
    /\ CommitEnds
    /\ UNCHANGED <<inputVars, profile, dryRun, activePercent, outputHealthy,
                   controlReapplyRequired, testVars, deviceVars, inverterHealthy,
                   inverterFailureStreak, periodicReadCursor, ret, batchVars,
                   budget>>

(* The contacts have left 100 %, no value was read, or the save failed.    *)
CommitRejected ==
    /\ pc = "commitCheck"
    /\ PayFault(MayValidate /\ commit.read > 0)
    /\ commit' = [commit EXCEPT !.leftLive = ~MayValidate]
    /\ pc' = "commitRestore"
    /\ UNCHANGED <<inputVars, profile, dryRun, setup, saved, activePercent,
                   outputHealthy, controlReapplyRequired, testVars, deviceVars,
                   statusVars, periodicReadCursor, ret, batchVars>>

(* The value from before is written back, and after a change of the        *)
(* contacts the command ends in physical control.                          *)
CommitRestore ==
    /\ pc = "commitRestore"
    /\ \/ /\ WriteRegister(CommitOf, commit.before)
          /\ UNCHANGED <<inverterHealthy, inverterFailureStreak, budget>>
       \/ /\ \E left \in {commit.before, power[CommitOf]} \cup ForeignWatts :
                 WriteRegister(CommitOf, left)
          /\ UpdateHealth({}, {CommitOf})
          /\ PayFault(TRUE)
    /\ commit' = NoCommit
    /\ IF commit.leftLive THEN ReturnToPhysicalRse(profile, "usb")
       ELSE /\ pc' = "usb"
            /\ UNCHANGED <<rawRseMask, stableRseMask, age, activePercent,
                           outputHealthy, controlReapplyRequired, testVars, ret,
                           batchVars>>
    /\ UNCHANGED <<contacts, profile, dryRun, setup, saved, feed,
                   inverterAtTarget, periodicReadCursor>>

CommitStep == \/ CommitRead \/ CommitUnread \/ CommitWrite \/ CommitAccepted
              \/ CommitRejected \/ CommitRestore

-----------------------------------------------------------------------------
(* The other phases of loop(). *)

GoTo(from, to) ==
    /\ pc = from /\ pc' = to
    /\ UNCHANGED <<inputVars, configVars, activePercent, outputHealthy,
                   controlReapplyRequired, testVars, deviceVars, statusVars,
                   periodicReadCursor, ret, batchVars, budget>>

UsbIdle == GoTo("usb", "expiry")

(* Mutant: the expired TEST is cleared, its level stays commanded.         *)
TestExpiresKeepsLevel ==
    /\ pc = "expiry" /\ manualTestActive /\ testDue
    /\ manualTestActive' = FALSE /\ testDue' = FALSE
    /\ rawRseMask' = contacts /\ stableRseMask' = contacts /\ age' = 0
    /\ pc' = "rse"
    /\ UNCHANGED <<contacts, configVars, activePercent, outputHealthy,
                   controlReapplyRequired, deviceVars, statusVars,
                   periodicReadCursor, ret, batchVars, budget>>

TestExpires ==
    /\ pc = "expiry" /\ manualTestActive /\ testDue
    /\ ReturnToPhysicalRse(profile, "rse")
    /\ UNCHANGED <<contacts, configVars, deviceVars, statusVars,
                   periodicReadCursor, budget>>

NoExpiry == ~(manualTestActive /\ testDue) /\ GoTo("expiry", "rse")

(* A debounced new input ends TEST and becomes the command.                *)
RseTransition ==
    /\ pc = "rse" /\ NewerInput
    /\ stableRseMask' = rawRseMask
    /\ manualTestActive' = FALSE /\ testDue' = FALSE
    /\ HandleStableRseState(DecodeRsePercent(rawRseMask, profile), FALSE, "poll")
    /\ UNCHANGED <<contacts, rawRseMask, age, configVars, deviceVars, statusVars,
                   periodicReadCursor, budget>>

(* Mutant: the pending reapplication is dropped without a batch.           *)
RseReapplyForgetsBatch ==
    /\ pc = "rse" /\ ~NewerInput /\ controlReapplyRequired
    /\ controlReapplyRequired' = FALSE /\ pc' = "poll"
    /\ UNCHANGED <<inputVars, configVars, activePercent, outputHealthy, testVars,
                   deviceVars, statusVars, periodicReadCursor, ret, batchVars, budget>>

(* After a superseded batch whose newer input has gone again.              *)
RseReapply ==
    /\ pc = "rse" /\ ~NewerInput /\ controlReapplyRequired
    /\ HandleStableRseState(DecodeRsePercent(stableRseMask, profile), FALSE, "poll")
    /\ UNCHANGED <<inputVars, configVars, testVars, deviceVars, statusVars,
                   periodicReadCursor, budget>>

RseIdle == ~NewerInput /\ ~controlReapplyRequired /\ GoTo("rse", "poll")

(* How many slots the round robin passes before it reaches slot i.         *)
SlotsAhead(i) ==
    IF i >= periodicReadCursor THEN i - periodicReadCursor
                               ELSE i + N - periodicReadCursor

(* pollNextEnabledInverter(): one power and one feed read, never a write.  *)
(* Both reads together are one health sample.                              *)
PollNext ==
    /\ pc = "poll"
    /\ \E i \in Controlled, powerOk, feedReadOk \in BOOLEAN :
           LET judged == ~dryRun /\ activePercent >= 0
           IN
             /\ \A k \in Controlled : SlotsAhead(i) <= SlotsAhead(k)
             /\ (powerOk /\ judged) \/ feedReadOk
             /\ PayFault(~(powerOk /\ feedReadOk))
             /\ IF powerOk /\ judged
                THEN /\ inverterAtTarget' = [inverterAtTarget EXCEPT
                            ![i] = feedReadOk /\ OnTarget(i, activePercent)]
                     /\ unjudged' = unjudged \ {i}
                ELSE UNCHANGED <<inverterAtTarget, unjudged>>
             /\ IF powerOk /\ feedReadOk THEN UpdateHealth({i}, {})
                ELSE UpdateHealth({}, {i})
             /\ periodicReadCursor' = IF i = N THEN 1 ELSE i + 1
    /\ RefreshOutputHealth(inverterAtTarget', inverterHealthy')
    /\ pc' = "usb"
    /\ UNCHANGED <<inputVars, configVars, activePercent, controlReapplyRequired,
                   testVars, deviceVars, ret, batchVars>>

(* No slot due, the upstream bus busy, or nothing to poll.                 *)
PollNotDue == GoTo("poll", "usb")

(* safeForFirmwareUpdate(), evaluated by OTA in the phases of loop().      *)
ApplyInProgress == pc \in BatchStage /\ Controlled # {}

(* Mutant: an inverter that answers counts as ready.                       *)
ReadyIgnoresTarget ==
    \A i \in Enabled : i \in Verified /\ (dryRun \/ inverterHealthy[i])

EnabledInvertersReadyForOta ==
    \A i \in Enabled : /\ i \in Verified
                       /\ dryRun \/ (inverterHealthy[i] /\ inverterAtTarget[i])

SafeForFirmwareUpdate ==
    OtaControlStateIsSafe(manualTestActive, ApplyInProgress,
        DecodeRsePercent(contacts, profile),
        contacts = rawRseMask /\ contacts = stableRseMask /\ age = 2,
        EnabledInvertersReadyForOta)

-----------------------------------------------------------------------------
(* Environment and clock. *)

(* Control has started and is not in the tail of applyLevel(), which runs  *)
(* without a wait: time may pass and the inputs may be sampled.            *)
Waiting == pc \notin {"boot", "finish"}

(* serviceTimeCriticalInputs(): at most every 5 ms, from every wait.       *)
SampleInputs ==
    /\ Waiting /\ contacts # rawRseMask
    /\ rawRseMask' = contacts /\ age' = 0
    /\ UNCHANGED <<contacts, stableRseMask, configVars, activePercent,
                   outputHealthy, controlReapplyRequired, testVars, deviceVars,
                   statusVars, periodicReadCursor, pc, ret, batchVars, budget>>

ClockTick ==
    /\ Waiting /\ age < 2 /\ age' = age + 1
    /\ UNCHANGED <<contacts, rawRseMask, stableRseMask, configVars, activePercent,
                   outputHealthy, controlReapplyRequired, testVars, deviceVars,
                   statusVars, periodicReadCursor, pc, ret, batchVars, budget>>

TestDeadline ==
    /\ manualTestActive /\ ~testDue /\ testDue' = TRUE
    /\ UNCHANGED <<inputVars, configVars, activePercent, outputHealthy,
                   controlReapplyRequired, manualTestActive, deviceVars,
                   statusVars, periodicReadCursor, pc, ret, batchVars, budget>>

ContactsChange ==
    /\ Disturb("contact")
    /\ contacts' \in Patterns \ {contacts}
    /\ UNCHANGED <<rawRseMask, stableRseMask, age, configVars, activePercent,
                   outputHealthy, controlReapplyRequired, testVars, deviceVars,
                   statusVars, periodicReadCursor, pc, ret, batchVars>>

(* Another master, a forwarded PlexLog write or the inverter itself.       *)
ForeignWrite(i) ==
    /\ Disturb("foreign")
    /\ \/ \E w \in ForeignWatts : power' = [power EXCEPT ![i] = w] /\ UNCHANGED feed
       \/ feed' = [feed EXCEPT ![i] = ~feed[i]] /\ UNCHANGED power
    /\ UNCHANGED <<inputVars, configVars, activePercent, outputHealthy,
                   controlReapplyRequired, testVars, statusVars,
                   periodicReadCursor, pc, ret, batchVars>>

(* millis() has come round since the input changed, 49.7 days ago, and the *)
(* input looks young once more.                                            *)
ClockWrap ==
    /\ Waiting /\ age = 2 /\ rawRseMask = stableRseMask
    /\ Disturb("wrap")
    /\ age' = 0
    /\ UNCHANGED <<contacts, rawRseMask, stableRseMask, configVars, activePercent,
                   outputHealthy, controlReapplyRequired, testVars, deviceVars,
                   statusVars, periodicReadCursor, pc, ret, batchVars>>

-----------------------------------------------------------------------------
Loop == \/ StartInverterControl \/ UsbIdle \/ TestExpires \/ NoExpiry
        \/ RseTransition \/ RseReapply \/ RseIdle \/ PollNext \/ PollNotDue
        \/ Batch \/ CommitStep

Time == SampleInputs \/ ClockTick \/ TestDeadline

Environment == \/ ContactsChange \/ Reboot \/ ClockWrap
               \/ \E i \in Inverters : ForeignWrite(i)

Next == Loop \/ UsbCommand \/ Time \/ Environment

Spec == Init /\ [][Next]_vars

(* loop() is called for ever and every wait in it is bounded; inputs are   *)
(* sampled within 5 ms and time passes.  A poll slot comes due again and   *)
(* again and finds the upstream bus quiet at some of those times.          *)
Fairness ==
    /\ WF_vars(Loop)
    /\ SF_vars(PollNext)
    /\ WF_vars(SampleInputs) /\ WF_vars(ClockTick) /\ WF_vars(TestDeadline)

FairSpec == Spec /\ Fairness

-----------------------------------------------------------------------------
(* Properties. *)

PhysicalPercent == DecodeRsePercent(stableRseMask, profile)

(* A live TEST may make the output more restrictive but never releases an  *)
(* active physical reduction: while it runs, the debounced input is a      *)
(* level and the commanded level does not exceed it (UsbTest's check, and  *)
(* every step that changes the input, the profile or SAFE ending TEST).    *)
TestNeverRelaxes ==
    manualTestActive /\ ~dryRun =>
        PhysicalPercent >= 0 /\ activePercent <= PhysicalPercent

(* Outside TEST, and unless a reapplication is already due, the commanded  *)
(* level is the one of the debounced input, or none for an invalid input.  *)
(* EWE is excluded: there a mask without a level holds the previous one.   *)
ActiveIsPhysical ==
    pc # "boot" /\ profile # "EweHold4" /\ ~manualTestActive
        /\ ~controlReapplyRequired
    => activePercent = (IF PhysicalPercent \in Level THEN PhysicalPercent ELSE -1)

(* No other master writes the inverters.                                   *)
SoleWriter == "foreign" \notin budget.kinds

(* In a phase of loop(), live and with no reapplication due, a healthy     *)
(* output means that every enabled inverter is verified and really has the *)
(* commanded power and feed permission, whatever failures and supersedes   *)
(* preceded, if the bridge is the sole writer.  The one exception is an     *)
(* inverter that a USB command has set up anew since the last batch or     *)
(* poll compared it: until the next one does, its old answer counts.       *)
HealthyIsTruthful ==
    SoleWriter /\ pc \in LoopPhase /\ ~dryRun /\ ~controlReapplyRequired
        /\ outputHealthy /\ activePercent >= 0
    => \A i \in Enabled \ unjudged : i \in Verified /\ OnTarget(i, activePercent)

(* OTA starts only when every enabled inverter is verified and ready: with *)
(* the gate open where it is asked (the end of an iteration of loop() and  *)
(* the "ota update" command), each inverter really is at 100 %, but for    *)
(* one set up anew that no batch or poll has compared yet.                 *)
OtaGateIsTruthful ==
    SoleWriter /\ pc = "usb" /\ ~dryRun /\ SafeForFirmwareUpdate
    => \A i \in Enabled \ unjudged : OnTarget(i, 100)

(* The same gate once no reapplication is pending.                         *)
SettledOtaGateIsTruthful == ~controlReapplyRequired => OtaGateIsTruthful

(* TEST always ends in physical control: the step that ends it starts a    *)
(* batch, asks for one, or leaves no commanded level.                      *)
TestEndsInPhysicalControl ==
    [][manualTestActive /\ ~manualTestActive'
       => \/ pc' \in BatchStage \/ controlReapplyRequired' \/ activePercent' = -1]_vars

AllOnTarget(level) == \A i \in Controlled : OnTarget(i, level)

ReliableBus ==
    budget.kinds \cap {"fault", "foreign", "id", "setup", "probe"} = {}

(* On a reliable bus the newest stable level is in the end applied to      *)
(* every controlled ID, however the contacts, TEST, updates, reboots and   *)
(* the wrap of millis() interrupted earlier batches.                       *)
NewestLevelReachesAll ==
    ReliableBus => <>[](~dryRun /\ DecodeRsePercent(contacts, profile) \in Level
         => AllOnTarget(DecodeRsePercent(contacts, profile)))

(* With bus failures and foreign writes too, a deviation that lasts is in  *)
(* the end reported: the outputs match or the output is not healthy.       *)
DeviationIsReported ==
    <>[](~dryRun /\ pc \in LoopPhase /\ activePercent >= 0
         => AllOnTarget(activePercent) \/ ~outputHealthy)

(* An aborted batch is followed by a complete pass: outputs of different   *)
(* levels do not last.                                                     *)
NoLastingMixedOutputs ==
    <>[](\E level \in Level : AllOnTarget(level))
=============================================================================
