-------------------------------- MODULE Ota --------------------------------
(***************************************************************************)
(* Firmware update of the bridge: the schedule and the installation of     *)
(* OtaManager, the first-boot trial of main.cpp with its automatic         *)
(* rollback, and the manual rollback, over two application partitions.     *)
(*                                                                         *)
(* The bootloader and the selection of a partition are those of ESP-IDF    *)
(* with rollback enabled, modelled as main.cpp uses them.  Whether the     *)
(* start-up code of the framework already marks a new image valid before   *)
(* setup() is not settled in the repository: both are modelled.            *)
(*                                                                         *)
(* An image is its version; Faulty ones crash in the trial or fail their   *)
(* self-test.  The safety gate and the network answer as they please at    *)
(* each look: RseControl says what the gate means.  loop() waits while an  *)
(* installation runs, so that no other command interferes.                 *)
(***************************************************************************)
EXTENDS Integers

CONSTANTS
    Images,         \* versions that are released
    Faulty,         \* those that do not pass the trial
    Factory,        \* the one the unit is delivered with
    MaxDay,         \* bound on the days
    Scenarios       \* bound on faults: how many of each kind may happen

(* Power; esp_ota calls that mark, go back, select or verify; NVS that     *)
(* cannot be opened at boot, cleared, or written; a flash over USB.        *)
Fault == {"power", "mark", "native", "select", "reject",
          "open", "clear", "put", "settings", "usb"}

ASSUME OtaAssumption ==
    /\ Images \subseteq Nat \ {0} /\ Faulty \subseteq Images
    /\ Factory \in Images \ Faulty
    /\ MaxDay \in Nat
    /\ Scenarios \subseteq [Fault -> Nat] /\ Scenarios # {}

Partition == 0..1
Other(p) == 1 - p

Torn == 0           \* erased, or written in part
NoPartition == 255  \* 0xFF, no "previous" in the record

NoRecord == [target |-> 0, previous |-> NoPartition, prevImage |-> 0,
             attempts |-> 0]
NoBackup == [partition |-> NoPartition, image |-> 0]

VARIABLES
    part, selected, state,      \* partitions, and otadata about them
    bridgeboot,                 \* record of the installation on trial
    bridgeprev,                 \* record of the image before it
    automatic, lastScheduledDay,
    running,                    \* partition of the running image
    pc,                         \* what the firmware is doing
    previous,                   \* parameter of rollbackToPreviousApp()
    currentWindowDay,
    waiting,                    \* the next automatic check is put off
    manifest, url, unattended,  \* of the running installation
    day,                        \* of the window that is open or was last
    early,                      \* the framework marks new images valid
    proven,                     \* images that passed a trial or came by USB
    rejected,                   \* those gone back from with "AUTO_OTA=OFF"
    trials,                     \* trials since the last installation
    installedOn,                \* day of the last unattended activation
    unguarded,                  \* an image had no record, no way back, or
                                \* no confirmation
    budget                      \* faults that may still happen

flash == <<part, selected, state>>
settings == <<automatic, lastScheduledDay>>
nvs == <<bridgeboot, bridgeprev, settings>>
install == <<manifest, url, unattended>>
ram == <<install, previous, currentWindowDay, waiting>>
world == <<day, early>>
history == <<proven, rejected, trials, installedOn, unguarded>>
vars == <<flash, nvs, running, pc, ram, world, history, budget>>

Trial == {"window", "marked", "backedup"}
RollingBack == {"rollback", "native", "reselect", "reselected"}
Installing == {"download", "verified", "recorded", "written", "activated"}
InControl == {"control", "reverting"} \cup Installing

TypeOK ==
    /\ part \in [Partition -> Images \cup {Torn}]
    /\ selected \in Partition /\ running \in Partition
    /\ state \in [Partition -> {"new", "pending", "valid", "aborted"}]
    /\ bridgeboot \in [target : Images \cup {0},
                       previous : Partition \cup {NoPartition},
                       prevImage : Images \cup {0}, attempts : 0..2]
    /\ bridgeprev \in [partition : Partition \cup {NoPartition},
                       image : Images \cup {0}]
    /\ automatic \in BOOLEAN /\ lastScheduledDay \in -1..MaxDay
    /\ pc \in {"off", "setup"} \cup Trial \cup RollingBack \cup InControl
    /\ previous \in Partition \cup {NoPartition}
    /\ currentWindowDay \in -1..MaxDay /\ waiting \in BOOLEAN
    /\ manifest \in Images \cup {0} /\ url \in {"primary", "backup"}
    /\ unattended \in BOOLEAN
    /\ day \in 0..MaxDay /\ early \in BOOLEAN
    /\ proven \subseteq Images /\ rejected \subseteq Images
    /\ trials \in 0..2 /\ installedOn \in -1..MaxDay
    /\ unguarded \in BOOLEAN
    /\ budget \in [Fault -> Nat]

Disturb(kind) ==
    budget[kind] > 0 /\ budget' = [budget EXCEPT ![kind] = @ - 1]

AppVersion == part[running]

-----------------------------------------------------------------------------
(* ESP-IDF: the bootloader and esp_ota_set_boot_partition(). *)

(* The selected image, unless it is torn or was not confirmed in its first *)
(* boot; then the other one; without either, the first whole one.          *)
Eligible(p) == part[p] # Torn /\ state[p] \in {"new", "valid"}

BootTarget ==
    IF Eligible(selected) THEN selected
    ELSE IF Eligible(Other(selected)) THEN Other(selected)
    ELSE IF part[0] # Torn THEN 0 ELSE 1

Confirmed(p) ==
    IF state[p] # "new" THEN state[p]
    ELSE IF early THEN "valid" ELSE "pending"

(* An image gone back to that nobody will mark valid: main.cpp does so     *)
(* only at the end of a trial.                                             *)
Unconfirmed(p) == Confirmed(p) = "pending" /\ bridgeboot.target # part[p]

Bootloader ==
    /\ pc = "off"
    /\ running' = BootTarget /\ selected' = BootTarget
    /\ state' = [p \in Partition |->
                   IF p = BootTarget THEN Confirmed(p)
                   ELSE IF state[p] = "pending" THEN "aborted" ELSE state[p]]
    /\ pc' = "setup"
    /\ unguarded' = (unguarded \/ Unconfirmed(BootTarget))
    /\ UNCHANGED <<part, nvs, ram, world, proven, rejected, trials,
                   installedOn, budget>>

SetBootPartition(p) ==
    /\ part[p] # Torn
    /\ selected' = p
    /\ state' = [state EXCEPT ![p] = "new"]
    /\ UNCHANGED part

(* What a reset leaves in RAM. *)
Restart ==
    /\ pc' = "off" /\ previous' = NoPartition
    /\ currentWindowDay' = -1 /\ waiting' = FALSE
    /\ manifest' = 0 /\ url' = "primary" /\ unattended' = FALSE

(* An activation whose day is not noted yet is forgotten. *)
ForgetUnnoted ==
    /\ installedOn' = IF pc = "activated" THEN -1 ELSE installedOn

PowerLoss ==
    /\ pc # "off"
    /\ Disturb("power")
    /\ Restart /\ ForgetUnnoted
    /\ UNCHANGED <<flash, nvs, running, world, proven, rejected, trials,
                   unguarded>>

-----------------------------------------------------------------------------
(* The first boot of an image. *)

(* rollbackToPreviousApp() is called with the recorded partition. *)
RollBack ==
    /\ pc' = "rollback" /\ previous' = bridgeboot.previous
    /\ UNCHANGED <<install, currentWindowDay, waiting>>

(* Mutant: the attempt is not counted. *)
CountAttemptNever(record) == record

(* Mutant: the count is not capped. *)
CountAttemptUncapped(record) == [record EXCEPT !.attempts = @ + 1]

CountAttempt(record) ==
    [record EXCEPT !.attempts = IF @ < 2 THEN @ + 1 ELSE @]

(* Without a record for this version, inverter control starts. *)
NoValidation ==
    /\ pc = "setup"
    /\ IF bridgeboot.target = AppVersion
       THEN Disturb("open") /\ unguarded' = TRUE
       ELSE UNCHANGED <<unguarded, budget>>
    /\ pc' = "control"
    /\ UNCHANGED <<flash, nvs, running, ram, world, proven, rejected, trials,
                   installedOn>>

PrepareOtaBootValidation ==
    /\ pc = "setup" /\ bridgeboot.target = AppVersion
    /\ bridgeboot' = CountAttempt(bridgeboot)
    /\ IF bridgeboot.attempts >= 1
       THEN RollBack /\ UNCHANGED trials
       ELSE /\ pc' = "window" /\ trials' = IF trials < 2 THEN trials + 1 ELSE 2
            /\ UNCHANGED ram
    /\ UNCHANGED <<flash, bridgeprev, settings, running, world, proven,
                   rejected, installedOn, unguarded, budget>>

CandidateCrashes ==
    /\ pc = "window" /\ AppVersion \in Faulty
    /\ Restart
    /\ UNCHANGED <<flash, nvs, running, world, history, budget>>

(* Mutant: the firmware goes on after it failed. *)
ValidationFailsGoesOn ==
    /\ pc = "window"
    /\ IF AppVersion \in Faulty THEN UNCHANGED budget ELSE Disturb("mark")
    /\ pc' = "control"
    /\ UNCHANGED <<flash, nvs, running, ram, world, history>>

(* The self-test fails, or the image cannot be marked valid. *)
ValidationFails ==
    /\ pc = "window"
    /\ IF AppVersion \in Faulty THEN UNCHANGED budget ELSE Disturb("mark")
    /\ RollBack
    /\ UNCHANGED <<flash, nvs, running, world, history>>

MarkAppValid ==
    /\ pc = "window" /\ AppVersion \notin Faulty
    /\ state' = [state EXCEPT ![running] = "valid"]
    /\ proven' = proven \cup {AppVersion}
    /\ pc' = "marked"
    /\ UNCHANGED <<part, selected, nvs, running, ram, world, rejected,
                   trials, installedOn, unguarded, budget>>

(* The image before becomes the backup.  A record that lacks a part, which *)
(* power loss leaves, is none.                                             *)
SaveBackup ==
    /\ pc = "marked"
    /\ IF bridgeboot.previous # NoPartition /\ bridgeboot.prevImage # 0
       THEN \/ /\ bridgeprev' = [partition |-> bridgeboot.previous,
                                 image |-> bridgeboot.prevImage]
               /\ UNCHANGED budget
            \/ bridgeprev' = NoBackup /\ Disturb("put")
       ELSE UNCHANGED <<bridgeprev, budget>>
    /\ pc' = "backedup"
    /\ UNCHANGED <<flash, bridgeboot, settings, running, ram, world,
                   history>>

PowerLossTearsBackup ==
    /\ pc = "marked"
    /\ Disturb("power")
    /\ bridgeprev' = NoBackup
    /\ Restart
    /\ UNCHANGED <<flash, bridgeboot, settings, running, world, history>>

ClearOtaBootState ==
    \/ bridgeboot' = NoRecord /\ UNCHANGED budget
    \/ Disturb("clear") /\ UNCHANGED bridgeboot

ValidationEnds ==
    /\ pc = "backedup"
    /\ ClearOtaBootState
    /\ pc' = "control"
    /\ UNCHANGED <<flash, bridgeprev, settings, running, ram, world,
                   history>>

-----------------------------------------------------------------------------
(* rollbackToPreviousApp() *)

(* An unconfirmed image is left to the bootloader. *)
PreferBootloader ==
    /\ pc = "rollback"
    /\ IF state[running] = "pending"
       THEN bridgeboot' = NoRecord /\ pc' = "native"
       ELSE pc' = "reselect" /\ UNCHANGED bridgeboot
    /\ UNCHANGED <<flash, bridgeprev, settings, running, ram, world, history,
                   budget>>

NativeRollback ==
    /\ pc = "native" /\ part[Other(running)] # Torn
    /\ selected' = Other(running)
    /\ state' = [state EXCEPT ![running] = "aborted"]
    /\ Restart
    /\ UNCHANGED <<part, nvs, running, world, history, budget>>

NativeRollbackFails ==
    /\ pc = "native"
    /\ IF part[Other(running)] # Torn THEN Disturb("native")
                                      ELSE UNCHANGED budget
    /\ pc' = "reselect"
    /\ UNCHANGED <<flash, nvs, running, ram, world, history>>

(* 0xFF is the subtype ANY, of which partition 0 is found first. *)
RecordedPartition == IF previous = NoPartition THEN 0 ELSE previous

Reselect ==
    /\ pc = "reselect"
    /\ SetBootPartition(RecordedPartition)
    /\ pc' = "reselected"
    /\ UNCHANGED <<nvs, running, ram, world, history, budget>>

RestartPrevious ==
    /\ pc = "reselected"
    /\ ClearOtaBootState
    /\ Restart
    /\ UNCHANGED <<flash, bridgeprev, settings, running, world, history>>

(* No image to go back to: the firmware goes on, without its trial. *)
RollbackImpossible ==
    /\ pc = "reselect"
    /\ IF part[RecordedPartition] # Torn THEN Disturb("select")
                                         ELSE UNCHANGED budget
    /\ bridgeboot' = NoRecord
    /\ pc' = "control" /\ unguarded' = TRUE
    /\ UNCHANGED <<flash, bridgeprev, settings, running, ram, world, proven,
                   rejected, trials, installedOn>>

-----------------------------------------------------------------------------
(* OtaManager::installUpdate() *)

(* A manifest with a valid signature offers it; compareVersions(). *)
Newer(i) == i > AppVersion

Begin(i, auto) ==
    /\ Newer(i)
    /\ pc' = "download"
    /\ manifest' = i /\ url' = "primary" /\ unattended' = auto
    /\ UNCHANGED <<flash, nvs, running, previous, waiting, world, history,
                   budget>>

InstallByOperator(i) ==
    /\ pc = "control"
    /\ Begin(i, FALSE)
    /\ UNCHANGED currentWindowDay

(* An installation failed: the second source is tried unless the gate has  *)
(* closed; an unattended one is put off.                                   *)
Failed ==
    \/ /\ url = "primary"
       /\ pc' = "download" /\ url' = "backup"
       /\ UNCHANGED <<manifest, unattended, previous, currentWindowDay,
                      waiting>>
    \/ /\ pc' = "control"
       /\ manifest' = 0 /\ url' = "primary" /\ unattended' = FALSE
       /\ waiting' = (waiting \/ unattended)
       /\ UNCHANGED <<previous, currentWindowDay>>

(* Everything is written but the first bytes, without which the image does *)
(* not boot; size, digest and gate are right.                              *)
Downloaded ==
    /\ pc = "download"
    /\ part' = [part EXCEPT ![Other(running)] = Torn]
    /\ pc' = "verified"
    /\ UNCHANGED <<selected, state, nvs, running, ram, world, history,
                   budget>>

(* Network, size, digest, flash or gate, before or after writing began. *)
DownloadFails ==
    /\ pc = "download"
    /\ part' \in {part, [part EXCEPT ![Other(running)] = Torn]}
    /\ Failed
    /\ UNCHANGED <<selected, state, nvs, running, world, history, budget>>

PowerLossTearsImage ==
    /\ pc = "download"
    /\ Disturb("power")
    /\ part' = [part EXCEPT ![Other(running)] = Torn]
    /\ Restart
    /\ UNCHANGED <<selected, state, nvs, running, world, history>>

InstallationRecord ==
    [target |-> manifest, previous |-> running, prevImage |-> AppVersion,
     attempts |-> 0]

(* Mutant: the record is left for after the activation. *)
RecordNothing ==
    /\ pc = "verified"
    /\ pc' = "recorded"
    /\ UNCHANGED <<flash, nvs, running, ram, world, history, budget>>

RecordInstallation ==
    /\ pc = "verified"
    /\ bridgeboot' = InstallationRecord
    /\ pc' = "recorded" /\ trials' = 0
    /\ UNCHANGED <<flash, bridgeprev, settings, running, ram, world, proven,
                   rejected, installedOn, unguarded, budget>>

(* Some of its parts cannot be written, or power fails before they are. *)
PartialRecord ==
    {[target |-> t, previous |-> p, prevImage |-> i, attempts |-> 0] :
        t \in {0, manifest}, p \in {NoPartition, running},
        i \in {0, AppVersion}}

RecordFails ==
    /\ pc = "verified"
    /\ bridgeboot' \in PartialRecord \cup {bridgeboot}
    /\ \/ Disturb("put") /\ Failed
       \/ Disturb("power") /\ Restart
    /\ UNCHANGED <<flash, bridgeprev, settings, running, world, history>>

(* Update.end() writes the first bytes and selects the partition. *)
CompleteImage ==
    /\ pc = "recorded"
    /\ part' = [part EXCEPT ![Other(running)] = manifest]
    /\ pc' = "written"
    /\ UNCHANGED <<selected, state, nvs, running, ram, world, history,
                   budget>>

Activate ==
    /\ pc = "written"
    /\ SetBootPartition(Other(running))
    /\ pc' = "activated"
    /\ installedOn' = IF unattended THEN currentWindowDay ELSE installedOn
    /\ UNCHANGED <<nvs, running, ram, world, proven, rejected, trials,
                   unguarded, budget>>

(* The image does not verify. *)
UpdateEndFails ==
    /\ pc \in {"recorded", "written"}
    /\ Disturb("reject")
    /\ part' = [part EXCEPT ![Other(running)] = Torn]
    /\ bridgeboot' = NoRecord
    /\ Failed
    /\ UNCHANGED <<selected, state, bridgeprev, settings, running, world,
                   history>>

(* Mutant: the day of the installation is not noted. *)
RestartIntoUpdateUnnoted ==
    /\ pc = "activated"
    /\ Restart
    /\ UNCHANGED <<flash, nvs, running, world, history, budget>>

RestartIntoUpdate ==
    /\ pc = "activated"
    /\ lastScheduledDay' = IF currentWindowDay >= 0 THEN currentWindowDay
                                                    ELSE lastScheduledDay
    /\ Restart
    /\ UNCHANGED <<flash, bridgeboot, bridgeprev, automatic, running, world,
                   history, budget>>

-----------------------------------------------------------------------------
(* OtaManager::service() and the commands of the operator. *)

(* Wi-Fi is connected, the gate is open, and the clock in the window. *)
CheckIsDue ==
    /\ pc = "control"
    /\ automatic /\ lastScheduledDay # day /\ ~waiting

UpToDate ==
    /\ CheckIsDue
    /\ currentWindowDay' = day /\ lastScheduledDay' = day
    /\ UNCHANGED <<flash, bridgeboot, bridgeprev, automatic, running, pc,
                   install, previous, waiting, world, history, budget>>

CheckFails ==
    /\ CheckIsDue
    /\ currentWindowDay' = day /\ waiting' = TRUE
    /\ UNCHANGED <<flash, nvs, running, pc, install, previous, world,
                   history, budget>>

InstallUnattended(i) ==
    /\ CheckIsDue
    /\ Begin(i, TRUE)
    /\ currentWindowDay' = day

(* The pause after a failure is over, or forgotten outside the window. *)
WaitingEnds ==
    /\ pc = "control" /\ waiting
    /\ waiting' = FALSE
    /\ UNCHANGED <<flash, nvs, running, pc, install, previous,
                   currentWindowDay, world, history, budget>>

SetAutomatic(enabled) ==
    /\ pc = "control"
    /\ \/ /\ automatic' = enabled
          /\ waiting' = (waiting /\ ~enabled)
          /\ rejected' = IF enabled THEN {} ELSE rejected
          /\ UNCHANGED budget
       \/ Disturb("settings") /\ UNCHANGED <<automatic, waiting, rejected>>
    /\ UNCHANGED <<flash, bridgeboot, bridgeprev, lastScheduledDay, running,
                   pc, install, previous, currentWindowDay, world, proven,
                   trials, installedOn, unguarded>>

ClearWifi ==
    /\ pc = "control"
    /\ automatic' = FALSE
    /\ UNCHANGED <<flash, bridgeboot, bridgeprev, lastScheduledDay, running,
                   pc, ram, world, history, budget>>

NextWindow ==
    /\ day' = day + 1 /\ day' <= MaxDay
    /\ UNCHANGED <<flash, nvs, running, pc, ram, early, history, budget>>

(* Mutant: the backup is known by its partition alone. *)
BackupByPartition ==
    /\ bridgeprev.partition \in Partition \ {running}
    /\ part[bridgeprev.partition] # Torn
    /\ bridgeprev.image # AppVersion

(* loadManualRollbackTarget(): the image itself must be the recorded one. *)
BackupIsIntact ==
    /\ bridgeprev.partition \in Partition \ {running}
    /\ part[bridgeprev.partition] = bridgeprev.image
    /\ bridgeprev.image # AppVersion

(* Mutant: automatic updates stay on. *)
ManualRollbackKeepsAutomatic ==
    /\ pc = "control" /\ BackupIsIntact
    /\ rejected' = rejected \cup {AppVersion}
    /\ pc' = "reverting"
    /\ UNCHANGED <<flash, nvs, running, ram, world, proven, trials,
                   installedOn, unguarded, budget>>

(* performManualRollback(), with the safety gate open; the answer to come  *)
(* is AUTO_OTA=OFF or SAVE_ERROR.                                          *)
ManualRollback ==
    /\ pc = "control" /\ BackupIsIntact
    /\ \/ /\ automatic' = FALSE /\ rejected' = rejected \cup {AppVersion}
          /\ UNCHANGED budget
       \/ automatic /\ Disturb("settings") /\ UNCHANGED <<automatic, rejected>>
    /\ pc' = "reverting"
    /\ UNCHANGED <<flash, bridgeboot, bridgeprev, lastScheduledDay, running,
                   ram, world, proven, trials, installedOn, unguarded>>

Revert ==
    /\ pc = "reverting"
    /\ SetBootPartition(bridgeprev.partition)
    /\ Restart
    /\ UNCHANGED <<nvs, running, world, history, budget>>

RevertFails ==
    /\ pc = "reverting"
    /\ Disturb("reject")
    /\ pc' = "control"
    /\ UNCHANGED <<flash, nvs, running, ram, world, history>>

(* The configurator writes a release to partition 0 and resets otadata;    *)
(* the settings and records in NVS stay.                                   *)
UsbFlash(i) ==
    /\ Disturb("usb")
    /\ part' = [part EXCEPT ![0] = i] /\ selected' = 0
    /\ state' = [p \in Partition |-> "valid"]
    /\ proven' = proven \cup {i} /\ rejected' = rejected \ {i}
    /\ trials' = 0 /\ ForgetUnnoted
    /\ Restart
    /\ UNCHANGED <<nvs, running, world, unguarded>>

-----------------------------------------------------------------------------
Init ==
    /\ part = [p \in Partition |-> IF p = 0 THEN Factory ELSE Torn]
    /\ selected = 0 /\ state = [p \in Partition |-> "valid"]
    /\ bridgeboot = NoRecord /\ bridgeprev = NoBackup
    /\ automatic = FALSE /\ lastScheduledDay = -1
    /\ running = 0 /\ pc = "off" /\ previous = NoPartition
    /\ currentWindowDay = -1 /\ waiting = FALSE
    /\ manifest = 0 /\ url = "primary" /\ unattended = FALSE
    /\ day = 0 /\ early \in BOOLEAN
    /\ proven = {Factory} /\ rejected = {}
    /\ trials = 0 /\ installedOn = -1 /\ unguarded = FALSE
    /\ budget \in Scenarios

Startup ==
    \/ Bootloader \/ NoValidation \/ PrepareOtaBootValidation
    \/ CandidateCrashes \/ ValidationFails \/ MarkAppValid
    \/ SaveBackup \/ ValidationEnds
    \/ PreferBootloader \/ NativeRollback \/ NativeRollbackFails
    \/ Reselect \/ RestartPrevious \/ RollbackImpossible

Installation ==
    \/ Downloaded \/ DownloadFails \/ RecordInstallation \/ RecordFails
    \/ CompleteImage \/ Activate \/ UpdateEndFails \/ RestartIntoUpdate

Service ==
    \/ UpToDate \/ CheckFails \/ WaitingEnds
    \/ \E i \in Images : InstallUnattended(i)

Operator ==
    \/ ClearWifi \/ ManualRollback
    \/ \E enabled \in BOOLEAN : SetAutomatic(enabled)
    \/ \E i \in Images : InstallByOperator(i)

Environment ==
    \/ PowerLoss \/ PowerLossTearsBackup \/ PowerLossTearsImage
    \/ NextWindow
    \/ \E i \in Images \ Faulty : UsbFlash(i)

Next ==
    \/ Startup \/ Installation \/ Service \/ Operator \/ Environment
    \/ Revert \/ RevertFails

Spec == Init /\ [][Next]_vars

(* setup(), loop() and an installation go on by themselves. *)
FairSpec ==
    Spec /\ WF_vars(Startup \/ Installation \/ Revert \/ RevertFails)

-----------------------------------------------------------------------------
(* Properties. *)

(* Wherever power fails, the partition that the next boot takes holds a    *)
(* whole image that is proven, or one whose record puts it on trial: the   *)
(* record is written before the image can boot, and kept until the image   *)
(* is marked valid or another one is selected.                             *)
RestartIsSafe ==
    /\ part[BootTarget] # Torn
    /\ \/ unguarded
       \/ part[BootTarget] \in proven
       \/ bridgeboot.target = part[BootTarget]

(* Only a proven image touches the inverters: not one that crashes, fails  *)
(* its self-test, cannot be marked valid or is interrupted in its trial.   *)
ControlIsProven == pc \in InControl => AppVersion \in proven \/ unguarded

(* An activated image has one trial: the second boot before it is proven   *)
(* goes back to the image before.                                          *)
OneTrial == trials <= 1

(* A manual rollback selects an image that has been proven, whatever was   *)
(* downloaded over it, activated or not, since it became the backup.       *)
ManualRollbackIsProven ==
    [][pc = "reverting" /\ selected' # selected =>
           part[selected'] \in proven \/ unguarded]_vars

(* What the operator went back from with the answer AUTO_OTA=OFF is not    *)
(* installed again unattended before automatic updates are switched on.    *)
RejectedStaysOut ==
    unattended => manifest \notin rejected

(* A window activates one image unattended: one that fails its trial is    *)
(* not installed again in the same window.                                 *)
OneInstallPerWindow ==
    [][pc = "written" /\ pc' = "activated" /\ unattended =>
           currentWindowDay # installedOn]_vars

(* After any faults, faulty images, rollbacks and power losses, inverter   *)
(* control starts again.                                                   *)
ControlComesBack == []<>(pc = "control")
=============================================================================
