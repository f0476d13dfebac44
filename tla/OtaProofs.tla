------------------------------ MODULE OtaProofs ------------------------------
(***************************************************************************)
(* Theorems about the firmware update (Ota.tla), for every set of          *)
(* releases, any of them faulty, and any number of faults of every kind.   *)
(***************************************************************************)
EXTENDS Ota, TLAPS

-----------------------------------------------------------------------------
(* The shape of the state: what each phase of the firmware relies on. *)

(* The running image and the selected one are whole. *)
Whole == part[running] # Torn /\ part[selected] # Torn

(* Only the selection for the next boot separates the two. *)
SelectedRuns == pc \notin {"off", "reselected", "activated"} => selected = running

(* The backup that is being selected is intact. *)
BackupShape ==
    /\ bridgeprev.partition = NoPartition <=> bridgeprev.image = 0
    /\ pc = "reverting" => BackupIsIntact

(* An installation writes a newer version to the other partition. *)
InstallShape ==
    /\ pc \in Installing => manifest \in Images /\ manifest > AppVersion
    /\ pc \in {"verified", "recorded"} => part[Other(running)] = Torn
    /\ pc \in {"written", "activated"} => part[Other(running)] = manifest
    /\ pc \in {"recorded", "written", "activated"} =>
           bridgeboot = InstallationRecord
    /\ pc = "activated" => selected = Other(running)

Shape == TypeOK /\ Whole /\ SelectedRuns /\ BackupShape /\ InstallShape

(* The Booleans apart from the rest, which other provers take care of. *)
Flags ==
    /\ automatic \in BOOLEAN /\ waiting \in BOOLEAN
    /\ unattended \in BOOLEAN /\ early \in BOOLEAN /\ unguarded \in BOOLEAN

Values ==
    /\ part \in [Partition -> Images \cup {Torn}]
    /\ selected \in Partition /\ running \in Partition
    /\ state \in [Partition -> {"new", "pending", "valid", "aborted"}]
    /\ bridgeboot \in [target : Images \cup {0},
                       previous : Partition \cup {NoPartition},
                       prevImage : Images \cup {0}, attempts : 0..2]
    /\ bridgeprev \in [partition : Partition \cup {NoPartition},
                       image : Images \cup {0}]
    /\ lastScheduledDay \in -1..MaxDay
    /\ pc \in {"off", "setup"} \cup Trial \cup RollingBack \cup InControl
    /\ previous \in Partition \cup {NoPartition}
    /\ currentWindowDay \in -1..MaxDay
    /\ manifest \in Images \cup {0} /\ url \in {"primary", "backup"}
    /\ day \in 0..MaxDay
    /\ proven \subseteq Images /\ rejected \subseteq Images
    /\ trials \in 0..2 /\ installedOn \in -1..MaxDay


(* The parts make up the type invariant. *)
LEMMA TypeParts == TypeOK <=> Flags /\ Values /\ budget \in [Fault -> Nat]
<1>1. ASSUME TypeOK PROVE Flags
  BY <1>1, Zenon DEF TypeOK, Flags
<1>2. ASSUME TypeOK PROVE Values
  BY <1>2, Zenon DEF TypeOK, Values
<1>3. ASSUME Flags, Values, budget \in [Fault -> Nat] PROVE TypeOK
  BY <1>3, Zenon DEF TypeOK, Flags, Values
<1>4. ASSUME TypeOK PROVE budget \in [Fault -> Nat]
  BY <1>4, Zenon DEF TypeOK
<1> QED
  BY <1>1, <1>2, <1>3, <1>4, Zenon

(* The unit as it is delivered. *)
LEMMA ShapeInit == Init => Shape
<1> SUFFICES ASSUME Init PROVE Shape
  OBVIOUS
<1> USE OtaAssumption DEF Init
<1>1. TypeOK
  <2>1. part \in [Partition -> Images \cup {Torn}]
    BY DEF Partition, Torn
  <2>2. state \in [Partition -> {"new", "pending", "valid", "aborted"}]
    BY DEF Partition
  <2>3. budget \in [Fault -> Nat]
    OBVIOUS
  <2>4. bridgeboot \in [target : Images \cup {0},
                       previous : Partition \cup {NoPartition},
                       prevImage : Images \cup {0}, attempts : 0..2]
    BY DEF Partition, NoPartition, NoRecord
  <2>5. bridgeprev \in [partition : Partition \cup {NoPartition},
                       image : Images \cup {0}]
    BY DEF Partition, NoPartition, NoBackup
  <2>6. Flags
    BY DEF Flags
  <2>7. Values
    BY <2>1, <2>2, <2>4, <2>5 DEF Values, Partition
  <2> QED
    BY <2>3, <2>6, <2>7, TypeParts
<1>2. Whole /\ SelectedRuns /\ BackupShape /\ InstallShape
  BY DEF Whole, SelectedRuns, BackupShape, InstallShape, Partition, Torn,
     NoPartition, NoRecord, NoBackup, Installing
<1> QED
  BY <1>1, <1>2 DEF Shape

(* A fault takes one of the faults that may still happen. *)
LEMMA BudgetType ==
    ASSUME TypeOK, [Next]_vars
    PROVE  budget' \in [Fault -> Nat]
<1>1. ASSUME NEW k \in Fault, Disturb(k) PROVE budget' \in [Fault -> Nat]
  BY <1>1 DEF Disturb, TypeOK
<1>2. \A k \in Fault : Disturb(k) => budget' \in [Fault -> Nat]
  BY <1>1
<1>3. \/ budget' = budget
      \/ \E k \in Fault : Disturb(k)
  <2> USE DEF Fault
  <2> DEFINE Goal == budget' = budget \/ (\E k \in Fault : Disturb(k))
  <2> USE DEF flash, settings, nvs, install, ram, world, history
  <2>1. ASSUME Startup PROVE Goal
    BY <2>1
       DEF Startup, Bootloader, NoValidation, PrepareOtaBootValidation,
           CandidateCrashes, ValidationFails, MarkAppValid, SaveBackup,
           ValidationEnds, PreferBootloader, NativeRollback,
           NativeRollbackFails, Reselect, RestartPrevious, RollbackImpossible,
           BootTarget, ClearOtaBootState, Confirmed, CountAttempt, Eligible,
           NoBackup, NoRecord, RecordedPartition, Restart, RollBack,
           SetBootPartition
  <2>2. ASSUME Installation PROVE Goal
    BY <2>2
       DEF Installation, Downloaded, DownloadFails, RecordInstallation,
           RecordFails, CompleteImage, Activate, UpdateEndFails,
           RestartIntoUpdate, Failed, NoRecord, PartialRecord, Restart,
           SetBootPartition
  <2>3. ASSUME Service PROVE Goal
    BY <2>3
       DEF Service, UpToDate, CheckFails, WaitingEnds, InstallUnattended,
           Begin, CheckIsDue, Newer
  <2>4. ASSUME Operator PROVE Goal
    BY <2>4
       DEF Operator, ClearWifi, ManualRollback, SetAutomatic,
           InstallByOperator, BackupIsIntact, Begin, Newer
  <2>5. ASSUME Environment PROVE Goal
    BY <2>5
       DEF Environment, PowerLoss, PowerLossTearsBackup,
           PowerLossTearsImage, NextWindow, UsbFlash, ForgetUnnoted, NoBackup,
           Restart
  <2>6. ASSUME Revert \/ RevertFails PROVE Goal
    BY <2>6 DEF Revert, RevertFails, SetBootPartition, Restart
  <2>7. ASSUME UNCHANGED vars PROVE Goal
    BY <2>7 DEF vars
  <2> QED
    BY <2>1, <2>2, <2>3, <2>4, <2>5, <2>6, <2>7 DEF Next
<1> QED
  BY <1>2, <1>3 DEF TypeOK

(* Every step keeps the Booleans Boolean. *)
LEMMA FlagsStep ==
    ASSUME Flags, [Next]_vars
    PROVE  Flags'
<1> USE DEF Flags, flash, settings, nvs, install, ram, world, history
<1>1. ASSUME Startup PROVE Flags'
  BY <1>1
     DEF Startup, Bootloader, NoValidation, PrepareOtaBootValidation,
         CandidateCrashes, ValidationFails, MarkAppValid, SaveBackup,
         ValidationEnds, PreferBootloader, NativeRollback, NativeRollbackFails,
         Reselect, RestartPrevious, RollbackImpossible, BootTarget,
         ClearOtaBootState, Confirmed, CountAttempt, Eligible, NoBackup,
         NoRecord, RecordedPartition, Restart, RollBack, SetBootPartition
<1>2. ASSUME Installation PROVE Flags'
  <2>1. ASSUME RecordFails PROVE Flags'
    <3>1. UNCHANGED <<settings, world, unguarded>>
      BY <2>1, Zenon DEF RecordFails
    <3>2. Failed \/ Restart
      BY <2>1, Zenon DEF RecordFails
    <3> QED
      BY <3>1, <3>2 DEF Failed, Restart
  <2>2. ASSUME Installation, ~RecordFails PROVE Flags'
    BY <2>2 DEF Installation, Downloaded, DownloadFails, RecordInstallation,
       CompleteImage, Activate, UpdateEndFails, RestartIntoUpdate, Failed,
       NoRecord, Restart, SetBootPartition
  <2> QED
    BY <1>2, <2>1, <2>2
<1>3. ASSUME Service PROVE Flags'
  BY <1>3
     DEF Service, UpToDate, CheckFails, WaitingEnds, InstallUnattended,
         Begin, CheckIsDue, Newer
<1>4. ASSUME Operator PROVE Flags'
  BY <1>4
     DEF Operator, ClearWifi, ManualRollback, SetAutomatic,
         InstallByOperator, BackupIsIntact, Begin, Newer
<1>5. ASSUME Environment PROVE Flags'
  BY <1>5
     DEF Environment, PowerLoss, PowerLossTearsBackup, PowerLossTearsImage,
         NextWindow, UsbFlash, ForgetUnnoted, NoBackup, Restart
<1>6. ASSUME Revert \/ RevertFails PROVE Flags'
  BY <1>6 DEF Revert, RevertFails, SetBootPartition, Restart
<1>7. ASSUME UNCHANGED vars PROVE Flags'
  BY <1>7 DEF vars
<1> QED
  BY <1>1, <1>2, <1>3, <1>4, <1>5, <1>6, <1>7 DEF Next

(* The image that is marked valid is one of the releases. *)
LEMMA TrialProves ==
    ASSUME proven \subseteq Images, part[running] \in Images, MarkAppValid
    PROVE  proven' \subseteq Images
<1>1. proven' = proven \cup {part[running]}
  BY DEF MarkAppValid, AppVersion
<1> QED
  BY <1>1

(* Every step keeps the other variables typed. *)
LEMMA ValuesStep ==
    ASSUME Shape, [Next]_vars
    PROVE  Values'
<1> USE OtaAssumption DEF Shape, TypeOK, Values, Partition, Torn, NoPartition,
        Other, AppVersion, flash, settings, nvs, install, ram, world, history,
        Trial, RollingBack, Installing, InControl
<1>1. ASSUME Bootloader PROVE Values'
  BY <1>1 DEF Bootloader, BootTarget, Eligible, Confirmed
<1>2. ASSUME NoValidation PROVE Values'
  BY <1>2 DEF NoValidation
<1>3. ASSUME PrepareOtaBootValidation PROVE Values'
  BY <1>3 DEF PrepareOtaBootValidation, CountAttempt, RollBack
<1>4. ASSUME CandidateCrashes PROVE Values'
  BY <1>4 DEF CandidateCrashes, Restart
<1>5. ASSUME ValidationFails PROVE Values'
  BY <1>5 DEF ValidationFails, RollBack
<1>6. ASSUME MarkAppValid PROVE Values'
  <2>1. part[running] \in Images
    BY DEF Whole
  <2>2. proven' \subseteq Images
    BY <1>6, <2>1, TrialProves
  <2>3. state' \in [Partition -> {"new", "pending", "valid", "aborted"}]
    BY <1>6 DEF MarkAppValid
  <2> QED
    BY <1>6, <2>2, <2>3 DEF MarkAppValid
<1>7. ASSUME SaveBackup PROVE Values'
  BY <1>7 DEF SaveBackup, NoBackup
<1>8. ASSUME ValidationEnds PROVE Values'
  BY <1>8 DEF ValidationEnds, ClearOtaBootState, NoRecord
<1>9. ASSUME PreferBootloader PROVE Values'
  BY <1>9 DEF PreferBootloader, NoRecord
<1>10. ASSUME NativeRollback PROVE Values'
  BY <1>10 DEF NativeRollback, Restart
<1>11. ASSUME NativeRollbackFails PROVE Values'
  BY <1>11 DEF NativeRollbackFails
<1>12. ASSUME Reselect PROVE Values'
  BY <1>12 DEF Reselect, SetBootPartition, RecordedPartition
<1>13. ASSUME RestartPrevious PROVE Values'
  BY <1>13 DEF RestartPrevious, ClearOtaBootState, NoRecord, Restart
<1>14. ASSUME RollbackImpossible PROVE Values'
  BY <1>14 DEF RollbackImpossible, NoRecord
<1>15. ASSUME Downloaded PROVE Values'
  BY <1>15 DEF Downloaded
<1>16. ASSUME DownloadFails PROVE Values'
  BY <1>16 DEF DownloadFails, Failed
<1>17. ASSUME RecordInstallation PROVE Values'
  BY <1>17 DEF RecordInstallation, InstallationRecord, Whole
<1>18. ASSUME RecordFails PROVE Values'
  BY <1>18 DEF RecordFails, PartialRecord, Failed, Restart
<1>19. ASSUME CompleteImage PROVE Values'
  BY <1>19 DEF CompleteImage
<1>20. ASSUME Activate PROVE Values'
  BY <1>20 DEF Activate, SetBootPartition
<1>21. ASSUME UpdateEndFails PROVE Values'
  BY <1>21 DEF UpdateEndFails, NoRecord, Failed
<1>22. ASSUME RestartIntoUpdate PROVE Values'
  BY <1>22 DEF RestartIntoUpdate, Restart
<1>23. ASSUME UpToDate PROVE Values'
  BY <1>23 DEF UpToDate, CheckIsDue
<1>24. ASSUME CheckFails PROVE Values'
  BY <1>24 DEF CheckFails, CheckIsDue
<1>25. ASSUME WaitingEnds PROVE Values'
  BY <1>25 DEF WaitingEnds
<1>26. ASSUME NEW i \in Images, InstallUnattended(i) PROVE Values'
  BY <1>26 DEF InstallUnattended, CheckIsDue, Begin, Newer
<1>27. ASSUME ClearWifi PROVE Values'
  BY <1>27 DEF ClearWifi
<1>28. ASSUME ManualRollback PROVE Values'
  <2>1. part[running] \in Images
    BY DEF Whole
  <2>2. /\ rejected' \in {rejected, rejected \cup {part[running]}}
        /\ pc' = "reverting"
        /\ UNCHANGED <<flash, bridgeboot, bridgeprev, lastScheduledDay,
                       running, ram, world, proven, trials, installedOn>>
    BY <1>28, Zenon DEF ManualRollback
  <2>3. rejected' \subseteq Images
    BY <2>1, <2>2
  <2> QED
    BY <2>2, <2>3
<1>29. ASSUME NEW enabled \in BOOLEAN, SetAutomatic(enabled) PROVE Values'
  <2>1. /\ rejected' \in {rejected, {}}
        /\ UNCHANGED <<flash, bridgeboot, bridgeprev, lastScheduledDay,
                       running, pc, install, previous, currentWindowDay,
                       world, proven, trials, installedOn>>
    BY <1>29, Zenon DEF SetAutomatic
  <2> QED
    BY <2>1
<1>30. ASSUME NEW i \in Images, InstallByOperator(i) PROVE Values'
  BY <1>30 DEF InstallByOperator, Begin, Newer
<1>31. ASSUME PowerLoss PROVE Values'
  BY <1>31 DEF PowerLoss, Restart, ForgetUnnoted
<1>32. ASSUME PowerLossTearsBackup PROVE Values'
  BY <1>32 DEF PowerLossTearsBackup, Restart, NoBackup
<1>33. ASSUME PowerLossTearsImage PROVE Values'
  BY <1>33 DEF PowerLossTearsImage, Restart
<1>34. ASSUME NextWindow PROVE Values'
  BY <1>34 DEF NextWindow
<1>35. ASSUME NEW i \in Images \ Faulty, UsbFlash(i) PROVE Values'
  BY <1>35 DEF UsbFlash, Restart, ForgetUnnoted
<1>36. ASSUME Revert PROVE Values'
  BY <1>36, SMTT(30) DEF Revert, SetBootPartition, Restart, BackupShape,
     BackupIsIntact
<1>37. ASSUME RevertFails PROVE Values'
  BY <1>37 DEF RevertFails
<1>38. ASSUME UNCHANGED vars PROVE Values'
  BY <1>38 DEF vars
<1> QED
  BY <1>1, <1>2, <1>3, <1>4, <1>5, <1>6, <1>7, <1>8, <1>9, <1>10, <1>11, <1>12,
     <1>13, <1>14, <1>15, <1>16, <1>17, <1>18, <1>19, <1>20, <1>21, <1>22,
     <1>23, <1>24, <1>25, <1>26, <1>27, <1>28, <1>29, <1>30, <1>31, <1>32,
     <1>33, <1>34, <1>35, <1>36, <1>37, <1>38
     DEF Next, Startup, Installation, Service, Operator, Environment

(* Every step leaves what the next phase relies on. *)
LEMMA ShapeStep ==
    ASSUME Shape, [Next]_vars
    PROVE  (Whole /\ SelectedRuns /\ BackupShape /\ InstallShape)'
<1> USE OtaAssumption DEF Shape, TypeOK, Partition, Torn, NoPartition, Other,
        AppVersion, flash, settings, nvs, install, ram, world, history,
        Installing, Whole, SelectedRuns, BackupShape, InstallShape,
        InstallationRecord, BackupIsIntact
<1> DEFINE Goal == Whole /\ SelectedRuns /\ BackupShape /\ InstallShape
<1>1. ASSUME Bootloader PROVE Goal'
  BY <1>1 DEF Bootloader, BootTarget, Eligible, Confirmed
<1>2. ASSUME NoValidation PROVE Goal'
  BY <1>2 DEF NoValidation
<1>3. ASSUME PrepareOtaBootValidation PROVE Goal'
  BY <1>3 DEF PrepareOtaBootValidation, CountAttempt, RollBack
<1>4. ASSUME CandidateCrashes PROVE Goal'
  BY <1>4 DEF CandidateCrashes, Restart
<1>5. ASSUME ValidationFails PROVE Goal'
  BY <1>5 DEF ValidationFails, RollBack
<1>6. ASSUME MarkAppValid PROVE Goal'
  BY <1>6 DEF MarkAppValid
<1>7. ASSUME SaveBackup PROVE Goal'
  BY <1>7 DEF SaveBackup, NoBackup
<1>8. ASSUME ValidationEnds PROVE Goal'
  BY <1>8 DEF ValidationEnds, ClearOtaBootState, NoRecord
<1>9. ASSUME PreferBootloader PROVE Goal'
  BY <1>9 DEF PreferBootloader, NoRecord
<1>10. ASSUME NativeRollback PROVE Goal'
  BY <1>10 DEF NativeRollback, Restart
<1>11. ASSUME NativeRollbackFails PROVE Goal'
  BY <1>11 DEF NativeRollbackFails
<1>12. ASSUME Reselect PROVE Goal'
  BY <1>12 DEF Reselect, SetBootPartition, RecordedPartition
<1>13. ASSUME RestartPrevious PROVE Goal'
  BY <1>13 DEF RestartPrevious, ClearOtaBootState, NoRecord, Restart
<1>14. ASSUME RollbackImpossible PROVE Goal'
  BY <1>14 DEF RollbackImpossible, NoRecord
<1>15. ASSUME Downloaded PROVE Goal'
  BY <1>15 DEF Downloaded
<1>16. ASSUME DownloadFails PROVE Goal'
  BY <1>16 DEF DownloadFails, Failed
<1>17. ASSUME RecordInstallation PROVE Goal'
  BY <1>17 DEF RecordInstallation
<1>18. ASSUME RecordFails PROVE Goal'
  BY <1>18 DEF RecordFails, PartialRecord, Failed, Restart
<1>19. ASSUME CompleteImage PROVE Goal'
  BY <1>19 DEF CompleteImage
<1>20. ASSUME Activate PROVE Goal'
  BY <1>20 DEF Activate, SetBootPartition
<1>21. ASSUME UpdateEndFails PROVE Goal'
  BY <1>21 DEF UpdateEndFails, NoRecord, Failed
<1>22. ASSUME RestartIntoUpdate PROVE Goal'
  BY <1>22 DEF RestartIntoUpdate, Restart
<1>23. ASSUME UpToDate PROVE Goal'
  BY <1>23 DEF UpToDate, CheckIsDue
<1>24. ASSUME CheckFails PROVE Goal'
  BY <1>24 DEF CheckFails, CheckIsDue
<1>25. ASSUME WaitingEnds PROVE Goal'
  BY <1>25 DEF WaitingEnds
<1>26. ASSUME NEW i \in Images, InstallUnattended(i) PROVE Goal'
  BY <1>26 DEF InstallUnattended, CheckIsDue, Begin, Newer
<1>27. ASSUME ClearWifi PROVE Goal'
  BY <1>27 DEF ClearWifi
<1>28. ASSUME ManualRollback PROVE Goal'
  BY <1>28 DEF ManualRollback, BackupIsIntact
<1>29. ASSUME NEW enabled \in BOOLEAN, SetAutomatic(enabled) PROVE Goal'
  BY <1>29 DEF SetAutomatic
<1>30. ASSUME NEW i \in Images, InstallByOperator(i) PROVE Goal'
  BY <1>30 DEF InstallByOperator, Begin, Newer
<1>31. ASSUME PowerLoss PROVE Goal'
  BY <1>31 DEF PowerLoss, Restart, ForgetUnnoted
<1>32. ASSUME PowerLossTearsBackup PROVE Goal'
  BY <1>32 DEF PowerLossTearsBackup, Restart, NoBackup
<1>33. ASSUME PowerLossTearsImage PROVE Goal'
  BY <1>33 DEF PowerLossTearsImage, Restart
<1>34. ASSUME NextWindow PROVE Goal'
  BY <1>34 DEF NextWindow
<1>35. ASSUME NEW i \in Images \ Faulty, UsbFlash(i) PROVE Goal'
  BY <1>35 DEF UsbFlash, Restart, ForgetUnnoted
<1>36. ASSUME Revert PROVE Goal'
  BY <1>36 DEF Revert, SetBootPartition, Restart
<1>37. ASSUME RevertFails PROVE Goal'
  BY <1>37 DEF RevertFails
<1>38. ASSUME UNCHANGED vars PROVE Goal'
  BY <1>38 DEF vars
<1> QED
  BY <1>1, <1>2, <1>3, <1>4, <1>5, <1>6, <1>7, <1>8, <1>9, <1>10, <1>11, <1>12,
     <1>13, <1>14, <1>15, <1>16, <1>17, <1>18, <1>19, <1>20, <1>21, <1>22,
     <1>23, <1>24, <1>25, <1>26, <1>27, <1>28, <1>29, <1>30, <1>31, <1>32,
     <1>33, <1>34, <1>35, <1>36, <1>37, <1>38
     DEF Next, Startup, Installation, Service, Operator, Environment

(* The parts of the type invariant together. *)
LEMMA TypeStep ==
    ASSUME Shape, [Next]_vars
    PROVE  TypeOK'
<1>1. TypeOK
  BY DEF Shape
<1>2. Flags
  BY <1>1, TypeParts
<1>3. Flags' /\ Values' /\ budget' \in [Fault -> Nat]
  BY <1>1, <1>2, FlagsStep, ValuesStep, BudgetType
<1> QED
  BY <1>3, Zenon DEF TypeOK, Flags, Values

(* The state always has its shape. *)
LEMMA ShapeInvariance == Spec => []Shape
<1>1. Shape /\ [Next]_vars => Shape'
  BY TypeStep, ShapeStep DEF Shape
<1> QED
  BY <1>1, ShapeInit, PTL DEF Spec

-----------------------------------------------------------------------------
(* Which image the next boot takes, and what is known about it, as long as *)
(* no image ran without a record, a way back or a confirmation.            *)

(* An image that nobody has proven yet. *)
Dubious(p) == part[p] # Torn /\ part[p] \notin proven

(* What the records name as the image before was in control. *)
Provenance ==
    /\ bridgeboot.prevImage \in proven \cup {0}
    /\ bridgeprev.image \in proven \cup {0}

(* The record is about the dubious image, and leads back to the other one. *)
Recorded ==
    bridgeboot.target # 0 =>
        \A p \in Partition : Dubious(p) =>
            bridgeboot.target = part[p] /\ bridgeboot.previous = Other(p)

(* Beside a dubious image there is a proven one, and the bootloader takes  *)
(* the dubious one only with its record.                                   *)
WayBack ==
    \A p \in Partition : Dubious(p) =>
        /\ part[Other(p)] \in proven
        /\ \/ selected = Other(p) /\ state[selected] \in {"new", "valid"}
           \/ /\ selected = p /\ state[Other(p)] = "valid"
              /\ bridgeboot.target = part[p] \/ state[p] \notin {"new", "valid"}

(* The selected image is confirmed, or the other one is.  An image that    *)
(* is new may also lack a record: its boot is then seen to be unguarded.   *)
Confirmable ==
    \/ state[selected] = "valid"
    \/ state[selected] = "pending" /\ state[Other(selected)] = "valid"
    \/ /\ state[selected] = "new"
       /\ \/ state[Other(selected)] = "valid"
          \/ bridgeboot.target # part[selected]

(* Only a flash over USB, to partition 0, brings in the image of a record  *)
(* that does not lead to the other partition.                              *)
FlashedOver ==
    bridgeboot.target # 0 =>
        /\ bridgeboot.target = part[1] => bridgeboot.previous = 0
        /\ bridgeboot.target = part[0] /\ bridgeboot.previous # 1 =>
               \/ state[1] = "valid"
               \/ /\ selected = 1 /\ state[1] = "new"
                  /\ part[1] # bridgeboot.target

(* What each phase knows of the running image. *)
Phases ==
    /\ pc = "setup" =>
           /\ \/ state[running] = "valid"
              \/ state[running] = "pending" /\ bridgeboot.target = AppVersion
           /\ Dubious(running) => bridgeboot.target = AppVersion
    /\ pc \in Trial \cup {"rollback"} =>
           bridgeboot.target = AppVersion /\ state[running] \in {"valid", "pending"}
    /\ pc \in {"marked", "backedup"} \cup InControl =>
           AppVersion \in proven /\ state[running] = "valid"
    /\ pc = "rollback" => previous = bridgeboot.previous
    /\ pc = "native" => state[running] = "pending" /\ bridgeboot.target = 0
    /\ pc = "reselect" =>
           \/ bridgeboot.target = 0 /\ state[running] = "pending"
           \/ /\ bridgeboot.target = AppVersion /\ state[running] = "valid"
              /\ previous = bridgeboot.previous
    /\ pc \in {"rollback", "native", "reselect"} => ~Dubious(RecordedPartition)
    /\ pc = "reselected" => ~Dubious(selected)

Guarded == Provenance /\ Recorded /\ WayBack /\ Confirmable /\ FlashedOver /\ Phases

(* The delivered image is proven. *)
LEMMA GuardedInit == Init => Guarded
  BY OtaAssumption DEF Init, Guarded, Provenance, Recorded, WayBack,
     Confirmable,
     FlashedOver, Phases, Dubious, Partition, Other, Torn, NoRecord, NoBackup,
     Trial, Installing, InControl

(* An installation brings in a dubious image, behind its record. *)
LEMMA InstallationGuarded ==
    ASSUME Shape, Guarded, RecordInstallation \/ CompleteImage \/ Activate
    PROVE  Guarded'
<1> DEFINE other == Other(running)
<1>1. /\ running \in {0, 1} /\ other \in {0, 1} /\ other # running
      /\ Other(other) = running /\ Partition = {0, 1}
  BY DEF Shape, TypeOK, Partition, Other
<1>2. /\ AppVersion = part[running] /\ AppVersion \in proven
      /\ AppVersion \in Nat /\ AppVersion # Torn
      /\ state[running] = "valid" /\ selected = running
      /\ manifest \in Nat /\ manifest > AppVersion
      /\ DOMAIN part = {0, 1} /\ DOMAIN state = {0, 1}
  <2>1. pc \in {"verified", "recorded", "written"}
    BY DEF RecordInstallation, CompleteImage, Activate
  <2>2. AppVersion \in proven /\ state[running] = "valid"
    BY <2>1 DEF Guarded, Phases, InControl, Installing
  <2>3. selected = running
    BY <2>1 DEF Shape, SelectedRuns
  <2>4. AppVersion = part[running] /\ part[running] \in Images
    BY <1>1 DEF Shape, TypeOK, Whole, AppVersion
  <2>5. manifest \in Images /\ manifest > AppVersion
    BY <2>1 DEF Shape, InstallShape, Installing
  <2>6. DOMAIN part = {0, 1} /\ DOMAIN state = {0, 1}
    BY <1>1 DEF Shape, TypeOK
  <2> QED
    BY <2>2, <2>3, <2>4, <2>5, <2>6, OtaAssumption DEF Torn
<1>3. bridgeprev.image \in proven \cup {0}
  BY DEF Guarded, Provenance
<1> HIDE DEF other
<1>4. ASSUME RecordInstallation PROVE Guarded'
  <2>1. /\ bridgeboot' = [target |-> manifest, previous |-> running,
                          prevImage |-> AppVersion, attempts |-> 0]
        /\ UNCHANGED <<part, selected, state, bridgeprev, running, proven>>
        /\ pc' = "recorded" /\ part[other] = Torn
    BY <1>4 DEF RecordInstallation, InstallationRecord, other, Shape,
       InstallShape, flash, ram, world
  <2>2. ~Dubious(0)' /\ ~Dubious(1)'
    BY <1>1, <1>2, <2>1 DEF Dubious, AppVersion
  <2>3. (Provenance /\ Recorded /\ WayBack /\ Confirmable)'
    BY <1>1, <1>2, <1>3, <2>1, <2>2
       DEF Provenance, Recorded, WayBack, Confirmable
  <2>4. FlashedOver'
    BY <1>1, <1>2, <2>1 DEF FlashedOver, Torn
  <2>5. Phases'
    BY <1>2, <2>1 DEF Phases, InControl, Installing, Trial, AppVersion
  <2> QED
    BY <2>3, <2>4, <2>5 DEF Guarded
<1> DEFINE Noted ==
        /\ bridgeboot.target = manifest /\ bridgeboot.previous = running
        /\ bridgeboot.prevImage = AppVersion
<1>5. ASSUME CompleteImage PROVE Guarded'
  <2>1. /\ part' = [part EXCEPT ![other] = manifest]
        /\ UNCHANGED <<bridgeboot, selected, state, bridgeprev, running, proven>>
        /\ pc' = "written" /\ Noted
    BY <1>5 DEF CompleteImage, other, Shape, InstallShape, InstallationRecord,
       nvs, ram, world, history
  <2>2. part'[running] = AppVersion /\ part'[other] = manifest
    BY <1>1, <1>2, <2>1
  <2>3. ~Dubious(running)'
    BY <1>1, <1>2, <2>1, <2>2 DEF Dubious, AppVersion
  <2>4. (Provenance /\ Confirmable)'
    BY <1>2, <1>3, <2>1 DEF Provenance, Confirmable
  <2>5. Recorded' /\ WayBack'
    BY <1>1, <1>2, <2>1, <2>2, <2>3 DEF Recorded, WayBack
  <2>6. FlashedOver'
    BY <1>1, <1>2, <2>1, <2>2 DEF FlashedOver
  <2>7. Phases'
    BY <1>1, <1>2, <2>1, <2>2 DEF Phases, InControl, Installing, Trial,
       AppVersion
  <2> QED
    BY <2>4, <2>5, <2>6, <2>7 DEF Guarded
<1>6. ASSUME Activate PROVE Guarded'
  <2>1. /\ state' = [state EXCEPT ![other] = "new"] /\ selected' = other
        /\ UNCHANGED <<bridgeboot, part, bridgeprev, running, proven>>
        /\ pc' = "activated" /\ Noted /\ part[other] = manifest
    BY <1>6 DEF Activate, SetBootPartition, other, Shape, InstallShape,
       InstallationRecord, nvs, ram, world
  <2>2. state'[running] = "valid" /\ state'[other] = "new"
    BY <1>1, <1>2, <2>1
  <2>3. ~Dubious(running)'
    BY <1>1, <1>2, <2>1, <2>2 DEF Dubious, AppVersion
  <2>4. (Provenance /\ Confirmable)'
    BY <1>1, <1>2, <1>3, <2>1, <2>2 DEF Provenance, Confirmable
  <2>5. Recorded' /\ WayBack'
    BY <1>1, <1>2, <2>1, <2>2, <2>3 DEF Recorded, WayBack, Dubious
  <2>6. FlashedOver'
    BY <1>1, <1>2, <2>1, <2>2 DEF FlashedOver
  <2>7. Phases'
    BY <1>1, <1>2, <2>1, <2>2 DEF Phases, InControl, Installing, Trial,
       AppVersion
  <2> QED
    BY <2>4, <2>5, <2>6, <2>7 DEF Guarded
<1> QED
  BY <1>4, <1>5, <1>6

(* A boot takes the dubious image with its record, or the proven one. *)
LEMMA BootloaderGuarded ==
    ASSUME Shape, Guarded, ~unguarded', Bootloader
    PROVE  Guarded'
<1> DEFINE boot == BootTarget
           other == Other(boot)
<1>1. boot \in {0, 1} /\ other \in {0, 1} /\ other # boot /\ Partition = {0, 1}
  BY DEF Shape, TypeOK, Partition, Other, BootTarget
<1>2. /\ selected \in {0, 1} /\ part[selected] # Torn
      /\ state[0] \in {"new", "pending", "valid", "aborted"}
      /\ state[1] \in {"new", "pending", "valid", "aborted"}
  BY <1>1 DEF Shape, TypeOK, Whole
<1>3. /\ part[boot] # Torn
      /\ \/ Eligible(boot)
         \/ state[boot] = "pending" /\ boot = selected
      /\ boot # selected => Eligible(boot) /\ ~Eligible(selected)
  BY <1>1, <1>2 DEF BootTarget, Eligible, Other, Guarded, Confirmable, Torn
<1>4. /\ running' = boot /\ selected' = boot /\ pc' = "setup"
      /\ UNCHANGED <<part, bridgeboot, bridgeprev, proven, previous>>
      /\ state'[boot] = Confirmed(boot)
      /\ state'[other] = IF state[other] = "pending" THEN "aborted"
                                                     ELSE state[other]
      /\ ~Unconfirmed(boot)
  BY <1>1 DEF Bootloader, nvs, ram
<1>5. /\ (boot = 0 /\ other = 1) \/ (boot = 1 /\ other = 0)
      /\ Other(boot) = other /\ Other(other) = boot
      /\ Other(0) = 1 /\ Other(1) = 0
  BY <1>1 DEF Other
<1> HIDE DEF boot, other
<1>6. \/ state'[boot] = "valid"
      \/ state'[boot] = "pending" /\ bridgeboot.target = part[boot]
  BY <1>1, <1>2, <1>3, <1>4 DEF Confirmed, Unconfirmed, Eligible
<1>7. \A p \in Partition : Dubious(p)' <=> Dubious(p)
  BY <1>4 DEF Dubious
<1>8. (Provenance /\ Recorded)'
  BY <1>4, <1>7 DEF Guarded, Provenance, Recorded
<1>9. state'[boot] = "pending" => boot = selected /\ state[other] = "valid"
  BY <1>1, <1>2, <1>3, <1>4, <1>5
     DEF Guarded, Confirmable, Eligible, Confirmed, Unconfirmed
<1>10. Confirmable'
  BY <1>4, <1>5, <1>6, <1>9 DEF Confirmable
<1>11. FlashedOver'
  <2>1. ASSUME bridgeboot.target # 0, bridgeboot.target = part[0],
               bridgeboot.previous # 1
        PROVE  state'[1] = "valid"
    <3>1. \/ state[1] = "valid"
          \/ selected = 1 /\ state[1] = "new" /\ part[1] # bridgeboot.target
      BY <2>1 DEF Guarded, FlashedOver
    <3>2. CASE boot = 1
      BY <1>4, <1>6, <3>1, <3>2 DEF Confirmed
    <3>3. CASE boot = 0
      BY <1>1, <1>2, <1>3, <1>4, <1>5, <3>1, <3>3 DEF Eligible
    <3> QED
      BY <1>5, <3>2, <3>3
  <2>2. bridgeboot.target # 0 /\ bridgeboot.target = part[1] =>
            bridgeboot.previous = 0
    BY DEF Guarded, FlashedOver
  <2> QED
    BY <1>4, <2>1, <2>2 DEF FlashedOver
<1>12. ASSUME Dubious(boot)
       PROVE  part[other] \in proven /\ state[other] = "valid" /\ bridgeboot.target = part[boot]
  <2>1. /\ part[other] \in proven
        /\ \/ selected = other /\ state[selected] \in {"new", "valid"}
           \/ /\ selected = boot /\ state[other] = "valid"
              /\ bridgeboot.target = part[boot] \/ state[boot] \notin {"new", "valid"}
    BY <1>1, <1>5, <1>12 DEF Guarded, WayBack
  <2>2. part[other] # Torn
    BY <1>1, <2>1, OtaAssumption DEF Shape, TypeOK, Torn
  <2> QED
    BY <1>1, <1>2, <1>3, <1>5, <2>1, <2>2 DEF Eligible, BootTarget, boot
<1>13. ASSUME Dubious(other)
        PROVE part[boot] \in proven /\ state'[boot] = "valid"
  <2>1. part[boot] \in proven
    BY <1>1, <1>5, <1>13 DEF Guarded, WayBack
  <2>2. bridgeboot.target # 0 => bridgeboot.target = part[other]
    BY <1>1, <1>13 DEF Guarded, Recorded
  <2>3. part[other] \notin proven
    BY <1>13 DEF Dubious
  <2> QED
    BY <1>3, <1>6, <2>1, <2>2, <2>3 DEF Torn
<1>14. WayBack'
  BY <1>1, <1>4, <1>5, <1>7, <1>12, <1>13 DEF WayBack
<1>15. Phases'
  BY <1>1, <1>4, <1>5, <1>6, <1>7, <1>12 DEF Phases, AppVersion, Trial,
     InControl, Installing
<1> QED
  BY <1>8, <1>10, <1>11, <1>14, <1>15 DEF Guarded

(* In control a phase needs no more than a running image that is proven.   *)
LEMMA ControlPhases ==
    ASSUME pc' \in InControl, (AppVersion \in proven)', state'[running'] = "valid"
    PROVE  Phases'
  BY DEF Phases, InControl, Installing, Trial

(* No step takes away the way back. *)
LEMMA GuardedStep ==
    ASSUME Shape, ~unguarded', Guarded, [Next]_vars
    PROVE  Guarded'
<1> USE OtaAssumption DEF Shape, TypeOK, Whole, SelectedRuns, BackupShape,
        InstallShape, Partition, Torn, NoPartition, Other, AppVersion, flash,
        settings, nvs, install, ram, world, history, Installing,
        BackupIsIntact, Guarded, Provenance, Recorded, WayBack, Confirmable,
        FlashedOver, Phases, Dubious, Trial, RollingBack, InControl,
        RecordedPartition
<1>1. ASSUME Bootloader PROVE Guarded'
  BY <1>1, BootloaderGuarded
<1>2. ASSUME NoValidation PROVE Guarded'
  BY <1>2 DEF NoValidation
<1>3. ASSUME PrepareOtaBootValidation PROVE Guarded'
  BY <1>3 DEF PrepareOtaBootValidation, CountAttempt, RollBack
<1>4. ASSUME CandidateCrashes PROVE Guarded'
  BY <1>4 DEF CandidateCrashes, Restart
<1>5. ASSUME ValidationFails PROVE Guarded'
  BY <1>5 DEF ValidationFails, RollBack
<1>6. ASSUME MarkAppValid PROVE Guarded'
  BY <1>6 DEF MarkAppValid
<1>7. ASSUME SaveBackup PROVE Guarded'
  BY <1>7 DEF SaveBackup, NoBackup
<1>8. ASSUME ValidationEnds PROVE Guarded'
  BY <1>8 DEF ValidationEnds, ClearOtaBootState, NoRecord
<1>9. ASSUME PreferBootloader PROVE Guarded'
  BY <1>9 DEF PreferBootloader, NoRecord
<1>10. ASSUME NativeRollback PROVE Guarded'
  BY <1>10 DEF NativeRollback, Restart
<1>11. ASSUME NativeRollbackFails PROVE Guarded'
  BY <1>11 DEF NativeRollbackFails
<1>12. ASSUME Reselect PROVE Guarded'
  BY <1>12 DEF Reselect, SetBootPartition, RecordedPartition
<1>13. ASSUME RestartPrevious PROVE Guarded'
  BY <1>13 DEF RestartPrevious, ClearOtaBootState, NoRecord, Restart
<1>14. ASSUME RollbackImpossible PROVE Guarded'
  BY <1>14 DEF RollbackImpossible, NoRecord
<1>15. ASSUME Downloaded PROVE Guarded'
  BY <1>15 DEF Downloaded
<1>16. ASSUME DownloadFails PROVE Guarded'
  BY <1>16 DEF DownloadFails, Failed
<1>17. ASSUME RecordInstallation PROVE Guarded'
  BY <1>17, InstallationGuarded
<1>18. ASSUME RecordFails PROVE Guarded'
  BY <1>18 DEF RecordFails, PartialRecord, Failed, Restart
<1>19. ASSUME CompleteImage PROVE Guarded'
  BY <1>19, InstallationGuarded
<1>20. ASSUME Activate PROVE Guarded'
  BY <1>20, InstallationGuarded
<1>21. ASSUME UpdateEndFails PROVE Guarded'
  <2>1. /\ part' = [part EXCEPT ![Other(running)] = Torn]
        /\ bridgeboot' = NoRecord /\ pc' \in {"download", "control"}
        /\ UNCHANGED <<selected, state, bridgeprev, running, proven>>
        /\ pc \in {"recorded", "written"}
    BY <1>21 DEF UpdateEndFails, Failed
  <2>2. bridgeboot'.target = 0 /\ bridgeboot'.prevImage = 0
    BY <2>1 DEF NoRecord
  <2>3. (Provenance /\ Recorded /\ FlashedOver)'
    BY <2>1, <2>2
  <2>4. WayBack'
    BY <2>1, <2>2
  <2>5. Confirmable'
    BY <2>1, <2>2
  <2>6. AppVersion' \in proven' /\ state'[running'] = "valid"
    BY <2>1
  <2>7. Phases'
    BY <2>1, <2>6, ControlPhases
  <2> QED
    BY <2>3, <2>4, <2>5, <2>7, Zenon DEF Guarded
<1>22. ASSUME RestartIntoUpdate PROVE Guarded'
  BY <1>22 DEF RestartIntoUpdate, Restart
<1>23. ASSUME UpToDate PROVE Guarded'
  BY <1>23 DEF UpToDate, CheckIsDue
<1>24. ASSUME CheckFails PROVE Guarded'
  BY <1>24 DEF CheckFails, CheckIsDue
<1>25. ASSUME WaitingEnds PROVE Guarded'
  BY <1>25 DEF WaitingEnds
<1>26. ASSUME NEW i \in Images, InstallUnattended(i) PROVE Guarded'
  BY <1>26 DEF InstallUnattended, CheckIsDue, Begin, Newer
<1>27. ASSUME ClearWifi PROVE Guarded'
  BY <1>27 DEF ClearWifi
<1>28. ASSUME ManualRollback PROVE Guarded'
  BY <1>28 DEF ManualRollback, BackupIsIntact
<1>29. ASSUME NEW enabled \in BOOLEAN, SetAutomatic(enabled) PROVE Guarded'
  BY <1>29 DEF SetAutomatic
<1>30. ASSUME NEW i \in Images, InstallByOperator(i) PROVE Guarded'
  BY <1>30 DEF InstallByOperator, Begin, Newer
<1>31. ASSUME PowerLoss PROVE Guarded'
  BY <1>31 DEF PowerLoss, Restart, ForgetUnnoted
<1>32. ASSUME PowerLossTearsBackup PROVE Guarded'
  BY <1>32 DEF PowerLossTearsBackup, Restart, NoBackup
<1>33. ASSUME PowerLossTearsImage PROVE Guarded'
  BY <1>33 DEF PowerLossTearsImage, Restart
<1>34. ASSUME NextWindow PROVE Guarded'
  BY <1>34 DEF NextWindow
<1>35. ASSUME NEW i \in Images \ Faulty, UsbFlash(i) PROVE Guarded'
  BY <1>35 DEF UsbFlash, Restart, ForgetUnnoted
<1>36. ASSUME Revert PROVE Guarded'
  BY <1>36 DEF Revert, SetBootPartition, Restart
<1>37. ASSUME RevertFails PROVE Guarded'
  BY <1>37 DEF RevertFails
<1>38. ASSUME UNCHANGED vars PROVE Guarded'
  BY <1>38 DEF vars
<1> HIDE DEF Shape, Guarded, TypeOK, Whole, SelectedRuns, BackupShape,
         InstallShape, Provenance, Recorded, WayBack, Confirmable,
         FlashedOver, Phases
<1> QED
  BY <1>1, <1>2, <1>3, <1>4, <1>5, <1>6, <1>7, <1>8, <1>9, <1>10, <1>11, <1>12,
     <1>13, <1>14, <1>15, <1>16, <1>17, <1>18, <1>19, <1>20, <1>21, <1>22,
     <1>23, <1>24, <1>25, <1>26, <1>27, <1>28, <1>29, <1>30, <1>31, <1>32,
     <1>33, <1>34, <1>35, <1>36, <1>37, <1>38
     DEF Next, Startup, Installation, Service, Operator, Environment

(* That an image ran unguarded is not forgotten. *)
LEMMA UnguardedStays == [Next]_vars /\ ~unguarded' => ~unguarded
<1> SUFFICES ASSUME [Next]_vars, ~unguarded' PROVE ~unguarded
  OBVIOUS
<1> USE DEF flash, settings, nvs, install, ram, world, history
<1>1. ASSUME Startup PROVE ~unguarded
  BY <1>1
     DEF Startup, Bootloader, NoValidation, PrepareOtaBootValidation,
         CandidateCrashes, ValidationFails, MarkAppValid, SaveBackup,
         ValidationEnds, PreferBootloader, NativeRollback, NativeRollbackFails,
         Reselect, RestartPrevious, RollbackImpossible, BootTarget,
         ClearOtaBootState, Confirmed, CountAttempt, Eligible, NoBackup,
         NoRecord, RecordedPartition, Restart, RollBack, SetBootPartition
<1>2. ASSUME Installation PROVE ~unguarded
  BY <1>2
     DEF Installation, Downloaded, DownloadFails, RecordInstallation,
         RecordFails, CompleteImage, Activate, UpdateEndFails,
         RestartIntoUpdate, Failed, NoRecord, PartialRecord, Restart,
         SetBootPartition
<1>3. ASSUME Service PROVE ~unguarded
  BY <1>3
     DEF Service, UpToDate, CheckFails, WaitingEnds, InstallUnattended,
         Begin, CheckIsDue, Newer
<1>4. ASSUME Operator PROVE ~unguarded
  BY <1>4
     DEF Operator, ClearWifi, ManualRollback, SetAutomatic,
         InstallByOperator, BackupIsIntact, Begin, Newer
<1>5. ASSUME Environment PROVE ~unguarded
  BY <1>5
     DEF Environment, PowerLoss, PowerLossTearsBackup, PowerLossTearsImage,
         NextWindow, UsbFlash, ForgetUnnoted, NoBackup, Restart
<1>6. ASSUME Revert \/ RevertFails PROVE ~unguarded
  BY <1>6 DEF Revert, RevertFails, SetBootPartition, Restart
<1>7. ASSUME UNCHANGED vars PROVE ~unguarded
  BY <1>7 DEF vars
<1> QED
  BY <1>1, <1>2, <1>3, <1>4, <1>5, <1>6, <1>7 DEF Next

(* The way back is there as long as every fault so far left one. *)
LEMMA GuardedInvariance == Spec => [](unguarded \/ Guarded)
<1>1. Shape /\ (unguarded \/ Guarded) /\ [Next]_vars => (unguarded \/ Guarded)'
  BY GuardedStep, UnguardedStays
<1> QED
  BY <1>1, GuardedInit, ShapeInvariance, PTL DEF Spec

-----------------------------------------------------------------------------
(* What follows about the images. *)

(* Every reachable state is well typed, whatever fails. *)
THEOREM OtaTypeOKAlways == Spec => []TypeOK
<1>1. Shape => TypeOK
  BY DEF Shape
<1> QED
  BY <1>1, ShapeInvariance, PTL

(* Wherever power fails, the next boot takes a whole image that is proven  *)
(* or that its record puts on trial, for any number of faults              *)
(* (main.cpp 349-441, OtaManager.cpp 629-718).                             *)
THEOREM RestartIsSafeAlways == Spec => []RestartIsSafe
<1>1. ASSUME Shape PROVE part[BootTarget] # Torn
  BY <1>1 DEF Shape, TypeOK, Whole, BootTarget, Eligible, Other, Partition,
     Torn
<1>2. ASSUME Shape, Guarded
      PROVE  part[BootTarget] \in proven \/ bridgeboot.target = part[BootTarget]
  <2> DEFINE boot == BootTarget
  <2>1. selected \in {0, 1} /\ boot \in {0, 1} /\ Partition = {0, 1}
        /\ Other(0) = 1 /\ Other(1) = 0 /\ 0 \notin proven
    BY <1>2, OtaAssumption
       DEF Shape, TypeOK, BootTarget, Partition, Other
  <2>2. SUFFICES ASSUME Dubious(boot) PROVE bridgeboot.target = part[boot]
    BY <1>1, <1>2 DEF Dubious
  <2>3. /\ part[Other(boot)] \in proven
        /\ \/ selected = Other(boot) /\ state[selected] \in {"new", "valid"}
           \/ /\ selected = boot /\ state[Other(boot)] = "valid"
              /\ bridgeboot.target = part[boot] \/ state[boot] \notin {"new", "valid"}
    BY <1>2, <2>1, <2>2 DEF Guarded, WayBack
  <2>4. part[Other(boot)] # Torn
    BY <2>1, <2>3 DEF Torn
  <2> QED
    BY <2>1, <2>3, <2>4 DEF BootTarget, Eligible
<1>3. Shape /\ (unguarded \/ Guarded) => RestartIsSafe
  BY <1>1, <1>2 DEF RestartIsSafe
<1> QED
  BY <1>3, ShapeInvariance, GuardedInvariance, PTL

(* Only a proven image touches the inverters (main.cpp 391-423). *)
THEOREM ControlIsProvenAlways == Spec => []ControlIsProven
<1>1. unguarded \/ Guarded => ControlIsProven
  BY DEF Guarded, Phases, ControlIsProven
<1> QED
  BY <1>1, GuardedInvariance, PTL

(* A manual rollback selects an image that has been proven, whatever was   *)
(* written over it since (main.cpp 162-251).                               *)
THEOREM ManualRollbackIsProvenAlways == Spec => ManualRollbackIsProven
<1> DEFINE Step == pc = "reverting" /\ selected' # selected =>
                       part[selected'] \in proven \/ unguarded
<1>1. ASSUME Shape, unguarded \/ Guarded, [Next]_vars PROVE Step
  <2> SUFFICES ASSUME pc = "reverting", selected' # selected, Guarded
               PROVE  part[selected'] \in proven
    BY <1>1
  <2>1. selected' \in {0, 1} /\ selected \in {0, 1}
    <3>1. Values'
      BY <1>1, ValuesStep
    <3> QED
      BY <1>1, <3>1 DEF Values, Shape, TypeOK, Partition
  <2>2. /\ bridgeprev.partition \in {0, 1} \ {selected}
        /\ part[bridgeprev.partition] = bridgeprev.image
    BY <1>1 DEF Shape, BackupShape, BackupIsIntact, SelectedRuns, Partition
  <2>3. bridgeprev.image \in proven
    BY <1>1, <2>2 DEF Shape, BackupShape, Guarded, Provenance, NoPartition
  <2> QED
    BY <2>1, <2>2, <2>3
<1>2. Spec => [][Step]_vars
  BY <1>1, ShapeInvariance, GuardedInvariance, PTL DEF Spec
<1> QED
  BY <1>2 DEF ManualRollbackIsProven

-----------------------------------------------------------------------------
(* Trials, rejected images and windows. *)

(* A record that no boot has counted yet belongs to an image that is not   *)
(* on its trial yet.                                                       *)
TrialCount ==
    /\ trials <= 1
    /\ bridgeboot.attempts = 0 /\ bridgeboot.target # 0 /\ trials # 0 =>
           \A p \in Partition : part[p] # bridgeboot.target
    /\ pc = "recorded" => trials = 0

(* Unattended installations stop when an image is rejected. *)
Rejection ==
    /\ automatic => rejected = {}
    /\ unattended => pc \in Installing /\ rejected = {}

(* The day of an installation is noted before the next boot, and a day     *)
(* that is noted is over.                                                  *)
Days ==
    /\ lastScheduledDay <= day /\ currentWindowDay <= day
    /\ currentWindowDay # -1 => lastScheduledDay <= currentWindowDay
    /\ \/ installedOn <= lastScheduledDay
       \/ pc = "activated" /\ installedOn <= currentWindowDay
    /\ unattended => currentWindowDay # -1
    /\ unattended /\ pc # "activated" => installedOn < currentWindowDay

(* A trial is counted in the record before it begins. *)
LEMMA TrialCountStep ==
    ASSUME Shape, TrialCount, [Next]_vars
    PROVE  TrialCount'
<1> USE OtaAssumption DEF Shape, TypeOK, Whole, InstallShape, Partition, Torn,
        Other, AppVersion, InstallationRecord, flash, settings, nvs, install,
        ram, world, history, Installing, TrialCount
<1>1. ASSUME Startup PROVE TrialCount'
  BY <1>1
     DEF Startup, Bootloader, NoValidation, PrepareOtaBootValidation,
         CandidateCrashes, ValidationFails, MarkAppValid, SaveBackup,
         ValidationEnds, PreferBootloader, NativeRollback, NativeRollbackFails,
         Reselect, RestartPrevious, RollbackImpossible, BootTarget,
         ClearOtaBootState, Confirmed, CountAttempt, Eligible, NoBackup,
         NoRecord, RecordedPartition, Restart, RollBack, SetBootPartition
<1>2. ASSUME Installation PROVE TrialCount'
  BY <1>2
     DEF Installation, Downloaded, DownloadFails, RecordInstallation,
         RecordFails, CompleteImage, Activate, UpdateEndFails,
         RestartIntoUpdate, Failed, NoRecord, PartialRecord, Restart,
         SetBootPartition
<1>3. ASSUME Service PROVE TrialCount'
  BY <1>3
     DEF Service, UpToDate, CheckFails, WaitingEnds, InstallUnattended,
         Begin, CheckIsDue, Newer
<1>4. ASSUME Operator PROVE TrialCount'
  BY <1>4
     DEF Operator, ClearWifi, ManualRollback, SetAutomatic,
         InstallByOperator, BackupIsIntact, Begin, Newer
<1>5. ASSUME Environment PROVE TrialCount'
  BY <1>5
     DEF Environment, PowerLoss, PowerLossTearsBackup, PowerLossTearsImage,
         NextWindow, UsbFlash, ForgetUnnoted, NoBackup, Restart
<1>6. ASSUME Revert \/ RevertFails PROVE TrialCount'
  BY <1>6 DEF Revert, RevertFails, SetBootPartition, Restart
<1>7. ASSUME UNCHANGED vars PROVE TrialCount'
  BY <1>7 DEF vars
<1> QED
  BY <1>1, <1>2, <1>3, <1>4, <1>5, <1>6, <1>7 DEF Next

(* Only the operator changes what is rejected, and not during an update. *)
LEMMA RejectionStep ==
    ASSUME Rejection, [Next]_vars
    PROVE  Rejection'
<1> USE DEF flash, settings, nvs, install, ram, world, history, Installing,
        Rejection
<1>1. ASSUME Startup PROVE Rejection'
  BY <1>1
     DEF Startup, Bootloader, NoValidation, PrepareOtaBootValidation,
         CandidateCrashes, ValidationFails, MarkAppValid, SaveBackup,
         ValidationEnds, PreferBootloader, NativeRollback, NativeRollbackFails,
         Reselect, RestartPrevious, RollbackImpossible, BootTarget,
         ClearOtaBootState, Confirmed, CountAttempt, Eligible, NoBackup,
         NoRecord, RecordedPartition, Restart, RollBack, SetBootPartition
<1>2. ASSUME Installation PROVE Rejection'
  BY <1>2
     DEF Installation, Downloaded, DownloadFails, RecordInstallation,
         RecordFails, CompleteImage, Activate, UpdateEndFails,
         RestartIntoUpdate, Failed, NoRecord, PartialRecord, Restart,
         SetBootPartition
<1>3. ASSUME Service PROVE Rejection'
  BY <1>3
     DEF Service, UpToDate, CheckFails, WaitingEnds, InstallUnattended,
         Begin, CheckIsDue, Newer
<1>4. ASSUME Operator PROVE Rejection'
  BY <1>4
     DEF Operator, ClearWifi, ManualRollback, SetAutomatic,
         InstallByOperator, BackupIsIntact, Begin, Newer
<1>5. ASSUME Environment PROVE Rejection'
  BY <1>5
     DEF Environment, PowerLoss, PowerLossTearsBackup, PowerLossTearsImage,
         NextWindow, UsbFlash, ForgetUnnoted, NoBackup, Restart
<1>6. ASSUME Revert \/ RevertFails PROVE Rejection'
  BY <1>6 DEF Revert, RevertFails, SetBootPartition, Restart
<1>7. ASSUME UNCHANGED vars PROVE Rejection'
  BY <1>7 DEF vars
<1> QED
  BY <1>1, <1>2, <1>3, <1>4, <1>5, <1>6, <1>7 DEF Next

(* The days only move on. *)
LEMMA DaysStep ==
    ASSUME TypeOK, Rejection, Days, [Next]_vars
    PROVE  Days'
<1> USE OtaAssumption DEF TypeOK, Rejection, flash, settings, nvs, install,
        ram, world, history, Installing, Days
<1>1. ASSUME Startup PROVE Days'
  BY <1>1
     DEF Startup, Bootloader, NoValidation, PrepareOtaBootValidation,
         CandidateCrashes, ValidationFails, MarkAppValid, SaveBackup,
         ValidationEnds, PreferBootloader, NativeRollback, NativeRollbackFails,
         Reselect, RestartPrevious, RollbackImpossible, BootTarget,
         ClearOtaBootState, Confirmed, CountAttempt, Eligible, NoBackup,
         NoRecord, RecordedPartition, Restart, RollBack, SetBootPartition
<1>2. ASSUME Installation PROVE Days'
  BY <1>2
     DEF Installation, Downloaded, DownloadFails, RecordInstallation,
         RecordFails, CompleteImage, Activate, UpdateEndFails,
         RestartIntoUpdate, Failed, NoRecord, PartialRecord, Restart,
         SetBootPartition
<1>3. ASSUME Service PROVE Days'
  BY <1>3
     DEF Service, UpToDate, CheckFails, WaitingEnds, InstallUnattended,
         Begin, CheckIsDue, Newer
<1>4. ASSUME Operator PROVE Days'
  BY <1>4
     DEF Operator, ClearWifi, ManualRollback, SetAutomatic,
         InstallByOperator, BackupIsIntact, Begin, Newer
<1>5. ASSUME Environment PROVE Days'
  BY <1>5
     DEF Environment, PowerLoss, PowerLossTearsBackup, PowerLossTearsImage,
         NextWindow, UsbFlash, ForgetUnnoted, NoBackup, Restart
<1>6. ASSUME Revert \/ RevertFails PROVE Days'
  BY <1>6 DEF Revert, RevertFails, SetBootPartition, Restart
<1>7. ASSUME UNCHANGED vars PROVE Days'
  BY <1>7 DEF vars
<1> QED
  BY <1>1, <1>2, <1>3, <1>4, <1>5, <1>6, <1>7 DEF Next

(* What is known of the trials, the rejected images and the windows. *)
HistoryInv == TrialCount /\ Rejection /\ Days

(* The three together. *)
LEMMA HistoryInvariance == Spec => []HistoryInv
<1>1. Init => HistoryInv
  BY OtaAssumption
     DEF Init, HistoryInv, TrialCount, Rejection, Days, NoRecord, Installing
<1>2. Shape /\ HistoryInv /\ [Next]_vars => HistoryInv'
  BY TrialCountStep, RejectionStep, DaysStep DEF HistoryInv, Shape
<1> QED
  BY <1>1, <1>2, ShapeInvariance, PTL DEF Spec

(* The second boot of an image before it is proven goes back to the image  *)
(* before: no image has two trials (main.cpp 349-369).                     *)
THEOREM OneTrialAlways == Spec => []OneTrial
<1>1. HistoryInv => OneTrial
  BY DEF HistoryInv, TrialCount, OneTrial
<1> QED
  BY <1>1, HistoryInvariance, PTL

(* What the operator went back from is not installed again unattended      *)
(* before automatic updates are switched on again (main.cpp 212-251).      *)
THEOREM RejectedStaysOutAlways == Spec => []RejectedStaysOut
<1>1. HistoryInv => RejectedStaysOut
  BY DEF HistoryInv, Rejection, RejectedStaysOut
<1> QED
  BY <1>1, HistoryInvariance, PTL

(* A window activates at most one image unattended, though the day is      *)
(* noted only after the activation (OtaManager.cpp 706-802).               *)
THEOREM OneInstallPerWindowAlways == Spec => OneInstallPerWindow
<1> DEFINE Step == pc = "written" /\ pc' = "activated" /\ unattended =>
                       currentWindowDay # installedOn
<1>1. Shape /\ HistoryInv => Step
  BY DEF Shape, TypeOK, HistoryInv, Days
<1>2. Spec => [][Step]_vars
  BY <1>1, ShapeInvariance, HistoryInvariance, PTL
<1> QED
  BY <1>2 DEF OneInstallPerWindow
=============================================================================
