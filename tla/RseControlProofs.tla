--------------------------- MODULE RseControlProofs ---------------------------
(***************************************************************************)
(* Theorems about the control core, for every number of inverters, all      *)
(* settings that commands give them, every profile and mix of disturbances;*)
(* and about the same through updates of the firmware (RseUpdate.tla).     *)
(***************************************************************************)
EXTENDS RseUpdate, TLAPS

(* Every profile maps every mask to a level, to "hold" or to "invalid".    *)
LEMMA DecodeType ==
    ASSUME NEW mask \in Mask, NEW p \in RseProfile
    PROVE  DecodeRsePercent(mask, p) \in Decoded
<1>1. IsOneHot4(mask) => OneHotLevel(mask) \in Level
  BY DEF IsOneHot4, OneHotLevel, ContactLevel, Contact, Level
<1>2. PriorityLevel(mask) \in Level
  BY DEF PriorityLevel, Level
<1>3. QED
  BY <1>1, <1>2 DEF DecodeRsePercent, OneHotOr, PriorityOr, RseProfile, Decoded, Level,
     RSE_INVALID, RSE_HOLD_LAST

(* Only the hold-last profile ever answers "hold".                         *)
LEMMA OnlyEweHolds ==
    ASSUME NEW mask \in Mask, NEW p \in RseProfile, p # "EweHold4"
    PROVE  DecodeRsePercent(mask, p) # RSE_HOLD_LAST
<1>1. IsOneHot4(mask) => OneHotLevel(mask) \in Level
  BY DEF IsOneHot4, OneHotLevel, ContactLevel, Contact, Level
<1>2. PriorityLevel(mask) \in Level
  BY DEF PriorityLevel, Level
<1>3. QED
  BY <1>1, <1>2 DEF DecodeRsePercent, OneHotOr, PriorityOr, RseProfile, Level,
     RSE_INVALID, RSE_HOLD_LAST

(* A configured target is a natural number of watts.                       *)
LEMMA TargetType ==
    ASSUME TypeOK, NEW i \in Inverters, NEW level \in Level
    PROVE  Target(i, level) \in Nat
<1>1. setup[i] \in InverterConfig
  BY DEF TypeOK
<1>2. setup[i].rsePowerW \in [Level -> Nat] /\ setup[i].inverterLimitW \in Nat
  BY <1>1 DEF InverterConfig
<1>3. QED
  BY <1>2 DEF Target, WattsForPercent

(* The batch state and command that entering control leaves are well typed *)
(* whatever the input decodes to.                                          *)
LEMMA HandleType ==
    ASSUME TypeOK, NEW decoded \in Decoded, NEW reapply \in BOOLEAN,
           NEW next \in LoopPhase,
           HandleStableRseState(decoded, reapply, next)
    PROVE  /\ activePercent' \in Level \cup {-1}
           /\ outputHealthy' \in BOOLEAN /\ controlReapplyRequired' \in BOOLEAN
           /\ pc' \in LoopPhase \cup BatchStage \cup {"boot"}
           /\ pc' \in BatchStage => activePercent' \in Level
           /\ ret' \in LoopPhase
           /\ cur' \in Inverters
           /\ superseded' \in BOOLEAN /\ allOk' \in BOOLEAN /\ feedOk' \in BOOLEAN
           /\ result' \in Result
<1>1. 1 \in Inverters
  BY NAssumption DEF Inverters
<1>2. CASE decoded = RSE_HOLD_LAST /\ UNCHANGED <<activePercent, outputHealthy, ret, batchVars>>
            /\ controlReapplyRequired' = reapply /\ pc' = next
  BY <1>2 DEF TypeOK, batchVars, LoopPhase, BatchStage
<1>3. CASE decoded = RSE_INVALID /\ UNCHANGED <<ret, batchVars>>
            /\ controlReapplyRequired' = reapply /\ pc' = next
            /\ activePercent' = -1 /\ outputHealthy' = FALSE
  BY <1>3 DEF TypeOK, batchVars, LoopPhase, BatchStage
<1>4. CASE decoded \in Level /\ StartBatch(decoded, next)
  BY <1>1, <1>4 DEF TypeOK, StartBatch, FreshLocals, BatchStage, Result
<1>5. QED
  BY <1>2, <1>3, <1>4 DEF HandleStableRseState

LEMMA HealthType ==
    ASSUME TypeOK, NEW answered, NEW failed, UpdateHealth(answered, failed)
    PROVE  /\ inverterFailureStreak' \in [Inverters -> 0..HEALTH_FAILURE_THRESHOLD]
           /\ inverterHealthy' \in [Inverters -> BOOLEAN]
  BY DEF TypeOK, UpdateHealth, HEALTH_FAILURE_THRESHOLD

(* Sanitizing and the commands make settings of settings.                  *)
LEMMA SanitizeType ==
    ASSUME NEW c \in InverterConfig
    PROVE  Sanitize(c) \in InverterConfig
<1> DEFINE d == IF NeedsExclusion(c) THEN Excluded(c) ELSE c
<1>1. d \in InverterConfig
  BY DEF InverterConfig, Excluded
<1>2. Sanitize(c) = CapCurve(d)
  BY DEF Sanitize
<1> HIDE DEF d
<1>3. QED
  BY <1>1, <1>2 DEF CapCurve, InverterConfig

LEMMA RatingSettingsType ==
    ASSUME NEW c \in InverterConfig, NEW watts \in Nat, NEW ceiling \in Nat
    PROVE  /\ MaxSettings(c, watts) \in InverterConfig
           /\ LimitSettings(c, watts) \in InverterConfig
           /\ OffSettings(c, watts) \in InverterConfig
           /\ OnSettings(c, watts) \in InverterConfig
           /\ PendingSettings(c, watts) \in InverterConfig
           /\ RatedSettings(c, watts, ceiling) \in InverterConfig
<1>1. MaxSettings(c, watts) \in InverterConfig
  BY DEF MaxSettings, InverterConfig
<1>2. \A d \in InverterConfig, w \in Nat : LimitSettings(d, w) \in InverterConfig
  BY DEF LimitSettings, InverterConfig
<1>3. OffSettings(c, watts) \in InverterConfig
  BY DEF OffSettings, InverterConfig
<1>4. OnSettings(c, watts) \in InverterConfig
  BY DEF OnSettings, InverterConfig
<1>5. PendingSettings(c, watts) \in InverterConfig
  BY <1>4 DEF PendingSettings, InverterConfig
<1>6. QED
  BY <1>1, <1>2, <1>3, <1>4, <1>5 DEF RatedSettings

LEMMA CurveSettingsType ==
    ASSUME NEW c \in InverterConfig, NEW curve \in [Level -> Nat],
           NEW mask \in SUBSET Level
    PROVE  /\ RseCfgSettings(c, curve, mask) \in InverterConfig
           /\ RejectedSettings(c, curve) \in InverterConfig
<1>1. RseCfgSettings(c, curve, mask) \in InverterConfig
  BY DEF RseCfgSettings, InverterConfig
<1> DEFINE mixed == [l \in Level |->
               IF \A bad \in OutOfRange(c, curve) : bad < l
               THEN curve[l] ELSE c.rsePowerW[l]]
<1>2. mixed \in [Level -> Nat]
  BY DEF InverterConfig
<1>3. RejectedSettings(c, curve) = [c EXCEPT !.rsePowerW = mixed]
  BY DEF RejectedSettings
<1> HIDE DEF mixed
<1>4. QED
  BY <1>1, <1>2, <1>3 DEF InverterConfig

LEMMA ChangeType ==
    ASSUME TypeOK, NEW settings \in [Inverters -> InverterConfig],
           Change(settings) \/ Save(settings)
    PROVE  /\ setup' \in [Inverters -> InverterConfig]
           /\ Save(settings) => saved' \in [Inverters -> InverterConfig]
           /\ unjudged' \in SUBSET Inverters
<1>1. [i \in Inverters |-> Sanitize(settings[i])] \in [Inverters -> InverterConfig]
  BY SanitizeType
<1>2. QED
  BY <1>1 DEF Change, Save, TypeOK

LEMMA BudgetType ==
    ASSUME TypeOK
    PROVE  /\ \A kind : Disturb(kind) => budget' \in Budget
           /\ \A faulty \in BOOLEAN : PayFault(faulty) => budget' \in Budget
  BY SetAssumption DEF TypeOK, Disturb, PayFault, Budget

LEMMA NoCommitType == NoCommit \in Commit
<1>1. 1 \in Inverters
  BY NAssumption DEF Inverters
<1>2. QED
  BY <1>1 DEF NoCommit, Commit

-----------------------------------------------------------------------------
(* Every reachable state is well typed.                                    *)

LEMMA InitType == Init => TypeOK
<1> SUFFICES ASSUME Init PROVE TypeOK
  OBVIOUS
<1>1. 1 \in Inverters
  BY NAssumption DEF Inverters
<1>2. {} \in Mask /\ contacts \in Mask /\ profile \in RseProfile
  BY SetAssumption DEF Init, Mask
<1>3. /\ setup \in [Inverters -> InverterConfig] /\ saved \in [Inverters -> InverterConfig]
      /\ commit \in Commit /\ unjudged \in SUBSET Inverters
  BY SettingsAssumption, NoCommitType DEF Init
<1>8. power \in [Inverters -> Nat] /\ feed \in [Inverters -> BOOLEAN]
  BY <1>3 DEF Init, InverterConfig
<1>4. budget \in Budget
  BY SetAssumption DEF Init, Budget
<1>5. /\ inverterAtTarget \in [Inverters -> BOOLEAN]
      /\ inverterHealthy \in [Inverters -> BOOLEAN]
      /\ inverterFailureStreak \in [Inverters -> 0..HEALTH_FAILURE_THRESHOLD]
  BY DEF Init, HEALTH_FAILURE_THRESHOLD
<1>6. /\ pc = "boot" /\ ret \in LoopPhase /\ pc \notin BatchStage
      /\ result \in Result /\ age \in 0..2
  BY DEF Init, LoopPhase, BatchStage, Result
<1>7. QED
  BY <1>1, <1>2, <1>3, <1>4, <1>5, <1>6, <1>8 DEF Init, TypeOK

(* Every stage of a batch keeps the types.                                 *)
LEMMA BatchType == TypeOK /\ Batch => TypeOK'
<1> SUFFICES ASSUME TypeOK, Batch PROVE TypeOK'
  OBVIOUS
<1> USE DEF inputVars, configVars, testVars, deviceVars, statusVars, flagVars, batchVars
<1>a. ASSUME NextSlot PROVE pc' \in {"check", "finish"} /\ cur' \in Inverters
  BY <1>a, NAssumption DEF TypeOK, NextSlot, Inverters
<1>1. CASE BatchSkip
  BY <1>1, <1>a DEF BatchSkip, TypeOK, BatchStage
<1>2. CASE BatchCheck
  BY <1>2 DEF BatchCheck, TypeOK, BatchStage, Result
<1>3. CASE BatchFeedOff
  <2>1. PICK outcome \in FeedPermissionOutcomes(cur, FALSE, FALSE) :
            SetFeedPermission(cur, outcome) /\ feedOk' = outcome.ok
    BY <1>3 DEF BatchFeedOff
  <2>2. outcome.ok \in BOOLEAN /\ outcome.feed \in BOOLEAN /\ outcome.fault \in BOOLEAN
    BY <2>1 DEF FeedPermissionOutcomes, BitCommandOutcomes, TypeOK
  <2>3. budget' \in Budget
    BY <2>1, <2>2, BudgetType DEF SetFeedPermission
  <2>4. feed' \in [Inverters -> BOOLEAN] /\ feedOk' \in BOOLEAN
    BY <2>1, <2>2 DEF SetFeedPermission, TypeOK
  <2>5. QED
    BY <1>3, <2>3, <2>4 DEF BatchFeedOff, TypeOK, BatchStage
<1>4. CASE BatchPreWrite
  <2>1. budget' \in Budget
    BY <1>4, BudgetType DEF BatchPreWrite, TypeOK
  <2>2. result' \in Result /\ superseded' \in BOOLEAN /\ pc' \in BatchStage
    BY <1>4 DEF BatchPreWrite, Result, BatchStage, NewerInput, TypeOK
  <2>3. QED
    BY <1>4, <2>1, <2>2 DEF BatchPreWrite, TypeOK, BatchStage
<1>5. CASE BatchWrite
  <2>1. budget' \in Budget
    BY <1>5, BudgetType DEF BatchWrite, TypeOK
  <2>2. Target(cur, activePercent) \in Nat
    BY <1>5, TargetType DEF BatchWrite, TypeOK, BatchStage
  <2>3. power' \in [Inverters -> Nat]
    BY <1>5, <2>2, SetAssumption DEF BatchWrite, TypeOK
  <2>4. QED
    BY <1>5, <2>1, <2>3 DEF BatchWrite, TypeOK, Result, BatchStage
<1>6. CASE BatchFeed
  <2>1. /\ feed' \in [Inverters -> BOOLEAN] /\ feedOk' \in BOOLEAN
        /\ budget' \in Budget
    <3>1. ASSUME NEW want \in BOOLEAN, NEW blind \in BOOLEAN,
                 NEW outcome \in FeedPermissionOutcomes(cur, want, blind),
                 SetFeedPermission(cur, outcome)
          PROVE  /\ feed' \in [Inverters -> BOOLEAN] /\ outcome.ok \in BOOLEAN
                 /\ budget' \in Budget
      <4>1. outcome.ok \in BOOLEAN /\ outcome.feed \in BOOLEAN /\ outcome.fault \in BOOLEAN
        BY DEF FeedPermissionOutcomes, BitCommandOutcomes, TypeOK
      <4>2. QED
        BY <3>1, <4>1, BudgetType DEF SetFeedPermission, TypeOK
    <3>2. QED
      BY <1>6, <3>1 DEF BatchFeed, TypeOK
  <2>2. /\ inverterFailureStreak' \in [Inverters -> 0..HEALTH_FAILURE_THRESHOLD]
        /\ inverterHealthy' \in [Inverters -> BOOLEAN]
    BY <1>6, HealthType DEF BatchFeed
  <2>3. VerifiedAtTarget(feedOk') \in BOOLEAN
    BY <2>1 DEF VerifiedAtTarget
  <2>4. inverterAtTarget' \in [Inverters -> BOOLEAN] /\ allOk' \in BOOLEAN
    BY <1>6, <2>1, <2>3 DEF BatchFeed, TypeOK
  <2>5. QED
    BY <1>6, <2>1, <2>2, <2>4 DEF BatchFeed, TypeOK, BatchStage
<1>7. CASE BatchGap
  BY <1>7, <1>a DEF BatchGap, TypeOK, BatchStage, NewerInput
<1>8. CASE BatchFinish
  <2>1. 1 \in Inverters
    BY NAssumption DEF Inverters
  <2>2. QED
    BY <1>8, <2>1 DEF BatchFinish, FreshLocals, TypeOK, BatchStage, LoopPhase, Result
<1>9. QED
  BY <1>1, <1>2, <1>3, <1>4, <1>5, <1>6, <1>7, <1>8 DEF Batch

(* The same for the return from TEST, SAFE or another profile.             *)
LEMMA ReturnType ==
    ASSUME TypeOK, NEW p \in RseProfile, NEW next \in LoopPhase,
           ReturnToPhysicalRse(p, next),
           contacts' = contacts, profile' \in RseProfile, dryRun' \in BOOLEAN,
           setup' \in [Inverters -> InverterConfig],
           saved' \in [Inverters -> InverterConfig],
           commit' \in Commit, unjudged' \in SUBSET Inverters,
           power' \in [Inverters -> Nat],
           inverterHealthy' \in [Inverters -> BOOLEAN],
           inverterFailureStreak' \in [Inverters -> 0..HEALTH_FAILURE_THRESHOLD],
           budget' \in Budget,
           UNCHANGED <<feed, inverterAtTarget, periodicReadCursor>>
    PROVE  TypeOK'
<1>1. DecodeRsePercent(contacts, p) \in Decoded /\ controlReapplyRequired \in BOOLEAN
  BY DecodeType DEF TypeOK
<1>2. HandleStableRseState(DecodeRsePercent(contacts, p), controlReapplyRequired, next)
  BY DEF ReturnToPhysicalRse
<1>3. /\ activePercent' \in Level \cup {-1}
      /\ outputHealthy' \in BOOLEAN /\ controlReapplyRequired' \in BOOLEAN
      /\ pc' \in LoopPhase \cup BatchStage \cup {"boot"}
      /\ pc' \in BatchStage => activePercent' \in Level
      /\ ret' \in LoopPhase /\ cur' \in Inverters
      /\ superseded' \in BOOLEAN /\ allOk' \in BOOLEAN /\ feedOk' \in BOOLEAN
      /\ result' \in Result
  BY <1>1, <1>2, HandleType
<1>4. /\ contacts' \in Mask /\ rawRseMask' \in Mask /\ stableRseMask' \in Mask
      /\ age' \in 0..2 /\ manualTestActive' \in BOOLEAN /\ testDue' \in BOOLEAN
  <2>1. contacts \in Mask
    BY DEF TypeOK
  <2>2. age' = 0
    BY DEF ReturnToPhysicalRse
  <2>3. age' \in 0..2
    BY <2>2
  <2>4. rawRseMask' \in Mask /\ stableRseMask' \in Mask
    BY <2>1 DEF ReturnToPhysicalRse
  <2>5. contacts' \in Mask
    BY <2>1
  <2>6. manualTestActive' \in BOOLEAN /\ testDue' \in BOOLEAN
    BY DEF ReturnToPhysicalRse
  <2>7. QED
    BY <2>3, <2>4, <2>5, <2>6
<1>5. QED
  BY <1>3, <1>4 DEF TypeOK

(* A command that leaves settings behind, saved or not.                    *)
LEMMA SettingsOnlyType ==
    ASSUME TypeOK, SettingsOnly, pc = "usb", budget' \in Budget,
           setup' \in [Inverters -> InverterConfig],
           saved' \in [Inverters -> InverterConfig],
           unjudged' \in SUBSET Inverters
    PROVE  TypeOK'
  BY DEF SettingsOnly, TypeOK, inputVars, testVars, deviceVars, flagVars, batchVars

LEMMA ConfigureType ==
    ASSUME TypeOK, NEW i \in Inverters, NEW c \in InverterConfig, Configure(i, c),
           pc = "usb", budget' \in Budget
    PROVE  TypeOK'
<1> DEFINE settings == [setup EXCEPT ![i] = c]
<1>1. settings \in [Inverters -> InverterConfig]
  BY DEF TypeOK
<1>2. Save(settings) /\ SettingsOnly
  BY DEF Configure
<1> HIDE DEF settings
<1>3. QED
  BY <1>1, <1>2, ChangeType, SettingsOnlyType

(* The commands that set an inverter up keep the types.                    *)
LEMMA SetupType == TypeOK /\ UsbSetup => TypeOK'
<1> SUFFICES ASSUME TypeOK, NEW i \in Inverters,
                    \/ \E watts \in Watts :
                           \/ UsbMax(i, watts) \/ UsbLimit(i, watts)
                           \/ UsbCommitOff(i, watts) \/ UsbCommitRated(i, watts)
                           \/ UsbCommitDeferred(i, watts) \/ UsbCommitStart(i, watts)
                    \/ \E curve \in Curves :
                           \/ UsbRseCfgRejected(i, curve)
                           \/ \E mask \in FeedMasks : UsbRseCfg(i, curve, mask)
             PROVE  TypeOK'
  BY DEF UsbSetup
<1>a. setup[i] \in InverterConfig /\ setup \in [Inverters -> InverterConfig]
  BY DEF TypeOK
<1>b. \A command : Usb(command) => budget' \in Budget /\ pc = "usb"
  BY BudgetType DEF Usb
<1>1. ASSUME NEW watts \in Watts,
             \/ UsbMax(i, watts) \/ UsbLimit(i, watts) \/ UsbCommitOff(i, watts)
             \/ UsbCommitRated(i, watts) \/ UsbCommitDeferred(i, watts)
      PROVE  TypeOK'
  <2>1. watts \in Nat
    BY SettingsAssumption
  <2>2. PICK c \in InverterConfig : Configure(i, c)
    BY <1>1, <1>a, <2>1, RatingSettingsType
    DEF UsbMax, UsbLimit, UsbCommitOff, UsbCommitRated, UsbCommitDeferred
  <2>3. budget' \in Budget /\ pc = "usb"
    BY <1>1, <1>b
    DEF UsbMax, UsbLimit, UsbCommitOff, UsbCommitRated, UsbCommitDeferred
  <2>4. QED
    BY <2>2, <2>3, ConfigureType
<1>2. ASSUME NEW watts \in Watts, UsbCommitStart(i, watts) PROVE TypeOK'
  <2>1. commit' \in Commit
    BY <1>2, NoCommitType, SettingsAssumption DEF UsbCommitStart, Commit
  <2>2. QED
    BY <1>2, <1>b, <2>1 DEF UsbCommitStart, TypeOK, CommitStage, BatchStage, inputVars,
       testVars, deviceVars, statusVars, flagVars, batchVars
<1>3. ASSUME NEW curve \in Curves, NEW mask \in FeedMasks, UsbRseCfg(i, curve, mask)
      PROVE  TypeOK'
  <2>1. curve \in [Level -> Nat] /\ mask \in SUBSET Level
    BY SettingsAssumption
  <2>2. RseCfgSettings(setup[i], curve, mask) \in InverterConfig
    BY <1>a, <2>1, CurveSettingsType
  <2>3. QED
    BY <1>3, <1>b, <2>2, ConfigureType DEF UsbRseCfg
<1>4. ASSUME NEW curve \in Curves, UsbRseCfgRejected(i, curve) PROVE TypeOK'
  <2> DEFINE settings == [setup EXCEPT ![i] = RejectedSettings(setup[i], curve)]
  <2>1. curve \in [Level -> Nat]
    BY SettingsAssumption
  <2>2. settings \in [Inverters -> InverterConfig]
    BY <1>a, <2>1, CurveSettingsType
  <2>3. Change(settings) /\ saved' = saved /\ SettingsOnly
    BY <1>4 DEF UsbRseCfgRejected
  <2> HIDE DEF settings
  <2>4. setup' \in [Inverters -> InverterConfig] /\ unjudged' \in SUBSET Inverters
    BY <2>2, <2>3, ChangeType
  <2>5. saved' \in [Inverters -> InverterConfig]
    BY <2>3 DEF TypeOK
  <2>6. budget' \in Budget /\ pc = "usb"
    BY <1>4, <1>b DEF UsbRseCfgRejected
  <2>7. QED
    BY <2>3, <2>4, <2>5, <2>6, SettingsOnlyType
<1>5. QED
  BY <1>1, <1>2, <1>3, <1>4

(* The stages of a commit keep the types.                                  *)
LEMMA CommitType == TypeOK /\ CommitStep => TypeOK'
<1> SUFFICES ASSUME TypeOK, CommitStep PROVE TypeOK'
  OBVIOUS
<1> USE DEF inputVars, testVars, deviceVars, statusVars, flagVars, batchVars, CommitOf
<1>a. /\ commit \in Commit /\ commit.inverter \in Inverters /\ commit.watts \in Nat
      /\ commit.before \in Nat /\ commit.read \in Nat
      /\ power \in [Inverters -> Nat] /\ power[CommitOf] \in Nat
      /\ setup \in [Inverters -> InverterConfig]
      /\ setup[CommitOf] \in InverterConfig
  BY DEF TypeOK, Commit
<1>b. \A faulty \in BOOLEAN : PayFault(faulty) => budget' \in Budget
  BY BudgetType
<1>c. ASSUME NEW i \in Inverters, NEW left \in Nat, WriteRegister(i, left)
      PROVE  power' \in [Inverters -> Nat] /\ unjudged' \in SUBSET Inverters
  BY <1>c DEF WriteRegister, TypeOK
<1>d. ASSUME NEW c \in InverterConfig, Save([setup EXCEPT ![CommitOf] = c])
      PROVE  /\ setup' \in [Inverters -> InverterConfig]
             /\ saved' \in [Inverters -> InverterConfig]
             /\ unjudged' \in SUBSET Inverters
  <2>1. [setup EXCEPT ![CommitOf] = c] \in [Inverters -> InverterConfig]
    BY <1>a
  <2>2. QED
    BY <1>d, <2>1, ChangeType
<1>e. CommitEnds => commit' \in Commit /\ pc' = "usb"
  BY NoCommitType DEF CommitEnds
<1>1. CASE CommitRead
  <2>1. commit' \in Commit
    BY <1>1, <1>a DEF CommitRead, Commit
  <2>2. QED
    BY <1>1, <2>1 DEF CommitRead, TypeOK, CommitStage, BatchStage
<1>2. CASE CommitUnread
  <2>1. PendingSettings(setup[CommitOf], commit.watts) \in InverterConfig
    BY <1>a, RatingSettingsType
  <2>2. /\ setup' \in [Inverters -> InverterConfig]
        /\ saved' \in [Inverters -> InverterConfig]
        /\ unjudged' \in SUBSET Inverters
    BY <1>2, <1>d, <2>1 DEF CommitUnread, TypeOK
  <2>3. budget' \in Budget
    BY <1>2, <1>b DEF CommitUnread
  <2>4. QED
    BY <1>2, <1>e, <2>2, <2>3 DEF CommitUnread, TypeOK, LoopPhase, BatchStage
<1>3. CASE CommitWrite
  <2> DEFINE want == ValidationWatts(commit.watts)
  <2>1. want \in Nat
    BY <1>a, RulesAssumption DEF ValidationWatts
  <2>2. PICK left \in {want, power[CommitOf]} \cup ForeignWatts, read \in Nat :
            /\ PayFault(read # left \/ left \notin {want} \cup ForeignWatts)
            /\ WriteRegister(CommitOf, left)
            /\ commit' = [commit EXCEPT !.read = read]
    BY <1>3, <1>a, <2>1, SetAssumption DEF CommitWrite
  <2>3. left \in Nat
    BY <1>a, <2>1, <2>2, SetAssumption
  <2>4. power' \in [Inverters -> Nat] /\ unjudged' \in SUBSET Inverters
    BY <1>a, <1>c, <2>2, <2>3
  <2>5. budget' \in Budget
    <3>1. (read # left \/ left \notin {want} \cup ForeignWatts) \in BOOLEAN
      OBVIOUS
    <3>2. QED
      BY <1>b, <2>2, <3>1
  <2>6. commit' \in Commit
    BY <1>a, <2>2, <2>3 DEF Commit
  <2>7. QED
    BY <1>3, <2>4, <2>5, <2>6 DEF CommitWrite, TypeOK, CommitStage, BatchStage
<1>4. CASE CommitAccepted
  <2>1. RatedSettings(setup[CommitOf], commit.watts, commit.read) \in InverterConfig
    BY <1>a, RatingSettingsType
  <2>2. /\ setup' \in [Inverters -> InverterConfig]
        /\ saved' \in [Inverters -> InverterConfig]
        /\ unjudged' \in SUBSET Inverters
    BY <1>4, <1>d, <2>1 DEF CommitAccepted
  <2>3. inverterAtTarget' \in [Inverters -> BOOLEAN]
    BY <1>4 DEF CommitAccepted, TypeOK
  <2>4. QED
    BY <1>4, <1>e, <2>2, <2>3 DEF CommitAccepted, TypeOK, LoopPhase, BatchStage
<1>5. CASE CommitRejected
  <2>1. commit' \in Commit
    <3>1. MayValidate \in BOOLEAN
      BY DEF MayValidate, MayValidateInverterRating, TypeOK
    <3>2. QED
      BY <1>5, <1>a, <3>1 DEF CommitRejected, Commit
  <2>2. budget' \in Budget
    <3>1. (MayValidate /\ commit.read > 0) \in BOOLEAN
      OBVIOUS
    <3>2. QED
      BY <1>5, <1>b, <3>1 DEF CommitRejected
  <2>3. QED
    BY <1>5, <2>1, <2>2 DEF CommitRejected, TypeOK, CommitStage, BatchStage
<1>6. CASE CommitRestore
  <2>1. PICK left \in {commit.before, power[CommitOf]} \cup ForeignWatts :
            WriteRegister(CommitOf, left)
    BY <1>6 DEF CommitRestore
  <2>2. power' \in [Inverters -> Nat] /\ unjudged' \in SUBSET Inverters
    BY <1>a, <1>c, <2>1, SetAssumption
  <2>3. budget' \in Budget
    BY <1>6, <1>b DEF CommitRestore, TypeOK
  <2>4. /\ inverterHealthy' \in [Inverters -> BOOLEAN]
        /\ inverterFailureStreak' \in [Inverters -> 0..HEALTH_FAILURE_THRESHOLD]
    BY <1>6, HealthType DEF CommitRestore, TypeOK
  <2>5. /\ commit' \in Commit
        /\ UNCHANGED <<contacts, profile, dryRun, setup, saved, feed, inverterAtTarget,
                       periodicReadCursor>>
    BY <1>6, NoCommitType DEF CommitRestore
  <2>6. CASE ReturnToPhysicalRse(profile, "usb")
    <3>1. profile' \in RseProfile /\ dryRun' \in BOOLEAN /\ profile \in RseProfile
          /\ setup' \in [Inverters -> InverterConfig]
          /\ saved' \in [Inverters -> InverterConfig] /\ "usb" \in LoopPhase
      BY <2>5 DEF TypeOK, LoopPhase
    <3>2. QED
      BY <2>2, <2>3, <2>4, <2>5, <2>6, <3>1, ReturnType
  <2>7. CASE /\ pc' = "usb"
             /\ UNCHANGED <<rawRseMask, stableRseMask, age, activePercent,
                            outputHealthy, controlReapplyRequired, testVars, ret,
                            batchVars>>
    BY <2>2, <2>3, <2>4, <2>5, <2>7 DEF TypeOK, LoopPhase, BatchStage
  <2>8. QED
    BY <1>6, <2>6, <2>7 DEF CommitRestore
<1>7. QED
  BY <1>1, <1>2, <1>3, <1>4, <1>5, <1>6 DEF CommitStep

(* Every USB command keeps the types.                                      *)
LEMMA UsbType == TypeOK /\ UsbCommand => TypeOK'
<1> SUFFICES ASSUME TypeOK, UsbCommand PROVE TypeOK'
  OBVIOUS
<1> USE DEF inputVars, configVars, testVars, deviceVars, statusVars, flagVars, batchVars
<1>a. "usb" \in LoopPhase /\ {} \in Mask
  BY DEF LoopPhase, Mask
<1>b. \A command : Usb(command) => budget' \in Budget /\ pc = "usb"
  BY BudgetType DEF Usb
<1>c. \A m \in Mask, p \in RseProfile : DecodeRsePercent(m, p) \in Decoded
  BY DecodeType
<1>1. ASSUME NEW level \in Level, UsbTest(level) PROVE TypeOK'
  <2>1. 1 \in Inverters
    BY NAssumption DEF Inverters
  <2>2. QED
    BY <1>1, <1>a, <1>b, <2>1 DEF UsbTest, StartBatch, FreshLocals, TypeOK, BatchStage, Result
<1>2. CASE UsbApply
  <2>0. controlReapplyRequired \in BOOLEAN
    BY DEF TypeOK
  <2>1. DecodeRsePercent(stableRseMask, profile) \in Decoded
    BY <1>c DEF TypeOK
  <2>2. QED
    BY <1>2, <1>a, <1>b, <2>1, <2>0, HandleType DEF UsbApply, TypeOK
<1>d. ASSUME Save(setup)
      PROVE  /\ setup' \in [Inverters -> InverterConfig]
             /\ saved' \in [Inverters -> InverterConfig]
             /\ unjudged' \in SUBSET Inverters
  BY <1>d, ChangeType DEF TypeOK
<1>e. /\ profile \in RseProfile /\ dryRun \in BOOLEAN /\ commit \in Commit
      /\ power \in [Inverters -> Nat] /\ inverterHealthy \in [Inverters -> BOOLEAN]
      /\ inverterFailureStreak \in [Inverters -> 0..HEALTH_FAILURE_THRESHOLD]
  BY DEF TypeOK
<1>3. CASE UsbDryRunOn
  BY <1>3, <1>b, <1>d DEF UsbDryRunOn, TypeOK
<1>4. CASE UsbDryRunOff
  <2>1. ReturnToPhysicalRse(profile, "usb") /\ Save(setup)
    BY <1>4 DEF UsbDryRunOff
  <2>2. QED
    BY <1>4, <1>a, <1>b, <1>d, <1>e, <2>1, ReturnType DEF UsbDryRunOff
<1>5. ASSUME NEW requested \in Profiles, UsbProfile(requested) PROVE TypeOK'
  <2>1. requested \in RseProfile /\ ReturnToPhysicalRse(requested, "usb") /\ Save(setup)
    BY <1>5, SetAssumption DEF UsbProfile
  <2>2. QED
    BY <1>5, <1>a, <1>b, <1>d, <1>e, <2>1, ReturnType DEF UsbProfile
<1>6. ASSUME NEW i \in Inverters, NEW on \in BOOLEAN, UsbId(i, on) PROVE TypeOK'
  <2>0. setup[i] \in InverterConfig
    BY DEF TypeOK
  <2>1. [setup[i] EXCEPT !.enabled = on] \in InverterConfig
    BY <2>0 DEF InverterConfig
  <2>2. QED
    BY <1>6, <1>b, <2>1, ConfigureType DEF UsbId
<1>7. CASE UsbProbeAll
  <2>1. PICK asked \in {Enabled, Inverters} : UsbProbe(asked)
    BY <1>7 DEF UsbProbeAll
  <2>2. PICK silent \in SUBSET asked : UpdateHealth(asked \ silent, silent)
    BY <2>1 DEF UsbProbe
  <2>3. outputHealthy' \in BOOLEAN
    BY <2>1 DEF UsbProbe, RefreshOutputHealth, TypeOK
  <2>4. QED
    BY <2>1, <1>b, <2>2, <2>3, HealthType DEF UsbProbe, TypeOK
<1>8. ASSUME NEW i \in Inverters, UsbProbeOne(i) PROVE TypeOK'
  <2>1. UpdateHealth({i}, {}) \/ UpdateHealth({}, {i})
    BY <1>8 DEF UsbProbeOne
  <2>2. QED
    BY <1>8, <1>b, <2>1, HealthType DEF UsbProbeOne, TypeOK
<1>9. QED
  BY <1>1, <1>2, <1>3, <1>4, <1>5, <1>6, <1>7, <1>8, SetupType DEF UsbCommand

(* So does every phase of loop(), and the start of control.                *)
LEMMA LoopType == TypeOK /\ Loop => TypeOK'
<1> SUFFICES ASSUME TypeOK, Loop PROVE TypeOK'
  OBVIOUS
<1> USE DEF inputVars, configVars, testVars, deviceVars, statusVars, flagVars, batchVars
<1>a. {"usb", "rse", "poll"} \subseteq LoopPhase /\ FALSE \in BOOLEAN
  BY DEF LoopPhase
<1>b. /\ DecodeRsePercent(contacts, profile) \in Decoded
      /\ DecodeRsePercent(rawRseMask, profile) \in Decoded
      /\ DecodeRsePercent(stableRseMask, profile) \in Decoded
  BY DecodeType DEF TypeOK
<1>c. ASSUME NEW from, NEW to \in LoopPhase, GoTo(from, to) PROVE TypeOK'
  BY <1>c DEF GoTo, TypeOK, LoopPhase, BatchStage
<1>1. CASE StartInverterControl
  <2>1. PICK silent \in SUBSET Enabled :
            PayFault(silent # {}) /\ UpdateHealth(Enabled \ silent, silent)
    BY <1>1 DEF StartInverterControl
  <2>2. budget' \in Budget
    BY <2>1, BudgetType
  <2>3. QED
    BY <1>1, <1>a, <1>b, <2>1, <2>2, HealthType, HandleType
    DEF StartInverterControl, TypeOK
<1>2. CASE UsbIdle \/ NoExpiry \/ RseIdle \/ PollNotDue
  BY <1>2, <1>c DEF UsbIdle, NoExpiry, RseIdle, PollNotDue, LoopPhase
<1>3. CASE TestExpires
  <2>1. ReturnToPhysicalRse(profile, "rse")
    BY <1>3 DEF TestExpires
  <2>2. /\ profile' \in RseProfile /\ dryRun' \in BOOLEAN /\ budget' \in Budget
        /\ setup' \in [Inverters -> InverterConfig] /\ commit' \in Commit
        /\ saved' \in [Inverters -> InverterConfig] /\ unjudged' \in SUBSET Inverters
        /\ power' \in [Inverters -> Nat] /\ inverterHealthy' \in [Inverters -> BOOLEAN]
        /\ inverterFailureStreak' \in [Inverters -> 0..HEALTH_FAILURE_THRESHOLD]
        /\ profile \in RseProfile
        /\ UNCHANGED <<contacts, feed, inverterAtTarget, periodicReadCursor>>
    BY <1>3 DEF TestExpires, TypeOK
  <2>3. QED
    BY <1>a, <2>1, <2>2, ReturnType
<1>4. CASE RseTransition
  BY <1>4, <1>a, <1>b, HandleType DEF RseTransition, TypeOK
<1>5. CASE RseReapply
  BY <1>5, <1>a, <1>b, HandleType DEF RseReapply, TypeOK
<1>6. CASE PollNext
  <2>1. PICK i \in Controlled, powerOk \in BOOLEAN, feedReadOk \in BOOLEAN :
            /\ PayFault(~(powerOk /\ feedReadOk))
            /\ IF powerOk /\ (~dryRun /\ activePercent >= 0)
               THEN /\ inverterAtTarget' = [inverterAtTarget EXCEPT
                           ![i] = feedReadOk /\ OnTarget(i, activePercent)]
                    /\ unjudged' = unjudged \ {i}
               ELSE UNCHANGED <<inverterAtTarget, unjudged>>
            /\ IF powerOk /\ feedReadOk THEN UpdateHealth({i}, {})
               ELSE UpdateHealth({}, {i})
            /\ periodicReadCursor' = IF i = N THEN 1 ELSE i + 1
    BY <1>6 DEF PollNext
  <2>2. i \in Inverters
    BY DEF Controlled, Enabled
  <2>3. /\ budget' \in Budget
        /\ inverterFailureStreak' \in [Inverters -> 0..HEALTH_FAILURE_THRESHOLD]
        /\ inverterHealthy' \in [Inverters -> BOOLEAN]
    BY <2>1, BudgetType, HealthType
  <2>4. inverterAtTarget' \in [Inverters -> BOOLEAN] /\ unjudged' \in SUBSET Inverters
    <3>1. (feedReadOk /\ OnTarget(i, activePercent)) \in BOOLEAN
      BY DEF OnTarget
    <3>2. QED
      BY <2>1, <2>2, <3>1 DEF TypeOK
  <2>5. periodicReadCursor' \in Inverters
    BY <2>1, <2>2, NAssumption DEF Inverters
  <2>6. outputHealthy' \in BOOLEAN
    BY <1>6 DEF PollNext, RefreshOutputHealth, TypeOK
  <2>7. pc' = "usb" /\ "usb" \in LoopPhase /\ "usb" \notin BatchStage
    BY <1>6 DEF PollNext, LoopPhase, BatchStage
  <2>8. QED
    BY <1>6, <2>3, <2>4, <2>5, <2>6, <2>7 DEF PollNext, TypeOK
<1>7. QED
  BY <1>1, <1>2, <1>3, <1>4, <1>5, <1>6, BatchType, CommitType DEF Loop

(* A restart with whatever budget leaves well-typed RAM.                   *)
LEMMA RestartType == ASSUME TypeOK, Restarts, budget' \in Budget PROVE TypeOK'
<1> USE DEF Restarts, FreshLocals
<1>1. 1 \in Inverters /\ {} \in Mask
  BY NAssumption DEF Inverters, Mask
<1>2. /\ inverterAtTarget' \in [Inverters -> BOOLEAN]
      /\ inverterHealthy' \in [Inverters -> BOOLEAN]
      /\ inverterFailureStreak' \in [Inverters -> 0..HEALTH_FAILURE_THRESHOLD]
  BY DEF HEALTH_FAILURE_THRESHOLD
<1>3. /\ pc' = "boot" /\ ret' \in LoopPhase /\ pc' \notin BatchStage
      /\ result' \in Result
  BY DEF LoopPhase, BatchStage, Result
<1>4. /\ rawRseMask' \in Mask /\ stableRseMask' \in Mask /\ age' \in 0..2
      /\ periodicReadCursor' \in Inverters /\ cur' \in Inverters
      /\ activePercent' \in Level \cup {-1}
  BY <1>1
<1>5. /\ outputHealthy' \in BOOLEAN /\ controlReapplyRequired' \in BOOLEAN
      /\ manualTestActive' \in BOOLEAN /\ testDue' \in BOOLEAN
      /\ superseded' \in BOOLEAN /\ allOk' \in BOOLEAN /\ feedOk' \in BOOLEAN
  OBVIOUS
<1>6. /\ UNCHANGED <<contacts, profile, dryRun, saved, power, feed>>
      /\ setup' = saved /\ commit' \in Commit /\ unjudged' = {}
  BY NoCommitType DEF deviceVars
<1>7. QED
  BY <1>2, <1>3, <1>4, <1>5, <1>6 DEF TypeOK

(* And so do the clock and the environment.                                *)
LEMMA OutsideType == TypeOK /\ (Time \/ Environment) => TypeOK'
<1> SUFFICES ASSUME TypeOK, Time \/ Environment PROVE TypeOK'
  OBVIOUS
<1> USE DEF inputVars, configVars, testVars, deviceVars, statusVars, flagVars, batchVars
<1>1. CASE SampleInputs
  BY <1>1 DEF SampleInputs, TypeOK
<1>2. CASE ClockTick
  BY <1>2 DEF ClockTick, TypeOK
<1>3. CASE TestDeadline
  BY <1>3 DEF TestDeadline, TypeOK
<1>a. CASE ClockWrap
  BY <1>a, BudgetType DEF ClockWrap, TypeOK
<1>4. CASE ContactsChange
  BY <1>4, BudgetType, SetAssumption DEF ContactsChange, TypeOK
<1>5. CASE Reboot
  BY <1>5, BudgetType, RestartType DEF Reboot
<1>6. ASSUME NEW i \in Inverters, ForeignWrite(i) PROVE TypeOK'
  <2>1. budget' \in Budget
    BY <1>6, BudgetType DEF ForeignWrite
  <2>2. power' \in [Inverters -> Nat]
    BY <1>6, SetAssumption DEF ForeignWrite, TypeOK
  <2>3. feed' \in [Inverters -> BOOLEAN]
    BY <1>6 DEF ForeignWrite, TypeOK
  <2>4. QED
    BY <1>6, <2>1, <2>2, <2>3 DEF ForeignWrite, TypeOK
<1>7. QED
  BY <1>a, <1>1, <1>2, <1>3, <1>4, <1>5, <1>6 DEF Time, Environment

(* TypeOK is an invariant of the control core for every installation: in   *)
(* particular a running batch always has a level to write.                 *)
THEOREM TypeInvariant == Spec => []TypeOK
<1>1. TypeOK /\ UNCHANGED vars => TypeOK'
  BY DEF vars, inputVars, configVars, testVars, deviceVars, statusVars,
         flagVars, batchVars, TypeOK
<1>2. TypeOK /\ [Next]_vars => TypeOK'
  BY <1>1, UsbType, LoopType, OutsideType DEF Next
<1>3. QED
  BY <1>2, InitType, PTL DEF Spec

-----------------------------------------------------------------------------
(* The commanded level and the debounced input.                            *)

NoTestAtBoot == pc = "boot" => ~manualTestActive

CommandInv == NoTestAtBoot /\ TestNeverRelaxes /\ ActiveIsPhysical

commandVars == <<stableRseMask, profile, dryRun, manualTestActive,
                 activePercent, controlReapplyRequired>>

(* Entering control commands the level of the mask it was entered with,    *)
(* unless the profile holds the last one.                                  *)
LEMMA HandleCommand ==
    ASSUME NEW mask \in Mask, NEW p \in RseProfile, NEW reapply \in BOOLEAN,
           NEW next \in LoopPhase,
           HandleStableRseState(DecodeRsePercent(mask, p), reapply, next)
    PROVE  /\ pc' # "boot"
           /\ p # "EweHold4" =>
                 activePercent' = (IF DecodeRsePercent(mask, p) \in Level
                                   THEN DecodeRsePercent(mask, p) ELSE -1)
           /\ DecodeRsePercent(mask, p) >= 0 =>
                 activePercent' = DecodeRsePercent(mask, p)
<1>1. DecodeRsePercent(mask, p) \in Decoded
  BY DecodeType
<1>2. p # "EweHold4" => DecodeRsePercent(mask, p) # RSE_HOLD_LAST
  BY OnlyEweHolds
<1>3. QED
  BY <1>1, <1>2 DEF HandleStableRseState, StartBatch, FreshLocals, Decoded, Level,
     RSE_INVALID, RSE_HOLD_LAST, LoopPhase

(* Most steps touch neither the command nor what it depends on.            *)
LEMMA QuietSteps ==
    \/ BatchSkip \/ BatchCheck \/ BatchFeedOff \/ BatchPreWrite \/ BatchWrite
    \/ BatchFeed \/ BatchGap \/ UsbIdle \/ NoExpiry \/ RseIdle \/ PollNext
    \/ PollNotDue \/ UsbProbeAll \/ Time \/ ContactsChange \/ ClockWrap
    \/ (\E i \in Inverters : ForeignWrite(i) \/ UsbProbeOne(i))
    \/ (\E i \in Inverters, on \in BOOLEAN : UsbId(i, on)) \/ UsbSetup
    \/ CommitRead \/ CommitUnread \/ CommitWrite \/ CommitAccepted \/ CommitRejected
    \/ (CommitRestore /\ ~commit.leftLive)
    => UNCHANGED commandVars /\ (pc' = pc \/ {pc, pc'} \cap {"boot"} = {})
<1> USE DEF commandVars, inputVars, configVars, testVars, Usb
<1>1. BatchSkip \/ BatchCheck \/ BatchFeedOff \/ BatchPreWrite
      => UNCHANGED commandVars /\ {pc, pc'} \cap {"boot"} = {}
  BY DEF NextSlot, BatchSkip, BatchCheck, BatchFeedOff, BatchPreWrite
<1>2. BatchWrite \/ BatchFeed \/ BatchGap => UNCHANGED commandVars /\ {pc, pc'} \cap {"boot"} = {}
  BY DEF BatchWrite, BatchFeed, BatchGap, NextSlot
<1>3. UsbIdle \/ NoExpiry \/ RseIdle \/ PollNotDue
      => UNCHANGED commandVars /\ {pc, pc'} \cap {"boot"} = {}
  BY DEF UsbIdle, NoExpiry, RseIdle, PollNotDue, GoTo
<1>4. PollNext \/ UsbProbeAll => UNCHANGED commandVars /\ {pc, pc'} \cap {"boot"} = {}
  BY DEF PollNext, UsbProbeAll, UsbProbe
<1>5. Time \/ ContactsChange \/ ClockWrap => UNCHANGED commandVars /\ pc' = pc
  BY DEF Time, SampleInputs, ClockTick, TestDeadline, ContactsChange, ClockWrap
<1>6. ASSUME NEW i \in Inverters, ForeignWrite(i) \/ UsbProbeOne(i)
      PROVE UNCHANGED commandVars /\ pc' = pc
  BY <1>6 DEF ForeignWrite, UsbProbeOne
<1>7. ASSUME NEW i \in Inverters, NEW on \in BOOLEAN, UsbId(i, on)
      PROVE UNCHANGED commandVars /\ {pc, pc'} \cap {"boot"} = {}
  BY <1>7 DEF UsbId, Configure, SettingsOnly
<1>8. UsbSetup => UNCHANGED commandVars /\ {pc, pc'} \cap {"boot"} = {}
  BY DEF UsbSetup, UsbMax, UsbLimit, UsbRseCfg, UsbRseCfgRejected, UsbCommitOff,
         UsbCommitRated, UsbCommitDeferred, UsbCommitStart, Configure, SettingsOnly
<1>9. CommitRead \/ CommitUnread \/ CommitWrite \/ CommitAccepted \/ CommitRejected
      => UNCHANGED commandVars /\ {pc, pc'} \cap {"boot"} = {}
  BY DEF CommitRead, CommitUnread, CommitWrite, CommitAccepted, CommitRejected, CommitEnds
<1>10. CommitRestore /\ ~commit.leftLive
       => UNCHANGED commandVars /\ {pc, pc'} \cap {"boot"} = {}
  BY DEF CommitRestore
<1>11. QED
  BY <1>1, <1>2, <1>3, <1>4, <1>5, <1>6, <1>7, <1>8, <1>9, <1>10

LEMMA RestartCommand == Restarts => CommandInv'
  BY DEF Restarts, FreshLocals, CommandInv, NoTestAtBoot, TestNeverRelaxes,
     ActiveIsPhysical

LEMMA CommandStep == TypeOK /\ CommandInv /\ [Next]_vars => CommandInv'
<1> SUFFICES ASSUME TypeOK, CommandInv, [Next]_vars PROVE CommandInv'
  OBVIOUS
<1> USE DEF CommandInv, NoTestAtBoot, TestNeverRelaxes, ActiveIsPhysical, PhysicalPercent,
            inputVars, configVars, testVars
<1>a. {"usb", "rse", "poll"} \subseteq LoopPhase
  BY DEF LoopPhase
<1>b. /\ contacts \in Mask /\ rawRseMask \in Mask /\ stableRseMask \in Mask
      /\ profile \in RseProfile /\ controlReapplyRequired \in BOOLEAN
  BY DEF TypeOK
<1>c. ASSUME UNCHANGED commandVars, pc' = pc \/ {pc, pc'} \cap {"boot"} = {} PROVE CommandInv'
  BY <1>c DEF commandVars
<1>d. ASSUME NEW next \in LoopPhase, NEW p \in RseProfile,
             ReturnToPhysicalRse(p, next), profile' = p
      PROVE  CommandInv'
  BY <1>d, <1>b, HandleCommand DEF ReturnToPhysicalRse
<1>1. ASSUME NEW level \in Level, UsbTest(level) PROVE CommandInv'
  <2>1. activePercent' = level /\ manualTestActive' = TRUE /\ pc' # "boot"
        /\ UNCHANGED <<stableRseMask, profile, dryRun>>
    BY <1>1 DEF UsbTest, StartBatch, FreshLocals
  <2>2. ~dryRun => DecodeRsePercent(stableRseMask, profile) >= 0
                   /\ level <= DecodeRsePercent(stableRseMask, profile)
    BY <1>1 DEF UsbTest, ManualTestRespectsPhysicalRse
  <2>3. QED
    BY <2>1, <2>2
<1>2. CASE UsbApply \/ RseReapply
  <2>1. /\ \E reapply \in BOOLEAN, next \in LoopPhase :
               HandleStableRseState(DecodeRsePercent(stableRseMask, profile),
                                    reapply, next)
        /\ UNCHANGED <<stableRseMask, profile, dryRun, manualTestActive>>
    BY <1>2, <1>a, <1>b DEF UsbApply, RseReapply
  <2>2. /\ pc' # "boot"
        /\ profile # "EweHold4" =>
              activePercent' = (IF DecodeRsePercent(stableRseMask, profile) \in Level
                                THEN DecodeRsePercent(stableRseMask, profile) ELSE -1)
        /\ DecodeRsePercent(stableRseMask, profile) >= 0 =>
              activePercent' = DecodeRsePercent(stableRseMask, profile)
    BY <2>1, <1>b, HandleCommand
  <2>3. DecodeRsePercent(stableRseMask, profile) \in Decoded
    BY <1>b, DecodeType
  <2>4. QED
    BY <2>1, <2>2, <2>3 DEF Decoded, Level, RSE_INVALID, RSE_HOLD_LAST
<1>3. CASE UsbDryRunOn
  BY <1>3 DEF UsbDryRunOn, Usb
<1>4. CASE UsbDryRunOff
  BY <1>4, <1>a, <1>b, <1>d DEF UsbDryRunOff
<1>5. ASSUME NEW requested \in Profiles, UsbProfile(requested) PROVE CommandInv'
  BY <1>5, <1>a, <1>d, SetAssumption DEF UsbProfile
<1>6. CASE StartInverterControl
  <2>1. pc = "boot" /\ UNCHANGED <<manualTestActive, profile, dryRun>>
        /\ stableRseMask' = contacts
        /\ HandleStableRseState(DecodeRsePercent(contacts, profile),
                                controlReapplyRequired, "usb")
    BY <1>6 DEF StartInverterControl
  <2>2. QED
    BY <2>1, <1>a, <1>b, HandleCommand
<1>7. CASE TestExpires
  BY <1>7, <1>a, <1>b, <1>d DEF TestExpires
<1>8. CASE RseTransition
  <2>1. HandleStableRseState(DecodeRsePercent(rawRseMask, profile), FALSE, "poll")
        /\ stableRseMask' = rawRseMask /\ profile' = profile
        /\ manualTestActive' = FALSE
    BY <1>8 DEF RseTransition
  <2>2. QED
    BY <2>1, <1>a, <1>b, HandleCommand
<1>e. CASE CommitRestore /\ commit.leftLive
  BY <1>e, <1>a, <1>b, <1>d DEF CommitRestore
<1>9. CASE BatchFinish
  BY <1>9 DEF BatchFinish, TypeOK, LoopPhase
<1>10. CASE Reboot
  BY <1>10, RestartCommand DEF Reboot
<1>11. CASE UNCHANGED vars
  BY <1>11, <1>c DEF vars, commandVars
<1>12. QED
  BY <1>1, <1>2, <1>3, <1>4, <1>5, <1>6, <1>7, <1>8, <1>9, <1>10, <1>11,
     <1>c, <1>e, QuietSteps DEF Next, Loop, Batch, CommitStep, UsbCommand, Environment

LEMMA CommandInvariant == Spec => []CommandInv
<1>1. Init => CommandInv
  BY DEF Init, CommandInv, NoTestAtBoot, TestNeverRelaxes, ActiveIsPhysical
<1>2. QED
  BY <1>1, CommandStep, TypeInvariant, PTL DEF Spec

(* Whatever the contacts, the operator, the bus and reboots do, a live TEST *)
(* never commands more than the debounced input of the grid operator.      *)
THEOREM TestNeverRelaxesAlways == Spec => []TestNeverRelaxes
<1>1. CommandInv => TestNeverRelaxes
  BY DEF CommandInv
<1>2. QED
  BY <1>1, CommandInvariant, PTL

(* Outside TEST the commanded level follows the debounced input in every   *)
(* profile that does not hold.                                             *)
THEOREM ActiveIsPhysicalAlways == Spec => []ActiveIsPhysical
<1>1. CommandInv => ActiveIsPhysical
  BY DEF CommandInv
<1>2. QED
  BY <1>1, CommandInvariant, PTL

-----------------------------------------------------------------------------
(* What the status says about the inverters.                               *)

(* No profile of the installation holds the last level.                    *)
NoHold == "EweHold4" \notin Profiles

ConfiguredProfile == profile \in Profiles

(* The batch is through with the inverter of slot i.                       *)
Processed(i) == \/ i < cur
                \/ pc = "gap" /\ i = cur
                \/ pc = "finish" /\ ~superseded

FlagIsTruthful(i) == inverterAtTarget[i] => OnTarget(i, activePercent)

(* In a live batch: the flags of processed inverters are right, allOk says *)
(* that all of them are set, and the results of the current one are what   *)
(* its registers hold.                                                     *)
BatchFlags ==
    pc \in BatchStage /\ ~dryRun =>
        \A i \in Controlled : Processed(i) =>
            FlagIsTruthful(i) /\ (allOk => inverterAtTarget[i])

BatchResults ==
    pc \in BatchStage =>
        /\ pc \in {"preWrite", "write", "feed"} /\ feedOk
              /\ ~FeedWanted(cur, activePercent) => ~feed[cur]
        /\ pc = "feed" /\ result = "match" => power[cur] = Target(cur, activePercent)
        /\ pc = "feed" /\ ~superseded => result # "differs"

(* Between batches, with no reapplication due, every flag is right and a   *)
(* healthy output has all of them set, but for the inverters that no batch *)
(* or poll has judged since a command changed them.                        *)
LoopFlags ==
    pc \in LoopPhase \cup CommitStage /\ ~dryRun /\ ~controlReapplyRequired
        /\ activePercent >= 0 =>
        /\ \A i \in Controlled \ unjudged : FlagIsTruthful(i)
        /\ outputHealthy =>
               \A i \in Enabled \ unjudged : i \in Verified /\ inverterAtTarget[i]

(* The inverter whose register a commit has written.                       *)
CommitUnjudged == pc = "commitCheck" => commit.inverter \in unjudged

FlagInv == /\ ConfiguredProfile /\ BatchFlags /\ BatchResults /\ LoopFlags
           /\ CommitUnjudged

(* A step that leaves the processed inverters alone keeps BatchFlags.      *)
LEMMA FlagFrame ==
    ASSUME TypeOK, FlagInv, pc \in BatchStage,
           UNCHANGED <<setup, dryRun, activePercent, inverterAtTarget>>,
           allOk' => allOk,
           \A i \in Controlled : Processed(i)' =>
               Processed(i) /\ power'[i] = power[i] /\ feed'[i] = feed[i]
    PROVE  BatchFlags'
<1> USE DEF FlagInv, BatchFlags
<1>1. Controlled' = Controlled
  BY DEF Controlled, Enabled, Verified
<1>2. ASSUME NEW i \in Controlled, power'[i] = power[i], feed'[i] = feed[i],
             FlagIsTruthful(i)
      PROVE  FlagIsTruthful(i)'
  BY <1>2 DEF FlagIsTruthful, OnTarget, Target, FeedWanted
<1>3. QED
  BY <1>1, <1>2

(* Every stage of a batch keeps FlagInv.                                   *)
LEMMA FlagBatchStep == TypeOK /\ FlagInv /\ Batch => FlagInv'
<1> SUFFICES ASSUME TypeOK, FlagInv, Batch PROVE FlagInv'
  OBVIOUS
<1> USE DEF inputVars, configVars, testVars, deviceVars, statusVars, flagVars, batchVars
<1>a. /\ Controlled \subseteq Inverters /\ cur \in Inverters
      /\ superseded \in BOOLEAN /\ allOk \in BOOLEAN
      /\ power \in [Inverters -> Nat] /\ feed \in [Inverters -> BOOLEAN]
      /\ inverterAtTarget \in [Inverters -> BOOLEAN]
  BY DEF TypeOK, Controlled, Enabled
<1>b. Batch => profile' = profile
  BY DEF Batch, BatchSkip, BatchCheck, BatchFeedOff, BatchPreWrite, BatchWrite,
         BatchFeed, BatchGap, BatchFinish
<1>g. pc' # "commitCheck"
  BY DEF TypeOK, LoopPhase, Batch, BatchSkip, BatchCheck, BatchFeedOff, BatchPreWrite,
         BatchWrite, BatchFeed, BatchGap, BatchFinish, NextSlot
<1>c. ConfiguredProfile' /\ CommitUnjudged'
  BY <1>b, <1>g DEF FlagInv, ConfiguredProfile, CommitUnjudged
<1>d. ASSUME NextSlot PROVE pc' \in {"check", "finish"} /\ (pc' = "finish" => cur = N)
                            /\ (pc' = "check" => cur' = cur + 1)
                            /\ (pc' = "finish" => cur' = cur)
  BY <1>d DEF NextSlot
<1>e. ASSUME pc' \in {"check", "finish", "gap", "feedOff"} PROVE BatchResults'
  BY <1>e DEF BatchResults
<1>f. ASSUME pc' \in BatchStage PROVE LoopFlags'
  BY <1>f DEF LoopFlags, LoopPhase, BatchStage, CommitStage
<1>1. CASE BatchSkip
  <2>1. /\ pc = "check" /\ cur \notin Controlled /\ NextSlot
        /\ UNCHANGED <<setup, dryRun, activePercent, inverterAtTarget, power,
                       feed, allOk, superseded>>
    BY <1>1 DEF BatchSkip
  <2>2. \A i \in Controlled : Processed(i)' => Processed(i)
    BY <2>1, <1>a, <1>d, NAssumption DEF Processed, Inverters
  <2>3. BatchFlags'
    BY <2>1, <2>2, FlagFrame DEF BatchStage
  <2>4. QED
    BY <2>1, <2>3, <1>c, <1>d, <1>e, <1>f DEF FlagInv, BatchStage
<1>2. CASE BatchCheck
  <2>1. /\ pc = "check" /\ cur \in Controlled
        /\ UNCHANGED <<setup, dryRun, activePercent, inverterAtTarget, power,
                       feed, cur>>
        /\ \/ pc' = "finish" /\ superseded' = TRUE /\ allOk' = allOk
           \/ pc' = "gap" /\ dryRun
           \/ pc' = "preWrite" /\ FeedWanted(cur, activePercent) /\ allOk' = allOk
           \/ pc' = "feedOff" /\ allOk' = allOk
    BY <1>2 DEF BatchCheck
  <2>2. CASE dryRun
    BY <2>1, <2>2, <1>c, <1>e, <1>f DEF FlagInv, BatchFlags, BatchStage, BatchResults, FeedWanted
  <2>3. CASE ~dryRun
    <3>1. \A i \in Controlled : Processed(i)' => Processed(i)
      BY <2>1, <2>3, <1>a DEF Processed
    <3>2. BatchFlags'
      BY <2>1, <2>3, <3>1, FlagFrame DEF BatchStage
    <3>3. BatchResults'
      BY <2>1, <2>3 DEF BatchResults, FeedWanted
    <3>4. QED
      BY <2>1, <2>3, <3>2, <3>3, <1>c, <1>f DEF FlagInv, BatchStage
  <2>4. QED
    BY <2>2, <2>3, <1>a DEF TypeOK
<1>3. CASE BatchFeedOff
  <2>1. PICK outcome \in FeedPermissionOutcomes(cur, FALSE, FALSE) :
            feed' = [feed EXCEPT ![cur] = outcome.feed] /\ feedOk' = outcome.ok
    BY <1>3 DEF BatchFeedOff, SetFeedPermission
  <2>2. outcome.ok => outcome.feed = FALSE
    BY <2>1 DEF FeedPermissionOutcomes, BitCommandOutcomes
  <2>3. /\ pc = "feedOff" /\ pc' = "preWrite"
        /\ UNCHANGED <<setup, dryRun, activePercent, inverterAtTarget, power,
                       cur, allOk, superseded>>
    BY <1>3 DEF BatchFeedOff
  <2>4. \A i \in Controlled : Processed(i)' => Processed(i) /\ feed'[i] = feed[i]
    BY <2>1, <2>3, <1>a DEF Processed, Inverters
  <2>5. BatchFlags'
    BY <2>3, <2>4, FlagFrame DEF BatchStage
  <2>6. feed'[cur] = outcome.feed
    BY <2>1, <1>a
  <2>7. BatchResults'
    BY <2>1, <2>2, <2>3, <2>6 DEF BatchResults
  <2>8. QED
    BY <2>3, <2>5, <2>7, <1>c, <1>f DEF FlagInv, BatchStage
<1>4. CASE BatchPreWrite
  <2>1. /\ pc = "preWrite" /\ pc' \in {"feed", "write"}
        /\ UNCHANGED <<setup, dryRun, activePercent, inverterAtTarget, power,
                       feed, cur, allOk, feedOk>>
    BY <1>4 DEF BatchPreWrite
  <2>2. PICK readOk \in BOOLEAN :
            /\ feedOk \/ ~readOk
            /\ result' = IF ~readOk THEN "fail"
                         ELSE IF power[cur] = Target(cur, activePercent)
                              THEN "match" ELSE "differs"
    BY <1>4 DEF BatchPreWrite
  <2>3. /\ superseded' = (superseded \/ NewerInput)
        /\ pc' = IF NewerInput \/ result' = "match" \/ ~feedOk THEN "feed" ELSE "write"
    BY <1>4 DEF BatchPreWrite
  <2>4. BatchFlags'
    BY <2>1, FlagFrame DEF BatchStage, Processed
  <2>5. feedOk /\ ~FeedWanted(cur, activePercent) => ~feed[cur]
    BY <2>1 DEF FlagInv, BatchResults, BatchStage
  <2>6. pc' = "feed" /\ result' = "match" => power[cur] = Target(cur, activePercent)
    BY <2>2
  <2>7. pc' = "feed" /\ ~superseded' => result' # "differs"
    BY <2>2, <2>3
  <2>8. BatchResults'
    BY <2>1, <2>5, <2>6, <2>7 DEF BatchResults, FeedWanted, Target
  <2>9. QED
    BY <2>1, <2>4, <2>8, <1>c, <1>f DEF FlagInv, BatchStage
<1>5. CASE BatchWrite
  <2>1. /\ pc = "write" /\ pc' = "feed"
        /\ UNCHANGED <<setup, dryRun, activePercent, inverterAtTarget,
                       feed, cur, allOk, feedOk, superseded>>
    BY <1>5 DEF BatchWrite
  <2>2. PICK left : power' = [power EXCEPT ![cur] = left]
                    /\ (result' = "fail" \/ (result' = "match" /\ left = Target(cur, activePercent)))
    BY <1>5 DEF BatchWrite
  <2>3. \A i \in Controlled : Processed(i)' => Processed(i) /\ power'[i] = power[i]
    BY <2>1, <2>2, <1>a DEF Processed, Inverters
  <2>4. BatchFlags'
    BY <2>1, <2>3, FlagFrame DEF BatchStage
  <2>5. feedOk /\ ~FeedWanted(cur, activePercent) => ~feed[cur]
    BY <2>1 DEF FlagInv, BatchResults, BatchStage
  <2>6. power'[cur] = left
    BY <2>2, <1>a
  <2>7. BatchResults'
    BY <2>1, <2>2, <2>5, <2>6 DEF BatchResults, FeedWanted, Target
  <2>8. QED
    BY <2>1, <2>4, <2>7, <1>c, <1>f DEF FlagInv, BatchStage
<1>6. CASE BatchFeed
  <2>1. /\ pc = "feed" /\ pc' = "gap"
        /\ UNCHANGED <<setup, dryRun, activePercent, power, cur, superseded, result>>
        /\ inverterAtTarget' = [inverterAtTarget EXCEPT ![cur] = VerifiedAtTarget(feedOk')]
        /\ allOk' = (allOk /\ result # "fail" /\ feedOk' /\ ~superseded)
    BY <1>6 DEF BatchFeed
  <2>2. \E on : feed' = [feed EXCEPT ![cur] = on]
    BY <1>6, <1>a DEF BatchFeed, SetFeedPermission
  <2>3. feedOk' => feed'[cur] = FeedWanted(cur, activePercent)
    <3>1. CASE feedOk /\ result = "fail"
      BY <1>6, <3>1 DEF BatchFeed
    <3>2. CASE ~(feedOk /\ result = "fail") /\ FeedWanted(cur, activePercent)
      <4>1. PICK outcome \in FeedPermissionOutcomes(cur, TRUE, FALSE) :
                feed' = [feed EXCEPT ![cur] = outcome.feed] /\ feedOk' = outcome.ok
        BY <1>6, <3>2 DEF BatchFeed, SetFeedPermission
      <4>2. outcome.ok => outcome.feed = TRUE
        BY <4>1 DEF FeedPermissionOutcomes, BitCommandOutcomes
      <4>3. feed'[cur] = outcome.feed
        BY <4>1, <1>a
      <4>4. QED
        BY <3>2, <4>1, <4>2, <4>3 DEF FeedWanted
    <3>3. CASE ~(feedOk /\ result = "fail") /\ ~FeedWanted(cur, activePercent)
      <4>1. feed' = feed /\ feedOk' = feedOk
        BY <1>6, <3>3 DEF BatchFeed
      <4>2. feedOk => ~feed[cur]
        BY <2>1, <3>3 DEF FlagInv, BatchResults, BatchStage
      <4>3. QED
        BY <3>3, <4>1, <4>2, <1>a DEF FeedWanted
    <3>4. QED
      BY <3>1, <3>2, <3>3
  <2>4. result = "match" => power[cur] = Target(cur, activePercent)
    BY <2>1 DEF FlagInv, BatchResults, BatchStage
  <2>5. ~superseded => result # "differs"
    BY <2>1 DEF FlagInv, BatchResults, BatchStage
  <2>6. /\ inverterAtTarget'[cur] = VerifiedAtTarget(feedOk')
        /\ \A i \in Inverters : i # cur => inverterAtTarget'[i] = inverterAtTarget[i]
                                          /\ feed'[i] = feed[i]
    BY <2>1, <2>2, <1>a
  <2>7. FlagIsTruthful(cur)' /\ (allOk' => inverterAtTarget'[cur])
    <3>1. result \in Result
      BY DEF TypeOK
    <3>2. FlagIsTruthful(cur)'
      BY <2>1, <2>3, <2>4, <2>6 DEF FlagIsTruthful, OnTarget, VerifiedAtTarget, Target, FeedWanted
    <3>3. allOk' => result = "match" /\ feedOk'
      BY <2>1, <2>5, <3>1 DEF Result
    <3>4. QED
      BY <2>6, <3>2, <3>3 DEF VerifiedAtTarget
  <2>8. ASSUME ~dryRun', NEW i \in Controlled, Processed(i)'
        PROVE  FlagIsTruthful(i)' /\ (allOk' => inverterAtTarget'[i])
    <3>1. i \in Inverters /\ (i = cur \/ i < cur)
      BY <2>1, <2>8, <1>a DEF Processed
    <3>2. CASE i = cur
      BY <2>1, <2>7, <3>2 DEF FlagIsTruthful, OnTarget, Target, FeedWanted
    <3>3. CASE i # cur
      <4>1. Processed(i)
        BY <3>1, <3>3 DEF Processed
      <4>2. FlagIsTruthful(i) /\ (allOk => inverterAtTarget[i])
        BY <4>1, <2>1, <2>8 DEF FlagInv, BatchFlags, BatchStage
      <4>3. /\ inverterAtTarget'[i] = inverterAtTarget[i] /\ feed'[i] = feed[i]
            /\ power'[i] = power[i] /\ activePercent' = activePercent
            /\ setup' = setup
        BY <3>1, <3>3, <2>1, <2>6
      <4>4. FlagIsTruthful(i)'
        BY <4>2, <4>3 DEF FlagIsTruthful, OnTarget, Target, FeedWanted
      <4>5. allOk' => allOk
        BY <2>1
      <4>6. QED
        BY <4>2, <4>3, <4>4, <4>5
    <3>4. QED
      BY <3>2, <3>3
  <2>9. Controlled' = Controlled
    BY <2>1 DEF Controlled, Enabled, Verified
  <2>10. BatchFlags'
    BY <2>8, <2>9 DEF BatchFlags
  <2>11. QED
    BY <2>1, <2>10, <1>c, <1>e, <1>f DEF FlagInv, BatchStage
<1>7. CASE BatchGap
  <2>1. /\ pc = "gap" /\ superseded' = (superseded \/ NewerInput)
        /\ UNCHANGED <<setup, dryRun, activePercent, inverterAtTarget, power,
                       feed, allOk>>
        /\ \/ NewerInput /\ pc' = "finish" /\ cur' = cur
           \/ NextSlot
    BY <1>7 DEF BatchGap
  <2>2. ASSUME NEW i \in Controlled, Processed(i)' PROVE Processed(i)
    <3>1. i \in 1..N /\ cur \in 1..N /\ N \in Nat
      BY <1>a, NAssumption DEF Inverters
    <3>2. CASE NewerInput /\ pc' = "finish" /\ cur' = cur
      <4>1. superseded' = TRUE
        BY <2>1, <3>2
      <4>2. QED
        BY <2>2, <3>2, <4>1 DEF Processed
    <3>3. CASE NextSlot
      <4>1. i <= cur
        BY <2>2, <3>1, <3>3, <1>d DEF Processed
      <4>2. i < cur \/ i = cur
        BY <3>1, <4>1
      <4>3. QED
        BY <2>1, <4>2 DEF Processed
    <3>4. QED
      BY <2>1, <3>2, <3>3
  <2>3. BatchFlags'
    BY <2>1, <2>2, FlagFrame DEF BatchStage
  <2>4. QED
    BY <2>1, <2>3, <1>c, <1>d, <1>e, <1>f DEF FlagInv, BatchStage
<1>8. CASE BatchFinish
  <2>1. /\ pc = "finish" /\ pc' \in LoopPhase
        /\ outputHealthy' = (~superseded /\ allOk /\ Enabled # {} /\ Enabled \subseteq Verified)
        /\ superseded => controlReapplyRequired'
        /\ UNCHANGED <<setup, dryRun, activePercent, inverterAtTarget, power, feed>>
    BY <1>8 DEF BatchFinish, TypeOK
  <2>2. ASSUME ~superseded, ~dryRun
        PROVE  /\ \A i \in Controlled : FlagIsTruthful(i)
               /\ allOk => \A i \in Controlled : inverterAtTarget[i]
    BY <2>1, <2>2 DEF FlagInv, BatchFlags, BatchStage, Processed
  <2>3. Controlled' = Controlled /\ Enabled' = Enabled /\ Verified' = Verified
    BY <2>1 DEF Controlled, Enabled, Verified
  <2>4. \A i \in Controlled : FlagIsTruthful(i) => FlagIsTruthful(i)'
    BY <2>1 DEF FlagIsTruthful, OnTarget, Target, FeedWanted
  <2>5. Enabled \subseteq Verified => Controlled = Enabled
    BY DEF Controlled
  <2>6. LoopFlags'
    BY <2>1, <2>2, <2>3, <2>4, <2>5, <1>a DEF LoopFlags
  <2>7. QED
    BY <2>1, <2>6, <1>c DEF FlagInv, BatchFlags, BatchResults, LoopPhase, BatchStage
<1>9. QED
  BY <1>1, <1>2, <1>3, <1>4, <1>5, <1>6, <1>7, <1>8 DEF Batch

truthVars == <<power, feed, profile, dryRun, setup, commit, activePercent,
               outputHealthy, controlReapplyRequired, inverterAtTarget, unjudged, pc,
               batchVars>>

LEMMA FlagStutter == FlagInv /\ UNCHANGED truthVars => FlagInv'
<1> SUFFICES ASSUME FlagInv, UNCHANGED truthVars PROVE FlagInv'
  OBVIOUS
<1>0. /\ power' = power /\ feed' = feed /\ profile' = profile /\ dryRun' = dryRun
      /\ setup' = setup /\ commit' = commit /\ unjudged' = unjudged
      /\ activePercent' = activePercent
      /\ outputHealthy' = outputHealthy /\ pc' = pc /\ cur' = cur
      /\ controlReapplyRequired' = controlReapplyRequired
      /\ inverterAtTarget' = inverterAtTarget /\ superseded' = superseded
      /\ allOk' = allOk /\ feedOk' = feedOk /\ result' = result
  BY DEF truthVars, batchVars
<1>1. Controlled' = Controlled /\ Enabled' = Enabled /\ Verified' = Verified
  BY <1>0 DEF Controlled, Enabled, Verified
<1>2. \A i \in Controlled : /\ FlagIsTruthful(i)' = FlagIsTruthful(i)
                           /\ Processed(i)' = Processed(i)
  BY <1>0 DEF FlagIsTruthful, OnTarget, Target, FeedWanted, Processed
<1>3. BatchFlags'
  BY <1>0, <1>1, <1>2, Zenon DEF FlagInv, BatchFlags
<1>4. LoopFlags'
  BY <1>0, <1>1, <1>2, Zenon DEF FlagInv, LoopFlags
<1>5. BatchResults' /\ ConfiguredProfile' /\ CommitUnjudged'
  BY <1>0 DEF FlagInv, BatchResults, ConfiguredProfile, CommitUnjudged, FeedWanted,
     Target
<1>6. QED
  BY <1>3, <1>4, <1>5 DEF FlagInv

(* At its start a batch has processed nothing.                             *)
LEMMA FlagStart ==
    ASSUME pc' = "check", cur' = 1, profile' \in Profiles
    PROVE  FlagInv'
<1>1. \A i \in Inverters : ~ (i < 1)
  BY NAssumption DEF Inverters
<1>2. Controlled' \subseteq Inverters
  BY DEF Controlled, Enabled
<1>3. \A i \in Controlled' : ~Processed(i)'
  BY <1>1, <1>2 DEF Processed
<1>4. QED
  BY <1>3 DEF FlagInv, ConfiguredProfile, BatchFlags, BatchResults, LoopFlags,
     CommitUnjudged, LoopPhase, CommitStage

(* Entering control starts a batch with nothing processed, or leaves no    *)
(* commanded level.                                                        *)
LEMMA FlagHandle ==
    ASSUME TypeOK, NEW mask \in Mask, NEW p \in Profiles, NEW reapply \in BOOLEAN,
           NEW next \in LoopPhase, "EweHold4" \notin Profiles,
           HandleStableRseState(DecodeRsePercent(mask, p), reapply, next),
           profile' \in Profiles
    PROVE  FlagInv'
<1>1. DecodeRsePercent(mask, p) \in Decoded /\ DecodeRsePercent(mask, p) # RSE_HOLD_LAST
  BY DecodeType, OnlyEweHolds, SetAssumption
<1>2. CASE activePercent' = -1 /\ pc' = next
  BY <1>2 DEF FlagInv, ConfiguredProfile, BatchFlags, BatchResults, LoopFlags,
     CommitUnjudged, LoopPhase, BatchStage
<1>3. CASE pc' = "check" /\ cur' = 1
  BY <1>3, FlagStart
<1>4. QED
  BY <1>1, <1>2, <1>3 DEF HandleStableRseState, StartBatch, FreshLocals, Decoded

LEMMA RestartFlags == FlagInv /\ Restarts => FlagInv'
  BY DEF Restarts, FreshLocals, FlagInv, ConfiguredProfile, BatchFlags,
     BatchResults, LoopFlags, CommitUnjudged, LoopPhase, BatchStage, CommitStage

(* A command changes settings and registers only of inverters that it      *)
(* marks as not judged.                                                    *)
LEMMA FlagSettings ==
    ASSUME TypeOK, FlagInv, pc \in LoopPhase \cup CommitStage,
           pc' \in LoopPhase \cup CommitStage,
           pc' = "commitCheck" => commit'.inverter \in unjudged',
           unjudged \subseteq unjudged',
           \A i \in Inverters \ unjudged' :
               /\ setup'[i] = setup[i] /\ power'[i] = power[i]
               /\ inverterAtTarget'[i] = inverterAtTarget[i],
           UNCHANGED <<feed, profile, dryRun, activePercent, outputHealthy,
                       controlReapplyRequired>>
    PROVE  FlagInv'
<1>1. pc' \notin BatchStage
  BY DEF LoopPhase, CommitStage, BatchStage
<1>2. ConfiguredProfile' /\ BatchFlags' /\ BatchResults' /\ CommitUnjudged'
  BY <1>1 DEF FlagInv, ConfiguredProfile, BatchFlags, BatchResults, CommitUnjudged
<1>3. \A i \in Inverters \ unjudged' :
          /\ i \in Enabled' <=> i \in Enabled
          /\ i \in Verified' <=> i \in Verified
          /\ i \in Controlled' <=> i \in Controlled
  BY DEF Controlled, Enabled, Verified
<1>4. Enabled' \subseteq Inverters /\ Controlled' \subseteq Inverters
  BY DEF Controlled, Enabled
<1>5. \A i \in Inverters \ unjudged' : FlagIsTruthful(i) => FlagIsTruthful(i)'
  BY DEF FlagIsTruthful, OnTarget, Target, FeedWanted
<1>6. ASSUME ~dryRun, ~controlReapplyRequired, activePercent >= 0
      PROVE  /\ \A i \in Controlled \ unjudged : FlagIsTruthful(i)
             /\ outputHealthy =>
                   \A i \in Enabled \ unjudged : i \in Verified /\ inverterAtTarget[i]
  BY <1>6 DEF FlagInv, LoopFlags
<1>7. LoopFlags'
  <2> SUFFICES ASSUME ~dryRun, ~controlReapplyRequired, activePercent >= 0
               PROVE  /\ \A i \in (Controlled \ unjudged)' : FlagIsTruthful(i)'
                      /\ outputHealthy =>
                            \A i \in (Enabled \ unjudged)' :
                                i \in Verified' /\ inverterAtTarget'[i]
    BY DEF LoopFlags
  <2>1. \A i \in (Controlled \ unjudged)' : FlagIsTruthful(i)'
    BY <1>3, <1>4, <1>5, <1>6
  <2>2. outputHealthy => \A i \in (Enabled \ unjudged)' :
                             i \in Verified' /\ inverterAtTarget'[i]
    BY <1>3, <1>4, <1>6
  <2>3. QED
    BY <2>1, <2>2
<1>8. QED
  BY <1>2, <1>7 DEF FlagInv

LEMMA ChangeMarks ==
    ASSUME TypeOK, NEW settings, Change(settings) \/ Save(settings)
    PROVE  /\ unjudged \subseteq unjudged'
           /\ \A i \in Inverters \ unjudged' : setup'[i] = setup[i]
  BY DEF Change, Save

(* The commands that only set inverters up.                                *)
LEMMA FlagSetup ==
    ASSUME TypeOK, FlagInv,
           UsbSetup \/ \E i \in Inverters, on \in BOOLEAN : UsbId(i, on)
    PROVE  FlagInv'
<1>1. CASE \E i \in Inverters, watts \in Watts : UsbCommitStart(i, watts)
  <2>1. /\ pc = "usb" /\ pc' = "commitRead"
        /\ UNCHANGED <<setup, power, feed, profile, dryRun, inverterAtTarget, unjudged,
                       activePercent, outputHealthy, controlReapplyRequired>>
    BY <1>1 DEF UsbCommitStart, Usb, deviceVars, statusVars, flagVars
  <2>2. QED
    BY <2>1, FlagSettings DEF LoopPhase, CommitStage
<1>2. CASE SettingsOnly /\ pc = "usb" /\ \E settings : Change(settings) \/ Save(settings)
  <2>1. /\ unjudged \subseteq unjudged'
        /\ \A i \in Inverters \ unjudged' : setup'[i] = setup[i]
    BY <1>2, ChangeMarks
  <2>2. /\ pc' = "usb"
        /\ UNCHANGED <<power, feed, profile, dryRun, inverterAtTarget,
                       activePercent, outputHealthy, controlReapplyRequired>>
    BY <1>2 DEF SettingsOnly, deviceVars, flagVars
  <2>3. QED
    BY <1>2, <2>1, <2>2, FlagSettings DEF LoopPhase
<1>3. QED
  BY <1>1, <1>2 DEF UsbSetup, UsbMax, UsbLimit, UsbRseCfg, UsbRseCfgRejected,
     UsbCommitOff, UsbCommitRated, UsbCommitDeferred, UsbId, Configure, Usb

(* The stages of a commit.                                                 *)
LEMMA FlagCommitStep ==
    ASSUME NoHold, TypeOK, FlagInv, CommitStep PROVE FlagInv'
<1> USE DEF deviceVars, statusVars, flagVars, CommitOf
<1>a. /\ power \in [Inverters -> Nat] /\ commit.inverter \in Inverters
      /\ inverterAtTarget \in [Inverters -> BOOLEAN]
  BY DEF TypeOK, Commit
<1>b. ASSUME NEW left, WriteRegister(CommitOf, left)
      PROVE  /\ unjudged \subseteq unjudged' /\ commit.inverter \in unjudged'
             /\ \A i \in Inverters \ unjudged' : power'[i] = power[i]
  BY <1>a, <1>b DEF WriteRegister
<1>1. CASE CommitRead \/ CommitRejected
  <2>1. /\ pc \in CommitStage /\ pc' \in CommitStage /\ pc' # "commitCheck"
        /\ UNCHANGED <<setup, power, feed, profile, dryRun, inverterAtTarget, unjudged,
                       activePercent, outputHealthy, controlReapplyRequired>>
    BY <1>1 DEF CommitRead, CommitRejected, CommitStage
  <2>2. QED
    BY <2>1, FlagSettings
<1>2. CASE CommitUnread
  <2>1. /\ unjudged \subseteq unjudged'
        /\ \A i \in Inverters \ unjudged' : setup'[i] = setup[i]
    BY <1>2, ChangeMarks DEF CommitUnread
  <2>2. /\ pc = "commitRead" /\ pc' = "usb"
        /\ UNCHANGED <<power, feed, profile, dryRun, inverterAtTarget,
                       activePercent, outputHealthy, controlReapplyRequired>>
    BY <1>2 DEF CommitUnread, CommitEnds
  <2>3. QED
    BY <2>1, <2>2, FlagSettings DEF LoopPhase, CommitStage
<1>3. CASE CommitWrite
  <2>1. /\ \E left : WriteRegister(CommitOf, left)
        /\ pc = "commitWrite" /\ pc' = "commitCheck"
        /\ commit'.inverter = commit.inverter
        /\ UNCHANGED <<setup, feed, profile, dryRun, inverterAtTarget,
                       activePercent, outputHealthy, controlReapplyRequired>>
    BY <1>3 DEF CommitWrite, TypeOK, Commit
  <2>2. QED
    BY <2>1, <1>b, FlagSettings DEF CommitStage
<1>4. CASE CommitAccepted
  <2>1. /\ unjudged \subseteq unjudged'
        /\ \A i \in Inverters \ unjudged' : setup'[i] = setup[i]
    BY <1>4, ChangeMarks DEF CommitAccepted
  <2>2. /\ pc = "commitCheck" /\ pc' = "usb"
        /\ inverterAtTarget' = [inverterAtTarget EXCEPT ![CommitOf] = TRUE]
        /\ UNCHANGED <<power, feed, profile, dryRun,
                       activePercent, outputHealthy, controlReapplyRequired>>
    BY <1>4 DEF CommitAccepted, CommitEnds
  <2>3. commit.inverter \in unjudged'
    BY <2>1, <2>2 DEF FlagInv, CommitUnjudged
  <2>4. \A i \in Inverters \ unjudged' : inverterAtTarget'[i] = inverterAtTarget[i]
    BY <1>a, <2>2, <2>3
  <2>5. QED
    BY <2>1, <2>2, <2>4, FlagSettings DEF LoopPhase, CommitStage
<1>5. CASE CommitRestore
  <2>1. CASE ReturnToPhysicalRse(profile, "usb")
    <3>1. contacts \in Mask /\ profile \in Profiles /\ controlReapplyRequired \in BOOLEAN
      BY DEF TypeOK, FlagInv, ConfiguredProfile
    <3>2. profile' = profile
      BY <1>5 DEF CommitRestore
    <3>3. HandleStableRseState(DecodeRsePercent(contacts, profile),
                               controlReapplyRequired, "usb")
      BY <2>1 DEF ReturnToPhysicalRse
    <3>4. QED
      BY <3>1, <3>2, <3>3, FlagHandle DEF LoopPhase, NoHold
  <2>2. CASE ~commit.leftLive
    <3>1. /\ \E left : WriteRegister(CommitOf, left)
          /\ pc = "commitRestore" /\ pc' = "usb"
          /\ UNCHANGED <<setup, feed, profile, dryRun, inverterAtTarget,
                         activePercent, outputHealthy, controlReapplyRequired>>
      BY <1>5, <2>2 DEF CommitRestore
    <3>2. QED
      BY <3>1, <1>b, FlagSettings DEF LoopPhase, CommitStage
  <2>3. QED
    BY <1>5, <2>1, <2>2 DEF CommitRestore
<1>6. QED
  BY <1>1, <1>2, <1>3, <1>4, <1>5 DEF CommitStep

LEMMA FlagStep ==
    ASSUME NoHold, SoleWriter, TypeOK, FlagInv, [Next]_vars PROVE FlagInv'
<1> USE DEF inputVars, configVars, testVars, deviceVars, statusVars, flagVars, NoHold,
            SoleWriter
<1>a. {"usb", "rse", "poll"} \subseteq LoopPhase
  BY DEF LoopPhase
<1>b. /\ contacts \in Mask /\ rawRseMask \in Mask /\ stableRseMask \in Mask
      /\ profile \in Profiles /\ controlReapplyRequired \in BOOLEAN
      /\ Controlled \subseteq Inverters /\ FALSE \in BOOLEAN
      /\ inverterAtTarget \in [Inverters -> BOOLEAN]
  BY DEF TypeOK, FlagInv, ConfiguredProfile, Controlled, Enabled
<1>c. ASSUME NEW next \in LoopPhase, NEW p \in Profiles,
             ReturnToPhysicalRse(p, next), profile' = p
      PROVE  FlagInv'
  BY <1>c, <1>b, FlagHandle DEF ReturnToPhysicalRse
<1>d. ASSUME NEW from \in LoopPhase, NEW to \in LoopPhase, GoTo(from, to) PROVE FlagInv'
  <2>1. /\ UNCHANGED <<power, feed, profile, dryRun, setup, unjudged, activePercent,
                       outputHealthy, controlReapplyRequired, inverterAtTarget>>
        /\ pc = from /\ pc' = to
    BY <1>d DEF GoTo
  <2>2. to # "commitCheck"
    BY <1>d DEF LoopPhase
  <2>3. QED
    BY <1>d, <2>1, <2>2, FlagSettings
<1>1. ASSUME NEW level \in Level, UsbTest(level) PROVE FlagInv'
  <2>1. pc' = "check" /\ cur' = 1 /\ profile' = profile
    BY <1>1 DEF UsbTest, StartBatch, FreshLocals
  <2>2. QED
    BY <2>1, <1>b, FlagStart
<1>2. CASE UsbApply
  BY <1>2, <1>a, <1>b, FlagHandle DEF UsbApply
<1>3. CASE UsbDryRunOn
  <2>1. dryRun' = TRUE /\ pc = "usb" /\ pc' = pc /\ profile' = profile
    BY <1>3 DEF UsbDryRunOn, Usb
  <2>2. QED
    BY <2>1, <1>b DEF FlagInv, ConfiguredProfile, BatchFlags, BatchResults, LoopFlags,
       CommitUnjudged, BatchStage
<1>4. CASE UsbDryRunOff
  BY <1>4, <1>a, <1>b, <1>c DEF UsbDryRunOff
<1>5. ASSUME NEW requested \in Profiles, UsbProfile(requested) PROVE FlagInv'
  BY <1>5, <1>a, <1>c DEF UsbProfile
<1>6. CASE UsbSetup \/ \E i \in Inverters, on \in BOOLEAN : UsbId(i, on)
  BY <1>6, FlagSetup
<1>f. CASE CommitStep
  BY <1>f, FlagCommitStep
<1>7. CASE UsbProbeAll \/ PollNext
  <2>1. /\ UNCHANGED <<power, feed, profile, dryRun, setup, activePercent,
                       controlReapplyRequired>>
        /\ pc \in LoopPhase /\ pc' \in LoopPhase
        /\ RefreshOutputHealth(inverterAtTarget', inverterHealthy')
    BY <1>7 DEF UsbProbeAll, UsbProbe, PollNext, Usb, LoopPhase
  <2>2. \/ UNCHANGED <<inverterAtTarget, unjudged>>
        \/ \E i \in Controlled, read \in BOOLEAN :
              /\ inverterAtTarget' = [inverterAtTarget EXCEPT
                                      ![i] = read /\ OnTarget(i, activePercent)]
              /\ unjudged' = unjudged \ {i}
    BY <1>7 DEF UsbProbeAll, UsbProbe, PollNext
  <2>3. ASSUME \A i \in Controlled \ unjudged : FlagIsTruthful(i)
        PROVE  \A i \in Controlled \ unjudged' : FlagIsTruthful(i)'
    BY <2>1, <2>2, <2>3, <1>b DEF FlagIsTruthful, OnTarget, Target, FeedWanted
  <2>4. Controlled' = Controlled /\ Enabled' = Enabled /\ Verified' = Verified
    BY <2>1 DEF Controlled, Enabled, Verified
  <2>5. ~dryRun' /\ activePercent' >= 0 /\ outputHealthy'
        => \A i \in Enabled : i \in Verified /\ inverterAtTarget'[i]
    <3>1. activePercent \in Level \cup {-1}
      BY DEF TypeOK
    <3>2. SUFFICES ASSUME ~dryRun', activePercent' >= 0, outputHealthy', NEW i \in Enabled
                   PROVE  i \in Verified /\ inverterAtTarget'[i]
      OBVIOUS
    <3>3. ~dryRun /\ ~ (activePercent < 0)
      BY <2>1, <3>1, <3>2 DEF Level
    <3>4. QED
      BY <2>1, <3>2, <3>3 DEF RefreshOutputHealth
  <2>6. LoopFlags'
    BY <2>1, <2>3, <2>4, <2>5 DEF FlagInv, LoopFlags
  <2>7. QED
    BY <2>1, <2>6 DEF FlagInv, ConfiguredProfile, BatchFlags, BatchResults,
       CommitUnjudged, LoopPhase, BatchStage
<1>e. ASSUME NEW i \in Inverters, UsbProbeOne(i) PROVE FlagInv'
  <2>1. UNCHANGED truthVars
    BY <1>e DEF UsbProbeOne, truthVars, batchVars
  <2>2. QED
    BY <2>1, FlagStutter
<1>8. CASE StartInverterControl
  BY <1>8, <1>a, <1>b, FlagHandle DEF StartInverterControl
<1>9. CASE UsbIdle \/ NoExpiry \/ RseIdle \/ PollNotDue
  BY <1>9, <1>d DEF UsbIdle, NoExpiry, RseIdle, PollNotDue, LoopPhase
<1>10. CASE TestExpires
  BY <1>10, <1>a, <1>b, <1>c DEF TestExpires
<1>11. CASE RseTransition \/ RseReapply
  BY <1>11, <1>a, <1>b, FlagHandle DEF RseTransition, RseReapply
<1>12. CASE Batch
  BY <1>12, FlagBatchStep
<1>13. CASE Reboot
  BY <1>13, RestartFlags DEF Reboot
<1>14. CASE Time \/ ContactsChange \/ ClockWrap \/ UNCHANGED vars
  <2>1. UNCHANGED truthVars
    BY <1>14 DEF Time, SampleInputs, ClockTick, TestDeadline, ContactsChange, ClockWrap,
       truthVars, batchVars, vars
  <2>2. QED
    BY <2>1, FlagStutter
<1>15. \A i \in Inverters : ~ForeignWrite(i)
  BY DEF ForeignWrite, Disturb
<1>16. QED
  BY <1>1, <1>2, <1>3, <1>4, <1>5, <1>6, <1>7, <1>8, <1>9, <1>10, <1>11, <1>12,
     <1>13, <1>14, <1>15, <1>e, <1>f DEF Next, Loop, UsbCommand, Environment

(* Whether the bridge is the sole writer is settled at the start.          *)
LEMMA KindsStay == TypeOK /\ [Next]_vars => budget'.kinds = budget.kinds
<1> SUFFICES ASSUME TypeOK, [Next]_vars PROVE budget'.kinds = budget.kinds
  OBVIOUS
<1>1. \A kind : Disturb(kind) => budget'.kinds = budget.kinds
  BY DEF Disturb, TypeOK, Budget
<1>2. \A faulty : PayFault(faulty) => budget'.kinds = budget.kinds
  BY <1>1 DEF PayFault
<1>3. \A kind : Usb(kind) => budget'.kinds = budget.kinds
  BY <1>1 DEF Usb
<1>a. CASE UsbIdle \/ NoExpiry \/ RseIdle \/ PollNotDue
  <2>1. \A from, to : GoTo(from, to) => UNCHANGED budget
    BY DEF GoTo
  <2>2. QED
    BY <1>a, <2>1 DEF UsbIdle, NoExpiry, RseIdle, PollNotDue
<1>b. CASE StartInverterControl \/ TestExpires \/ RseTransition \/ RseReapply
  <2>1. CASE StartInverterControl
    BY <2>1, <1>2 DEF StartInverterControl
  <2>2. CASE TestExpires
    BY <2>2 DEF TestExpires
  <2>3. CASE RseTransition
    BY <2>3 DEF RseTransition
  <2>4. CASE RseReapply
    BY <2>4 DEF RseReapply
  <2>5. QED
    BY <1>b, <2>1, <2>2, <2>3, <2>4
<1>4. CASE Time \/ UNCHANGED vars
  BY <1>4 DEF Time, SampleInputs, ClockTick, TestDeadline, vars
<1>5. CASE PollNext
  BY <1>5, <1>2 DEF PollNext
<1>6. CASE BatchSkip \/ BatchCheck \/ BatchGap \/ BatchFinish
  BY <1>6 DEF BatchSkip, BatchCheck, BatchGap, BatchFinish
<1>7. CASE BatchFeedOff \/ BatchPreWrite \/ BatchWrite \/ BatchFeed
  BY <1>7, <1>2 DEF BatchFeedOff, BatchPreWrite, BatchWrite, BatchFeed, SetFeedPermission
<1>c. CASE UsbSetup
  BY <1>c, <1>3 DEF UsbSetup, UsbMax, UsbLimit, UsbRseCfg, UsbRseCfgRejected,
     UsbCommitOff, UsbCommitRated, UsbCommitDeferred, UsbCommitStart
<1>d. CASE CommitStep
  <2>1. CASE CommitRead \/ CommitAccepted
    BY <2>1 DEF CommitRead, CommitAccepted
  <2>2. CASE CommitUnread \/ CommitRejected
    BY <2>2, <1>2 DEF CommitUnread, CommitRejected
  <2>3. CASE CommitWrite
    BY <2>3, <1>2 DEF CommitWrite
  <2>4. CASE CommitRestore
    BY <2>4, <1>2 DEF CommitRestore
  <2>5. QED
    BY <1>d, <2>1, <2>2, <2>3, <2>4 DEF CommitStep
<1>8. CASE UsbCommand
  BY <1>8, <1>3, <1>c DEF UsbCommand, UsbTest, UsbApply, UsbDryRunOn, UsbDryRunOff,
     UsbProfile, UsbId, UsbProbeAll, UsbProbe, UsbProbeOne
<1>9. CASE Environment
  BY <1>9, <1>1 DEF Environment, ContactsChange, Reboot, ClockWrap, ForeignWrite
<1>10. QED
  BY <1>a, <1>b, <1>d, <1>4, <1>5, <1>6, <1>7, <1>8, <1>9 DEF Next, Loop, Batch

LEMMA ProfileStep == TypeOK /\ ConfiguredProfile /\ [Next]_vars => ConfiguredProfile'
<1> SUFFICES ASSUME ConfiguredProfile, [Next]_vars PROVE ConfiguredProfile'
  OBVIOUS
<1> USE DEF configVars
<1>1. CASE \E requested \in Profiles : UsbProfile(requested)
  BY <1>1 DEF UsbProfile, ConfiguredProfile
<1>2. CASE UNCHANGED profile
  BY <1>2 DEF ConfiguredProfile
<1>a. CASE CommitStep
  BY <1>a, <1>2 DEF CommitStep, CommitRead, CommitUnread, CommitWrite, CommitAccepted,
     CommitRejected, CommitRestore
<1>b. CASE UsbSetup
  BY <1>b, <1>2 DEF UsbSetup, UsbMax, UsbLimit, UsbRseCfg, UsbRseCfgRejected,
     UsbCommitOff, UsbCommitRated, UsbCommitDeferred, UsbCommitStart, Configure,
     SettingsOnly
<1>3. CASE Loop
  BY <1>3, <1>2, <1>a DEF Loop, StartInverterControl, UsbIdle, TestExpires, NoExpiry,
     RseTransition, RseReapply, RseIdle, PollNext, PollNotDue, GoTo, Batch, BatchSkip,
     BatchCheck, BatchFeedOff, BatchPreWrite, BatchWrite, BatchFeed, BatchGap,
     BatchFinish
<1>4. CASE Time \/ Environment \/ UNCHANGED vars
  BY <1>4, <1>2 DEF Time, SampleInputs, ClockTick, TestDeadline, Environment, Reboot,
     Restarts, ContactsChange, ClockWrap, ForeignWrite, vars
<1>5. CASE UsbCommand
  BY <1>5, <1>1, <1>2, <1>b DEF UsbCommand, UsbTest, UsbApply, UsbDryRunOn,
     UsbDryRunOff, UsbId, UsbProbeAll, UsbProbe, UsbProbeOne, Configure, SettingsOnly
<1>6. QED
  BY <1>3, <1>4, <1>5 DEF Next

LEMMA ProfileInvariant == Spec => []ConfiguredProfile
<1>1. Init => ConfiguredProfile
  BY DEF Init, ConfiguredProfile
<1>2. QED
  BY <1>1, ProfileStep, TypeInvariant, PTL DEF Spec

SoleInv == SoleWriter => FlagInv

LEMMA FlagInvariant == ASSUME NoHold PROVE Spec => []SoleInv
<1>1. Init => SoleInv
  BY DEF Init, SoleInv, FlagInv, ConfiguredProfile, BatchFlags, BatchResults, LoopFlags,
     CommitUnjudged, LoopPhase, BatchStage, CommitStage
<1>2. TypeOK /\ SoleInv /\ [Next]_vars => SoleInv'
  <2>1. TypeOK /\ [Next]_vars /\ SoleWriter' => SoleWriter
    BY KindsStay DEF SoleWriter
  <2>2. QED
    BY <2>1, FlagStep DEF SoleInv
<1>3. QED
  BY <1>1, <1>2, TypeInvariant, PTL DEF Spec

(* Where the bridge is the sole writer, a healthy output is never a lie:   *)
(* after any history of failures, supersedes, TESTs, reboots, commits and  *)
(* other USB commands every enabled inverter holds the commanded power and *)
(* feed permission, but for one that a command has set up anew and no      *)
(* batch or poll has compared since.                                       *)
THEOREM HealthyIsTruthfulAlways ==
    ASSUME NoHold PROVE Spec => []HealthyIsTruthful
<1>1. SoleInv => HealthyIsTruthful
  BY DEF SoleInv, FlagInv, LoopFlags, HealthyIsTruthful, FlagIsTruthful, Controlled
<1>2. QED
  BY <1>1, FlagInvariant, PTL

(* An open gate, with all it goes by.                                      *)
LEMMA GateIsTruthful ==
    ASSUME NoHold, TypeOK, CommandInv, SoleInv PROVE SettledOtaGateIsTruthful
<1> SUFFICES ASSUME FlagInv, ~controlReapplyRequired, pc = "usb", ~dryRun,
                    SafeForFirmwareUpdate, NEW i \in Enabled \ unjudged
             PROVE  OnTarget(i, 100)
  BY DEF SoleInv, SettledOtaGateIsTruthful, OtaGateIsTruthful
<1>1. /\ ~manualTestActive /\ DecodeRsePercent(contacts, profile) = 100
      /\ contacts = stableRseMask /\ EnabledInvertersReadyForOta
  BY DEF SafeForFirmwareUpdate, OtaControlStateIsSafe
<1>2. profile # "EweHold4"
  BY DEF NoHold, FlagInv, ConfiguredProfile
<1>3. activePercent = 100
  BY <1>1, <1>2 DEF CommandInv, ActiveIsPhysical, PhysicalPercent, Level
<1>4. i \in Verified /\ inverterAtTarget[i] /\ i \in Controlled
  BY <1>1 DEF EnabledInvertersReadyForOta, Controlled
<1>5. FlagIsTruthful(i)
  BY <1>3, <1>4 DEF FlagInv, LoopFlags, LoopPhase
<1>6. QED
  BY <1>3, <1>4, <1>5 DEF FlagIsTruthful

(* And the gate of a firmware update opens, once no reapplication is due,  *)
(* only with every enabled inverter really at 100 %, with the same         *)
(* exception.                                                              *)
THEOREM SettledOtaGateIsTruthfulAlways ==
    ASSUME NoHold PROVE Spec => []SettledOtaGateIsTruthful
<1>1. TypeOK /\ CommandInv /\ SoleInv => SettledOtaGateIsTruthful
  BY GateIsTruthful
<1>2. QED
  BY <1>1, TypeInvariant, CommandInvariant, FlagInvariant, PTL

EndsPhysical == pc' \in BatchStage \/ controlReapplyRequired' \/ activePercent' = -1

(* TEST always ends in physical control where no profile holds.            *)
THEOREM TestEndsInPhysicalControlAlways ==
    ASSUME NoHold PROVE Spec => TestEndsInPhysicalControl
<1>1. TypeOK /\ ConfiguredProfile /\ [Next]_vars =>
          [manualTestActive /\ ~manualTestActive'
             => \/ pc' \in BatchStage \/ controlReapplyRequired'
                \/ activePercent' = -1]_vars
  <2> SUFFICES ASSUME TypeOK, ConfiguredProfile, Next, manualTestActive, ~manualTestActive'
               PROVE  EndsPhysical
    BY DEF EndsPhysical
  <2> USE DEF inputVars, configVars, testVars, NoHold
  <2>a. /\ contacts \in Mask /\ rawRseMask \in Mask /\ profile \in Profiles
        /\ Profiles \subseteq RseProfile
    BY SetAssumption DEF TypeOK, ConfiguredProfile
  <2>b. ASSUME NEW mask \in Mask, NEW p \in Profiles, NEW reapply, NEW next,
               HandleStableRseState(DecodeRsePercent(mask, p), reapply, next)
        PROVE  EndsPhysical
    <3>1. DecodeRsePercent(mask, p) # RSE_HOLD_LAST
      BY <2>a, OnlyEweHolds
    <3>2. QED
      BY <2>b, <3>1 DEF HandleStableRseState, StartBatch, EndsPhysical, BatchStage
  <2>1. ~ (\/ BatchSkip \/ BatchCheck \/ BatchFeedOff \/ BatchPreWrite \/ BatchWrite
           \/ BatchFeed \/ BatchGap \/ UsbIdle \/ NoExpiry \/ RseIdle \/ PollNext
           \/ PollNotDue \/ UsbProbeAll \/ Time \/ ContactsChange \/ ClockWrap
           \/ (\E i \in Inverters : ForeignWrite(i) \/ UsbProbeOne(i))
           \/ (\E i \in Inverters, on \in BOOLEAN : UsbId(i, on)) \/ UsbSetup
           \/ CommitRead \/ CommitUnread \/ CommitWrite \/ CommitAccepted
           \/ CommitRejected \/ (CommitRestore /\ ~commit.leftLive))
    BY QuietSteps DEF commandVars
  <2>2. /\ ~StartInverterControl /\ ~RseReapply /\ ~UsbApply /\ ~UsbDryRunOn
        /\ \A level \in Level : ~UsbTest(level)
    BY DEF StartInverterControl, RseReapply, UsbApply, UsbDryRunOn, UsbTest
  <2>3. CASE TestExpires \/ UsbDryRunOff
    BY <2>3, <2>a, <2>b DEF TestExpires, UsbDryRunOff, ReturnToPhysicalRse
  <2>4. ASSUME NEW requested \in Profiles, UsbProfile(requested) PROVE EndsPhysical
    BY <2>4, <2>a, <2>b DEF UsbProfile, ReturnToPhysicalRse
  <2>c. CASE CommitRestore /\ commit.leftLive
    BY <2>c, <2>a, <2>b DEF CommitRestore, ReturnToPhysicalRse
  <2>5. CASE RseTransition
    BY <2>5, <2>a, <2>b DEF RseTransition
  <2>6. CASE BatchFinish
    BY <2>6 DEF BatchFinish, EndsPhysical
  <2>7. CASE Reboot
    BY <2>7 DEF Reboot, Restarts, FreshLocals, EndsPhysical
  <2>8. QED
    BY <2>1, <2>2, <2>3, <2>4, <2>5, <2>6, <2>7, <2>c
    DEF Next, Loop, Batch, CommitStep, UsbCommand, Environment
<1>2. QED
  BY <1>1, TypeInvariant, ProfileInvariant, PTL DEF Spec, TestEndsInPhysicalControl

-----------------------------------------------------------------------------
(* The invariants of the control core hold through updates of the firmware,*)
(* and full power stays on the inverters from the first look at the gate   *)
(* to the restart.                                                         *)

UpdateInv == /\ TypeOK /\ CommandInv /\ ConfiguredProfile /\ SoleInv
             /\ FullPowerThroughUpdate

LEMMA UpdateStart == UpdateInit => UpdateInv
<1>1. UpdateInit => Init /\ update = "none"
  BY DEF UpdateInit
<1>2. Init => CommandInv /\ ConfiguredProfile
  BY DEF Init, CommandInv, NoTestAtBoot, TestNeverRelaxes, ActiveIsPhysical,
     ConfiguredProfile
<1>3. Init /\ ConfiguredProfile => SoleInv
  BY DEF Init, SoleInv, FlagInv, BatchFlags, BatchResults, LoopFlags, CommitUnjudged,
     LoopPhase, BatchStage, CommitStage
<1>4. update = "none" => FullPowerThroughUpdate
  BY DEF FullPowerThroughUpdate, Running
<1> QED
  BY <1>1, <1>2, <1>3, <1>4, InitType DEF UpdateInv

(* A step of the control core, with or without an update beside it.        *)
LEMMA CoreStep ==
    ASSUME NoHold, UpdateInv, [Next]_vars
    PROVE  TypeOK' /\ CommandInv' /\ ConfiguredProfile' /\ SoleInv'
<1> USE DEF UpdateInv
<1>1. TypeOK'
  <2>1. CASE UNCHANGED vars
    BY <2>1 DEF vars, inputVars, configVars, testVars, deviceVars, statusVars,
       flagVars, batchVars, TypeOK
  <2> QED
    BY <2>1, UsbType, LoopType, OutsideType DEF Next
<1>2. CommandInv' /\ ConfiguredProfile'
  BY CommandStep, ProfileStep
<1>3. SoleInv'
  <2>1. SoleWriter' => SoleWriter
    BY KindsStay DEF SoleWriter
  <2> QED
    BY <2>1, FlagStep DEF SoleInv
<1> QED
  BY <1>1, <1>2, <1>3

(* The update begins: nothing but the budget of the environment changes.   *)
LEMMA BeginStep == ASSUME NoHold, UpdateInv, UpdateBegins PROVE UpdateInv'
<1> USE DEF UpdateInv
<1>1. budget' \in Budget /\ budget'.kinds = budget.kinds
  BY BudgetType DEF UpdateBegins, Disturb, TypeOK, Budget
<1>2. /\ UNCHANGED <<inputVars, configVars, testVars, deviceVars, statusVars>>
      /\ UNCHANGED <<activePercent, outputHealthy, controlReapplyRequired>>
      /\ UNCHANGED <<periodicReadCursor, pc, ret, batchVars>>
  BY DEF UpdateBegins
<1>3. TypeOK'
  BY <1>1, <1>2 DEF TypeOK, inputVars, configVars, testVars, deviceVars,
     statusVars, flagVars, batchVars
<1>4. CommandInv' /\ ConfiguredProfile'
  BY <1>2 DEF CommandInv, NoTestAtBoot, TestNeverRelaxes, ActiveIsPhysical,
     PhysicalPercent, ConfiguredProfile, inputVars, configVars, testVars
<1>5. SoleWriter' <=> SoleWriter
  BY <1>1 DEF SoleWriter
<1>6. SoleInv'
  <2>1. UNCHANGED truthVars
    BY <1>2 DEF truthVars, configVars, deviceVars, statusVars, flagVars
  <2> QED
    BY <2>1, <1>5, FlagStutter DEF SoleInv
<1>7. FullPowerThroughUpdate'
  <2> SUFFICES ASSUME SoleWriter, ~dryRun, ~controlReapplyRequired,
                      NEW i \in Controlled \ unjudged
               PROVE  OnTarget(i, 100)'
    BY <1>2, <1>5 DEF FullPowerThroughUpdate, Controlled, Enabled, Verified, configVars,
       statusVars
  <2>1. pc = "usb" /\ SafeForFirmwareUpdate
    BY DEF UpdateBegins
  <2>2. OnTarget(i, 100)
    BY <2>1, GateIsTruthful
    DEF SettledOtaGateIsTruthful, OtaGateIsTruthful, Controlled
  <2> QED
    BY <2>2, <1>2 DEF OnTarget, Target, FeedWanted, deviceVars, configVars
<1> QED
  BY <1>3, <1>4, <1>6, <1>7

(* Meanwhile time passes, the contacts change, and only another master can *)
(* move the inverters.                                                     *)
LEMMA MeanwhileStep == ASSUME NoHold, UpdateInv, Meanwhile PROVE UpdateInv'
<1>1. Next
  BY DEF Meanwhile, Next, Time, Environment
<1>2. TypeOK' /\ CommandInv' /\ ConfiguredProfile' /\ SoleInv'
  BY <1>1, CoreStep
<1>3. FullPowerThroughUpdate'
  <2> SUFFICES ASSUME SoleWriter', update' \in Running, ~dryRun',
                      ~controlReapplyRequired', NEW i \in (Controlled \ unjudged)'
               PROVE  OnTarget(i, 100)'
    BY DEF FullPowerThroughUpdate
  <2>1. SoleWriter
    BY <1>1, KindsStay DEF UpdateInv, SoleWriter
  <2>2. \A k \in Inverters : ~ForeignWrite(k)
    BY <2>1 DEF SoleWriter, ForeignWrite, Disturb
  <2>3. UNCHANGED <<power, feed, setup, unjudged, dryRun, controlReapplyRequired, update>>
    BY <2>2 DEF Meanwhile, ClockTick, ContactsChange, ClockWrap, configVars, deviceVars,
       statusVars
  <2>4. OnTarget(i, 100)
    BY <2>1, <2>3 DEF UpdateInv, FullPowerThroughUpdate, Controlled, Enabled, Verified
  <2> QED
    BY <2>3, <2>4 DEF OnTarget, Target, FeedWanted
<1> QED
  BY <1>2, <1>3 DEF UpdateInv

(* The restart, into the new image or in the middle of an update.          *)
LEMMA RestartStep ==
    ASSUME NoHold, UpdateInv, Restarts, budget' \in Budget,
           budget'.kinds = budget.kinds, update' \notin Running
    PROVE  UpdateInv'
<1> USE DEF UpdateInv
<1>1. TypeOK' /\ CommandInv'
  BY RestartType, RestartCommand
<1>2. ConfiguredProfile'
  BY DEF Restarts, ConfiguredProfile
<1>3. SoleInv'
  <2>1. SoleWriter' => SoleWriter
    BY DEF SoleWriter
  <2> QED
    BY <2>1, RestartFlags DEF SoleInv
<1>4. FullPowerThroughUpdate'
  BY DEF FullPowerThroughUpdate
<1> QED
  BY <1>1, <1>2, <1>3, <1>4

LEMMA UpdateStep ==
    ASSUME NoHold, UpdateInv, [UpdateNext]_controlUpdateVars PROVE UpdateInv'
<1>1. CASE update = "none" /\ Next /\ UNCHANGED update
  <2>1. FullPowerThroughUpdate'
    BY <1>1 DEF FullPowerThroughUpdate, Running
  <2> QED
    BY <1>1, <2>1, CoreStep DEF UpdateInv
<1>2. CASE UpdateBegins
  BY <1>2, BeginStep
<1>3. CASE UpdateEnds \/ UpdateIsVerified \/ TrialEnds \/ UNCHANGED controlUpdateVars
  <2>1. UNCHANGED vars /\ (update' \in Running => update \in Running)
    BY <1>3 DEF UpdateEnds, UpdateIsVerified, TrialEnds, controlUpdateVars, Running
  <2>2. TypeOK' /\ CommandInv' /\ ConfiguredProfile' /\ SoleInv'
    BY <2>1, CoreStep
  <2>3. FullPowerThroughUpdate'
    BY <2>1 DEF UpdateInv, FullPowerThroughUpdate, Controlled, Enabled, Verified,
       OnTarget, Target, FeedWanted, SoleWriter, vars, configVars, deviceVars, statusVars
  <2> QED
    BY <2>2, <2>3 DEF UpdateInv
<1>4. CASE RestartIntoUpdate
  <2>1. /\ Restarts /\ budget' \in Budget /\ budget'.kinds = budget.kinds
        /\ update' \notin Running
    BY <1>4 DEF RestartIntoUpdate, UpdateInv, TypeOK, Running
  <2> QED
    BY <2>1, RestartStep
<1>5. CASE RebootInUpdate
  <2>1. /\ Restarts /\ budget' \in Budget /\ budget'.kinds = budget.kinds
        /\ update' \notin Running
    BY <1>5, BudgetType DEF RebootInUpdate, Reboot, Disturb, UpdateInv, TypeOK,
       Budget, Running
  <2> QED
    BY <2>1, RestartStep
<1>6. CASE Meanwhile
  BY <1>6, MeanwhileStep
<1> QED
  BY <1>1, <1>2, <1>3, <1>4, <1>5, <1>6 DEF UpdateNext, Update

LEMMA UpdateInvariance == ASSUME NoHold PROVE UpdateSpec => []UpdateInv
<1>1. UpdateInv /\ [UpdateNext]_controlUpdateVars => UpdateInv'
  BY UpdateStep
<1> QED
  BY <1>1, UpdateStart, PTL DEF UpdateSpec

(* No inverter leaves full power between the look at the gate that starts  *)
(* an update and the restart into the new image, for every installation    *)
(* without a profile that holds (OtaManager.cpp 587 and loop()): none that *)
(* a batch or a poll has compared since its settings last changed.         *)
THEOREM FullPowerThroughUpdateAlways ==
    ASSUME NoHold PROVE UpdateSpec => []FullPowerThroughUpdate
<1>1. UpdateInv => FullPowerThroughUpdate
  BY DEF UpdateInv
<1> QED
  BY <1>1, UpdateInvariance, PTL

(* Updates, trials and restarts take nothing away from what the control    *)
(* core promises: TEST never relaxes and a healthy output is true.         *)
THEOREM ControlStaysTruthfulThroughUpdates ==
    ASSUME NoHold PROVE UpdateSpec => [](TestNeverRelaxes /\ HealthyIsTruthful)
<1>1. UpdateInv => TestNeverRelaxes
  BY DEF UpdateInv, CommandInv
<1>2. UpdateInv => HealthyIsTruthful
  BY DEF UpdateInv, SoleInv, FlagInv, LoopFlags, HealthyIsTruthful, FlagIsTruthful,
     Controlled
<1> QED
  BY <1>1, <1>2, UpdateInvariance, PTL
=============================================================================
