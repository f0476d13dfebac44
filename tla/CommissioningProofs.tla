------------------------ MODULE CommissioningProofs ------------------------
(* Proofs about the commissioning commands, for all ratings, curves, levels *)
(* and faults.                                                              *)
EXTENDS Commissioning, TLAPS

(* What CurveWithinCeiling says of one configuration. *)
Sound(c) ==
    c.ratingVerified =>
        /\ c.maxPvPowerW > 0 /\ c.inverterLimitW > 0
        /\ Quantity = 1 => c.inverterLimitW <= RegisterMax
        /\ \A l \in Level : c.rsePowerW[l] <= c.inverterLimitW

-----------------------------------------------------------------------------
(* Sanitizing yields a configuration, and a sound one. *)

LEMMA SanitizeSound ==
    ASSUME NEW c \in InverterConfig
    PROVE  /\ Sanitize(c) \in InverterConfig
           /\ Sound(Sanitize(c))
<1> DEFINE d == IF NeedsExclusion(c) THEN Excluded(c) ELSE c
<1>1. d \in InverterConfig
  BY DEF InverterConfig, Excluded
<1>2. d.ratingVerified =>
          /\ d.maxPvPowerW > 0 /\ d.inverterLimitW > 0
          /\ Quantity = 1 => d.inverterLimitW <= RegisterMax
  BY RulesAssumption DEF InverterConfig, Excluded, NeedsExclusion
<1>3. Sanitize(c) = CapCurve(d)
  BY DEF Sanitize
<1> HIDE DEF d
<1>4. CapCurve(d) \in InverterConfig
  BY <1>1 DEF CapCurve, InverterConfig
<1>5. Sound(CapCurve(d))
  BY <1>1, <1>2 DEF CapCurve, InverterConfig, Sound
<1>6. QED
  BY <1>3, <1>4, <1>5

(* A usable rating survives sanitizing. *)
LEMMA SanitizeKeepsRating ==
    ASSUME NEW c \in InverterConfig,
           c.ratingVerified, c.maxPvPowerW > 0, c.inverterLimitW > 0,
           Quantity = 1 => c.inverterLimitW <= RegisterMax
    PROVE  /\ Sanitize(c).ratingVerified
           /\ Sanitize(c).inverterLimitW = c.inverterLimitW
<1>1. ~NeedsExclusion(c)
  BY RulesAssumption DEF NeedsExclusion, InverterConfig
<1>2. Sanitize(c) = CapCurve(c)
  BY <1>1 DEF Sanitize
<1>3. QED
  BY <1>2 DEF CapCurve, InverterConfig

LEMMA AcceptedType ==
    ASSUME NEW w \in Nat
    PROVE  /\ Accepted(w) \in Nat /\ Accepted(w) <= Nameplate /\ Accepted(w) <= w
  BY CommissioningAssumption DEF Accepted, Smaller

-----------------------------------------------------------------------------
(* The inductive invariant: configurations are sound, registers hold what  *)
(* the inverter accepts, and the locals of a commit are what its stages    *)
(* read.                                                                   *)

Writable(w) == w <= Nameplate /\ (Quantity = 1 => w <= RegisterMax)

Locals ==
    /\ pc \in {"write", "check", "restore"} => Writable(before)
    /\ Writable(candidate.value)
    /\ pc = "check" /\ candidate.ok => candidate.value = Candidate

IInv == TypeOK /\ Sound(config) /\ Sound(saved) /\ Writable(power) /\ Locals

LEMMA InitIInv == Init => IInv
<1> SUFFICES ASSUME Init PROVE IInv
  OBVIOUS
<1> USE CommissioningAssumption, LoadAssumption
<1>1. config \in InverterConfig /\ saved \in InverterConfig
  BY DEF Init
<1>2. Sound(config) /\ Sound(saved)
  BY <1>1, SanitizeSound DEF Init
<1>3. power \in Nat /\ Writable(power)
  BY DEF Init, Writable
<1>4. TypeOK
  <2>1. physical \in Levels /\ stable \in Levels /\ dryRun \in BOOLEAN
    BY DEF Init
  <2>2. /\ candidate \in [ok : BOOLEAN, communicationOk : BOOLEAN, value : Nat]
        /\ answer \in Answer
    BY DEF Init, NoResult, Answer
  <2>3. budget \in 0..MaxFaults /\ wanted \in Nat /\ before \in Nat
    BY DEF Init
  <2>4. pc = "idle" /\ inverterAtTarget \in BOOLEAN /\ leftLive \in BOOLEAN
    BY DEF Init
  <2>5. QED
    BY <1>1, <1>3, <2>1, <2>2, <2>3, <2>4 DEF TypeOK
<1>5. Locals
  BY RulesAssumption DEF Init, Locals, NoResult, Writable
<1>6. QED
  BY <1>2, <1>3, <1>4, <1>5 DEF IInv

-----------------------------------------------------------------------------
(* What the steps have in common. *)

LEMMA SpentBudget ==
    ASSUME IInv, NEW kind, Disturb(kind) \/ UNCHANGED budget
    PROVE  budget' \in 0..MaxFaults
  BY CommissioningAssumption DEF IInv, TypeOK, Disturb

(* saveConfig() of any configuration leaves sound ones. *)
LEMMA SaveStep ==
    ASSUME IInv, NEW c \in InverterConfig, SaveSucceeds(c) \/ SaveFails(config)
    PROVE  /\ config' \in InverterConfig /\ saved' \in InverterConfig
           /\ Sound(config') /\ Sound(saved')
           /\ budget' \in 0..MaxFaults
<1>1. budget' \in 0..MaxFaults
  BY SpentBudget DEF SaveSucceeds, SaveFails
<1>2. CASE SaveSucceeds(c)
  BY <1>1, <1>2, SanitizeSound DEF SaveSucceeds
<1>3. CASE SaveFails(config)
  BY <1>1, <1>3 DEF SaveFails, IInv, TypeOK
<1>4. QED
  BY <1>2, <1>3

(* A command that ends at once and leaves the inverter alone. *)
LEMMA SettingsStep ==
    ASSUME IInv,
           config' \in InverterConfig, saved' \in InverterConfig,
           Sound(config'), Sound(saved'),
           budget' \in 0..MaxFaults, answer' \in Answer,
           pc = "idle", UNCHANGED <<device, input, pc, commit>>
    PROVE  IInv'
<1> USE DEF device, input, commit
<1>1. TypeOK'
  BY DEF IInv, TypeOK
<1>2. Locals' /\ Writable(power)'
  BY DEF IInv, Locals, Writable, Candidate
<1>3. QED
  BY <1>1, <1>2 DEF IInv, Sound

LEMMA SaveOrKeepStep ==
    ASSUME IInv, NEW c \in InverterConfig, NEW good \in Answer,
           SaveOrKeep(c, good),
           pc = "idle", UNCHANGED <<device, input, pc, commit>>
    PROVE  IInv'
<1>1. /\ config' \in InverterConfig /\ saved' \in InverterConfig
      /\ Sound(config') /\ Sound(saved')
      /\ budget' \in 0..MaxFaults
  BY SaveStep DEF SaveOrKeep
<1>2. answer' \in Answer
  BY DEF SaveOrKeep, Answer
<1>3. QED
  BY <1>1, <1>2, SettingsStep

-----------------------------------------------------------------------------
(* The commands. *)

LEMMA RatingCommandStep ==
    ASSUME IInv, NEW watts \in Watts,
           \/ Max(watts) \/ Limit(watts) \/ CommitOff(watts)
           \/ CommitWithRating(watts) \/ CommitDeferred(watts)
    PROVE  IInv'
<1> USE CommissioningAssumption DEF Command
<1>0. config \in InverterConfig /\ watts \in Nat
  BY DEF IInv, TypeOK
<1>a. {"OK", "PENDING"} \subseteq Answer
  BY DEF Answer
<1>1. CASE Max(watts)
  <2>1. MaxSettings(config, watts) \in InverterConfig
    BY <1>0 DEF InverterConfig, MaxSettings
  <2>2. QED
    BY <1>1, <1>a, <2>1, SaveOrKeepStep DEF Max
<1>2. CASE Limit(watts)
  <2>1. LimitSettings(config, watts) \in InverterConfig
    BY <1>0 DEF InverterConfig, LimitSettings
  <2>2. QED
    BY <1>2, <1>a, <2>1, SaveOrKeepStep DEF Limit
<1>3. CASE CommitOff(watts)
  <2>1. OffSettings(config, watts) \in InverterConfig
    BY <1>0 DEF InverterConfig, OffSettings
  <2>2. QED
    BY <1>3, <1>a, <2>1, SaveOrKeepStep DEF CommitOff
<1>4. CASE CommitWithRating(watts)
  <2>1. OnSettings(config, watts) \in InverterConfig
    BY <1>0 DEF InverterConfig, OnSettings
  <2>2. QED
    BY <1>4, <1>a, <2>1, SaveOrKeepStep DEF CommitWithRating
<1>5. CASE CommitDeferred(watts)
  <2>1. PendingSettings(config, watts) \in InverterConfig
    BY <1>0 DEF InverterConfig, PendingSettings, OnSettings
  <2>2. QED
    BY <1>5, <1>a, <2>1, SaveOrKeepStep DEF CommitDeferred
<1>6. QED
  BY <1>1, <1>2, <1>3, <1>4, <1>5

LEMMA IdStep ==
    ASSUME IInv, NEW on \in BOOLEAN, Id(on)
    PROVE  IInv'
<1>1. [config EXCEPT !.enabled = on] \in InverterConfig
  BY DEF IInv, TypeOK, InverterConfig
<1>2. "OK" \in Answer
  BY DEF Answer
<1>3. QED
  BY <1>1, <1>2, SaveOrKeepStep DEF Id, Command

LEMMA RseCfgAcceptedStep ==
    ASSUME IInv, NEW curve \in Curves, NEW mask \in FeedMasks,
           RseCfgAccepted(curve, mask)
    PROVE  IInv'
<1>1. RseCfgSettings(config, curve, mask) \in InverterConfig
  BY CommissioningAssumption DEF IInv, TypeOK, InverterConfig, RseCfgSettings
<1>2. "OK" \in Answer
  BY DEF Answer
<1>3. QED
  BY <1>1, <1>2, SaveOrKeepStep DEF RseCfgAccepted, Command

(* The levels that stay assigned are the ones found in range. *)
LEMMA RseCfgRejectedStep ==
    ASSUME IInv, NEW curve \in Curves, RseCfgRejected(curve)
    PROVE  IInv'
<1>0. config \in InverterConfig /\ Sound(config) /\ curve \in [Level -> Nat]
  BY CommissioningAssumption DEF IInv, TypeOK
<1> DEFINE mixed == [l \in Level |->
               IF \A bad \in OutOfRange(config, curve) : bad < l
               THEN curve[l] ELSE config.rsePowerW[l]]
<1>1. config' = [config EXCEPT !.rsePowerW = mixed]
  BY DEF RseCfgRejected, RejectedSettings
<1>2. mixed \in [Level -> Nat]
  BY <1>0 DEF InverterConfig
<1>3. ASSUME config.ratingVerified, NEW l \in Level
      PROVE  mixed[l] <= config.inverterLimitW
  <2>1. config.inverterLimitW > 0 /\ config.rsePowerW[l] <= config.inverterLimitW
    BY <1>0, <1>3 DEF Sound
  <2>2. CASE \A bad \in OutOfRange(config, curve) : bad < l
    <3>1. l \notin OutOfRange(config, curve)
      BY <2>2 DEF Level
    <3>2. ~(curve[l] > config.inverterLimitW)
      BY <1>3, <2>1, <3>1 DEF OutOfRange, HasRating
    <3>3. QED
      BY <1>0, <2>2, <3>2 DEF InverterConfig
  <2>3. CASE ~ \A bad \in OutOfRange(config, curve) : bad < l
    BY <2>1, <2>3
  <2>4. QED
    BY <2>2, <2>3
<1> HIDE DEF mixed
<1>4. config' \in InverterConfig
  BY <1>0, <1>1, <1>2 DEF InverterConfig
<1>5. Sound(config')
  BY <1>0, <1>1, <1>2, <1>3 DEF Sound, InverterConfig
<1>6. saved' \in InverterConfig /\ Sound(saved')
  BY DEF RseCfgRejected, IInv, TypeOK
<1>7. budget' \in 0..MaxFaults /\ answer' \in Answer
  BY DEF RseCfgRejected, IInv, TypeOK, Answer
<1>8. QED
  BY <1>4, <1>5, <1>6, <1>7, SettingsStep DEF RseCfgRejected, Command

-----------------------------------------------------------------------------
(* The stages of a commit. *)

LEMMA CandidateType ==
    ASSUME IInv, pc # "idle"
    PROVE  Candidate \in Nat /\ Candidate > 0 /\ wanted > 0
  BY CommissioningAssumption, RulesAssumption
     DEF IInv, TypeOK, Candidate, ValidationWatts, FitsRegisters

LEMMA CommitStartStep ==
    ASSUME IInv, NEW watts \in Watts, CommitStart(watts)
    PROVE  IInv'
<1> USE CommissioningAssumption
    DEF CommitStart, Command, device, input, IInv
<1>1. TypeOK'
  BY DEF TypeOK, Rated, HasRating
<1>2. Locals' /\ Writable(power)' /\ Sound(config)' /\ Sound(saved)'
  BY DEF Locals, Writable, Sound
<1>3. QED
  BY <1>1, <1>2

LEMMA CommitReadStep ==
    ASSUME IInv, CommitRead
    PROVE  IInv'
<1> USE DEF CommitRead, device, input, IInv
<1>1. TypeOK'
  BY DEF TypeOK, Rated, HasRating
<1>2. Locals' /\ Writable(power)' /\ Sound(config)' /\ Sound(saved)'
  BY DEF Locals, Writable, Sound
<1>3. QED
  BY <1>1, <1>2

(* A step back to "idle" that forgets the locals and keeps register and    *)
(* contacts.                                                               *)
LEMMA IdleStep ==
    ASSUME IInv,
           config' \in InverterConfig, saved' \in InverterConfig,
           Sound(config'), Sound(saved'),
           power' \in Nat, Writable(power'), inverterAtTarget' \in BOOLEAN,
           stable' \in Levels, UNCHANGED <<physical, dryRun>>,
           budget' \in 0..MaxFaults, answer' \in Answer,
           pc' = "idle", Forget
    PROVE  IInv'
<1>1. TypeOK'
  BY DEF Forget, NoResult, IInv, TypeOK
<1>2. Locals'
  BY CommissioningAssumption, RulesAssumption
     DEF Forget, NoResult, Locals, Writable
<1>3. Writable(power)' /\ Sound(config)' /\ Sound(saved)'
  BY DEF Writable, Sound
<1>4. QED
  BY <1>1, <1>2, <1>3 DEF IInv

LEMMA CommitReadFailsStep ==
    ASSUME IInv, CommitReadFails
    PROVE  IInv'
<1> DEFINE c == PendingSettings(config, wanted)
<1>1. c \in InverterConfig
  BY DEF IInv, TypeOK, InverterConfig, PendingSettings, OnSettings
<1>2. /\ config' \in InverterConfig /\ saved' \in InverterConfig
      /\ Sound(config') /\ Sound(saved')
  <2>1. CASE config' = Sanitize(c) /\ saved' = Sanitize(c)
    BY <1>1, <2>1, SanitizeSound
  <2>2. CASE UNCHANGED <<config, saved>>
    BY <2>2 DEF IInv, TypeOK
  <2>3. QED
    BY <2>1, <2>2 DEF CommitReadFails
<1>3. budget' \in 0..MaxFaults /\ answer' \in Answer
  BY SpentBudget DEF CommitReadFails, Answer
<1>4. /\ power' \in Nat /\ Writable(power') /\ inverterAtTarget' \in BOOLEAN
      /\ stable' \in Levels /\ UNCHANGED <<physical, dryRun>>
  BY DEF CommitReadFails, device, input, IInv, TypeOK
<1>5. pc' = "idle" /\ Forget
  BY DEF CommitReadFails
<1>6. QED
  BY <1>2, <1>3, <1>4, <1>5, IdleStep

LEMMA CommitWriteStep ==
    ASSUME IInv, CommitWrite
    PROVE  IInv'
<1>0. Candidate \in Nat /\ Candidate > 0 /\ power \in Nat /\ pc = "write"
  BY CandidateType DEF CommitWrite, IInv, TypeOK
<1>1. /\ Accepted(Candidate) \in Nat /\ Accepted(Candidate) <= Nameplate
      /\ Accepted(Candidate) <= Candidate
  BY <1>0, AcceptedType
<1>2. Writable(Accepted(Candidate)) /\ Writable(power)
  <2>1. Quantity = 1 => Candidate <= RegisterMax
    BY RulesAssumption DEF Candidate, ValidationWatts, FitsRegisters, IInv, TypeOK
  <2>2. QED
    BY <1>0, <1>1, <2>1, RulesAssumption DEF Writable, IInv
<1>3. power' \in {power, Accepted(Candidate)}
  BY DEF CommitWrite
<1>4. \/ candidate' = ReadBack(power') /\ UNCHANGED budget
      \/ candidate' = ReadBack(power) /\ Disturb("bus")
      \/ /\ \E heard \in BOOLEAN :
                candidate' = [NoResult EXCEPT !.communicationOk = heard]
         /\ Disturb("bus")
  BY DEF CommitWrite
<1>5. /\ candidate' \in [ok : BOOLEAN, communicationOk : BOOLEAN, value : Nat]
      /\ Writable(candidate'.value)
      /\ candidate'.ok => candidate'.value = Candidate
  <2>1. Writable(0)
    BY CommissioningAssumption, RulesAssumption DEF Writable
  <2>2. power' \in Nat /\ Writable(power')
    BY <1>0, <1>1, <1>2, <1>3
  <2>3. ASSUME NEW value \in Nat, Writable(value),
               candidate' = ReadBack(value)
        PROVE  /\ candidate' \in [ok : BOOLEAN, communicationOk : BOOLEAN,
                                  value : Nat]
               /\ candidate'.value = value
               /\ candidate'.ok => value = Candidate
    BY <1>0, <2>3 DEF ReadBack
  <2>4. CASE candidate' = ReadBack(power') \/ candidate' = ReadBack(power)
    BY <1>0, <1>2, <2>2, <2>3, <2>4
  <2>5. CASE \E heard \in BOOLEAN :
                 candidate' = [NoResult EXCEPT !.communicationOk = heard]
    <3>1. PICK heard \in BOOLEAN :
                 candidate' = [NoResult EXCEPT !.communicationOk = heard]
      BY <2>5
    <3>2. candidate' = [ok |-> FALSE, communicationOk |-> heard, value |-> 0]
      BY <3>1 DEF NoResult
    <3>3. QED
      BY <2>1, <3>2
  <2>6. QED
    BY <1>4, <2>4, <2>5
<1>6. budget' \in 0..MaxFaults
  BY <1>4, SpentBudget
<1>7. /\ UNCHANGED <<config, saved, inverterAtTarget, input, wanted, before,
                     leftLive, answer>>
      /\ pc' = "check"
  BY DEF CommitWrite
<1>8. TypeOK'
  <2>1. power' \in Nat
    BY <1>0, <1>1, <1>3
  <2>2. QED
    BY <1>0, <1>5, <1>6, <1>7, <2>1 DEF IInv, TypeOK, input, Rated, HasRating
<1>9. Candidate' = Candidate
  BY <1>7 DEF Candidate
<1>10. Locals'
  BY <1>0, <1>5, <1>7, <1>9 DEF IInv, Locals, Writable
<1>11. Writable(power)' /\ Sound(config)' /\ Sound(saved)'
  BY <1>2, <1>3, <1>7 DEF IInv, Writable, Sound
<1>12. QED
  BY <1>8, <1>10, <1>11 DEF IInv

LEMMA CommitLeavesLiveStep ==
    ASSUME IInv, CommitLeavesLive \/ CommitNotConfirmed
    PROVE  IInv'
<1> USE DEF CommitLeavesLive, CommitNotConfirmed, device, input, commit, IInv
<1>1. TypeOK'
  BY DEF TypeOK, Rated, HasRating
<1>2. Locals' /\ Writable(power)' /\ Sound(config)' /\ Sound(saved)'
  BY DEF Locals, Writable, Sound
<1>3. QED
  BY <1>1, <1>2

LEMMA CommitNotSavedStep ==
    ASSUME IInv, CommitNotSaved
    PROVE  IInv'
<1> USE DEF CommitNotSaved, SaveFails, device, input, commit, IInv
<1>1. budget' \in 0..MaxFaults
  BY SpentBudget
<1>2. TypeOK'
  BY <1>1 DEF TypeOK, Rated, HasRating
<1>3. Locals' /\ Writable(power)' /\ Sound(config)' /\ Sound(saved)'
  BY DEF Locals, Writable, Sound
<1>4. QED
  BY <1>2, <1>3

(* The ceiling that a commit accepts is a usable rating. *)
LEMMA WithCeilingRated ==
    ASSUME IInv, pc = "check", HasCeiling
    PROVE  /\ WithCeiling \in InverterConfig
           /\ WithCeiling.ratingVerified /\ WithCeiling.maxPvPowerW > 0
           /\ WithCeiling.inverterLimitW > 0
           /\ Quantity = 1 => WithCeiling.inverterLimitW <= RegisterMax
<1>1. candidate.value \in Nat /\ Writable(candidate.value)
  BY DEF IInv, TypeOK, Locals
<1>2. candidate.value > 0
  BY <1>1, CandidateType DEF HasCeiling, IInv, Locals
<1>3. wanted \in Nat /\ wanted > 0 /\ config \in InverterConfig
  BY CandidateType DEF IInv, TypeOK
<1>4. QED
  BY <1>1, <1>2, <1>3
     DEF WithCeiling, RatedSettings, LimitSettings, OnSettings, InverterConfig, Writable

LEMMA CommitAcceptedStep ==
    ASSUME IInv, CommitAccepted
    PROVE  IInv'
<1>1. SaveSucceeds(WithCeiling) /\ WithCeiling \in InverterConfig
  BY WithCeilingRated DEF CommitAccepted
<1>2. /\ config' \in InverterConfig /\ saved' \in InverterConfig
      /\ Sound(config') /\ Sound(saved') /\ budget' \in 0..MaxFaults
  BY <1>1, SaveStep
<1>3. answer' \in Answer /\ inverterAtTarget' \in BOOLEAN
  BY DEF CommitAccepted, Answer
<1>4. /\ power' \in Nat /\ Writable(power')
      /\ stable' \in Levels /\ UNCHANGED <<physical, dryRun>>
  BY DEF CommitAccepted, input, IInv, TypeOK
<1>5. pc' = "idle" /\ Forget
  BY DEF CommitAccepted
<1>6. QED
  BY <1>2, <1>3, <1>4, <1>5, IdleStep

(* The register takes the value it had: the inverter accepts it unclamped. *)
LEMMA BeforeIsAccepted ==
    ASSUME IInv, pc = "restore"
    PROVE  Accepted(before) = before
  BY CommissioningAssumption
     DEF IInv, TypeOK, Locals, Writable, Accepted, Smaller

LEMMA CommitRestoreStep ==
    ASSUME IInv, CommitRestore
    PROVE  IInv'
<1>1. before \in Nat /\ Writable(before) /\ pc = "restore"
  BY DEF CommitRestore, IInv, TypeOK, Locals
<1>2. power' \in {power, before}
  BY <1>1, BeforeIsAccepted DEF CommitRestore
<1>3. power' \in Nat /\ Writable(power')
  BY <1>1, <1>2 DEF IInv, TypeOK
<1>4. budget' \in 0..MaxFaults /\ answer' \in Answer
  BY SpentBudget DEF CommitRestore, Answer
<1>5. /\ config' \in InverterConfig /\ saved' \in InverterConfig
      /\ Sound(config') /\ Sound(saved')
      /\ inverterAtTarget' \in BOOLEAN /\ stable' \in Levels
      /\ UNCHANGED <<physical, dryRun>>
  BY DEF CommitRestore, IInv, TypeOK
<1>6. pc' = "idle" /\ Forget
  BY DEF CommitRestore
<1>7. QED
  BY <1>3, <1>4, <1>5, <1>6, IdleStep

-----------------------------------------------------------------------------
(* The contacts and the control core. *)

(* A batch writes at most the ceiling, which a register can hold. *)
LEMMA BatchStep ==
    ASSUME IInv, NEW c \in InverterConfig, Sound(c),
           NEW level \in Levels, NEW locked \in BOOLEAN,
           Batch(c, level, locked)
    PROVE  /\ power' \in Nat /\ Writable(power')
           /\ inverterAtTarget' \in BOOLEAN
           /\ budget' \in 0..MaxFaults
<1>0. /\ power \in Nat /\ Writable(power) /\ inverterAtTarget \in BOOLEAN
      /\ budget \in 0..MaxFaults
  BY DEF IInv, TypeOK
<1> DEFINE target == WattsForPercent(c.rsePowerW, c.inverterLimitW, level)
<1>1. CASE UNCHANGED <<device, budget>>
  BY <1>0, <1>1 DEF device
<1>2. CASE /\ Controllable(c) /\ level \in Level
           /\ power' = Accepted(target)
           /\ inverterAtTarget' = (power' = target) /\ UNCHANGED budget
  <2>1. target \in Nat /\ (Quantity = 1 => target <= RegisterMax)
    BY <1>0, <1>2, RulesAssumption
       DEF InverterConfig, WattsForPercent, Controllable, Sound
  <2> HIDE DEF target
  <2>2. Accepted(target) \in Nat /\ Writable(Accepted(target))
    BY <2>1, AcceptedType, CommissioningAssumption, RulesAssumption
       DEF Writable
  <2>3. QED
    BY <1>0, <1>2, <2>2
<1>3. CASE Disturb("bus") /\ inverterAtTarget' = FALSE /\ UNCHANGED power
  BY <1>0, <1>3, SpentBudget
<1>4. QED
  BY <1>1, <1>2, <1>3 DEF Batch

(* A step of the control core or of SAFE while no commit runs. *)
LEMMA IdleControlStep ==
    ASSUME IInv, pc = "idle", UNCHANGED <<physical, pc, commit>>,
           config' \in InverterConfig, saved' \in InverterConfig,
           Sound(config'), Sound(saved'),
           power' \in Nat, Writable(power'), inverterAtTarget' \in BOOLEAN,
           stable' \in Levels, dryRun' \in BOOLEAN,
           budget' \in 0..MaxFaults, answer' \in Answer
    PROVE  IInv'
<1>1. TypeOK'
  BY DEF IInv, TypeOK, commit
<1>2. Locals'
  BY DEF IInv, Locals, Writable, commit
<1>3. Writable(power)' /\ Sound(config)' /\ Sound(saved)'
  BY DEF Writable, Sound
<1>4. QED
  BY <1>1, <1>2, <1>3 DEF IInv

LEMMA ContactsChangeStep ==
    ASSUME IInv, ContactsChange
    PROVE  IInv'
<1> USE DEF ContactsChange, device, commit
<1>1. TypeOK'
  BY DEF IInv, TypeOK, Rated, HasRating
<1>2. QED
  BY <1>1 DEF IInv, Locals, Writable, Sound, Candidate

LEMMA RseTransitionStep ==
    ASSUME IInv, RseTransition
    PROVE  IInv'
<1>1. /\ config \in InverterConfig /\ Sound(config)
      /\ saved \in InverterConfig /\ Sound(saved)
      /\ physical \in Levels /\ dryRun \in BOOLEAN /\ answer \in Answer
  BY DEF IInv, TypeOK
<1>2. /\ power' \in Nat /\ Writable(power')
      /\ inverterAtTarget' \in BOOLEAN /\ budget' \in 0..MaxFaults
  BY <1>1, BatchStep DEF RseTransition
<1>3. QED
  BY <1>1, <1>2, IdleControlStep DEF RseTransition

LEMMA DryRunStep ==
    ASSUME IInv, DryRunOn \/ DryRunNotOff \/ DryRunOff
    PROVE  IInv'
<1>1. /\ config \in InverterConfig /\ physical \in Levels
      /\ stable \in Levels /\ dryRun \in BOOLEAN
      /\ {"OK", "ERROR"} \subseteq Answer
  BY DEF IInv, TypeOK, Answer
<1>2. pc = "idle"
  BY DEF DryRunOn, DryRunNotOff, DryRunOff, Command
<1>3. CASE DryRunOn \/ DryRunNotOff
  <2>1. SaveSucceeds(config) \/ SaveFails(config)
    BY <1>3 DEF DryRunOn, DryRunNotOff, SaveOrKeep
  <2>2. /\ config' \in InverterConfig /\ saved' \in InverterConfig
        /\ Sound(config') /\ Sound(saved') /\ budget' \in 0..MaxFaults
    BY <1>1, <2>1, SaveStep
  <2>3. answer' \in Answer /\ dryRun' \in BOOLEAN
    BY <1>1, <1>3 DEF DryRunOn, DryRunNotOff, SaveOrKeep, input
  <2>4. UNCHANGED <<device, physical, stable, pc, commit>>
    BY <1>3 DEF DryRunOn, DryRunNotOff, input
  <2>5. /\ power' \in Nat /\ Writable(power') /\ inverterAtTarget' \in BOOLEAN
    BY <2>4 DEF IInv, TypeOK, device
  <2>6. QED
    BY <1>1, <1>2, <2>2, <2>3, <2>4, <2>5, IdleControlStep
<1>4. CASE DryRunOff
  <2>1. /\ Sanitize(config) \in InverterConfig /\ Sound(Sanitize(config))
    BY <1>1, SanitizeSound
  <2>2. /\ power' \in Nat /\ Writable(power')
        /\ inverterAtTarget' \in BOOLEAN /\ budget' \in 0..MaxFaults
    BY <1>1, <1>4, <2>1, BatchStep DEF DryRunOff
  <2>3. /\ config' \in InverterConfig /\ saved' \in InverterConfig
        /\ Sound(config') /\ Sound(saved')
    BY <1>4, <2>1 DEF DryRunOff
  <2>4. QED
    BY <1>1, <1>2, <1>4, <2>2, <2>3, IdleControlStep DEF DryRunOff
<1>5. QED
  BY <1>3, <1>4

LEMMA StutterStep ==
    ASSUME IInv, UNCHANGED vars
    PROVE  IInv'
<1> USE DEF vars, device, input, commit
<1>1. TypeOK'
  BY DEF IInv, TypeOK, Rated, HasRating
<1>2. Locals' /\ Writable(power)' /\ Sound(config)' /\ Sound(saved)'
  BY DEF IInv, Locals, Writable, Sound, Candidate
<1>3. QED
  BY <1>1, <1>2 DEF IInv

LEMMA NextIInv == IInv /\ [Next]_vars => IInv'
<1> SUFFICES ASSUME IInv, [Next]_vars PROVE IInv'
  OBVIOUS
<1>1. CASE UsbCommand
  BY <1>1, RatingCommandStep, IdStep, RseCfgAcceptedStep, RseCfgRejectedStep,
     CommitStartStep, DryRunStep DEF UsbCommand
<1>2. CASE CommitStep
  BY <1>2, CommitReadStep, CommitReadFailsStep, CommitWriteStep,
     CommitLeavesLiveStep, CommitAcceptedStep, CommitNotSavedStep,
     CommitRestoreStep DEF CommitStep
<1>3. CASE ContactsChange \/ RseTransition
  BY <1>3, ContactsChangeStep, RseTransitionStep
<1>4. CASE UNCHANGED vars
  BY <1>4, StutterStep
<1>5. QED
  BY <1>1, <1>2, <1>3, <1>4 DEF Next

-----------------------------------------------------------------------------
(* Every reachable state is well typed: a commit runs only for an inverter *)
(* whose rating is not confirmed yet (processUsbCommand()).                *)
THEOREM TypeInvariant == Spec => []TypeOK
<1>1. IInv => TypeOK
  BY DEF IInv
<1>2. QED
  BY InitIInv, NextIInv, <1>1, PTL DEF Spec

(* Whatever order commands, commits, faults and failed saves come in, a    *)
(* verified rating in use or in flash comes with a ceiling that a register *)
(* can carry and a curve below it (processUsbCommand(), sanitize()).       *)
THEOREM CurveWithinCeilingAlways == Spec => []CurveWithinCeiling
<1>1. IInv => CurveWithinCeiling
  BY DEF IInv, Sound, CurveWithinCeiling
<1>2. QED
  BY InitIInv, NextIInv, <1>1, PTL DEF Spec

-----------------------------------------------------------------------------
(* The end of a commit. *)

EndsWell ==
    \/ answer' \in {"OK", "CLAMPED"} /\ Rated' /\ saved' = config'
    \/ answer' \in {"PENDING", "ERROR"} /\ power' = power /\ ~Rated'
    \/ answer' = "ERROR restored" /\ power' = before /\ ~Rated'
    \/ answer' = "ERROR restore failed" /\ ~Rated'

LEMMA CommitAcceptedEndsWell ==
    ASSUME IInv, CommitAccepted
    PROVE  EndsWell
<1>1. pc = "check" /\ HasCeiling /\ answer' \in {"OK", "CLAMPED"}
  BY DEF CommitAccepted
<1>2. config' = Sanitize(WithCeiling) /\ saved' = config'
  BY DEF CommitAccepted, SaveSucceeds
<1>3. Rated'
  BY <1>1, <1>2, WithCeilingRated, SanitizeKeepsRating DEF Rated, HasRating
<1>4. QED
  BY <1>1, <1>2, <1>3 DEF EndsWell

LEMMA CommitReadFailsEndsWell ==
    ASSUME IInv, CommitReadFails
    PROVE  EndsWell
<1> DEFINE c == PendingSettings(config, wanted)
<1>1. power' = power /\ answer' \in {"PENDING", "ERROR"}
  BY DEF CommitReadFails, device
<1>2. ~Rated'
  <2>1. CASE config' = Sanitize(c)
    <3>1. ~Sanitize(c).ratingVerified
      BY DEF IInv, TypeOK, InverterConfig, Sanitize, CapCurve, Excluded, PendingSettings,
         OnSettings
    <3>2. QED
      BY <2>1, <3>1 DEF Rated, HasRating
  <2>2. CASE UNCHANGED config
    <3>1. ~Rated
      BY DEF CommitReadFails, IInv, TypeOK
    <3>2. QED
      BY <2>2, <3>1 DEF Rated, HasRating
  <2>3. QED
    BY <2>1, <2>2 DEF CommitReadFails
<1>3. QED
  BY <1>1, <1>2 DEF EndsWell

LEMMA CommitRestoreEndsWell ==
    ASSUME IInv, CommitRestore
    PROVE  EndsWell
<1>1. pc = "restore" /\ UNCHANGED config
  BY DEF CommitRestore
<1>2. ~Rated'
  <2>1. ~Rated
    BY <1>1 DEF IInv, TypeOK
  <2>2. QED
    BY <1>1, <2>1 DEF Rated, HasRating
<1>3. CASE power' = Accepted(before) /\ answer' = "ERROR restored"
  BY <1>1, <1>2, <1>3, BeforeIsAccepted DEF EndsWell
<1>4. CASE answer' = "ERROR restore failed"
  BY <1>2, <1>4 DEF EndsWell
<1>5. QED
  BY <1>3, <1>4 DEF CommitRestore

(* The stages before the last one do not end a commit, and no other step   *)
(* runs while a commit does, but for the contacts.                         *)
LEMMA OnlyThreeEnds ==
    ASSUME IInv, Next, pc # "idle", pc' = "idle"
    PROVE  CommitAccepted \/ CommitReadFails \/ CommitRestore
<1>1. ~UsbCommand /\ ~RseTransition
  BY DEF UsbCommand, Max, Limit, CommitOff, CommitWithRating, CommitDeferred,
         CommitStart, RseCfgRejected, RseCfgAccepted, Id, DryRunOn, DryRunOff,
         DryRunNotOff, Command, RseTransition
<1>2. ~ContactsChange
  BY DEF ContactsChange
<1>3. /\ ~CommitRead /\ ~CommitWrite /\ ~CommitLeavesLive
      /\ ~CommitNotSaved /\ ~CommitNotConfirmed
  BY DEF CommitRead, CommitWrite, CommitLeavesLive, CommitNotSaved,
         CommitNotConfirmed
<1>4. QED
  BY <1>1, <1>2, <1>3 DEF Next, CommitStep

(* A commit ends with a rated inverter and the saved rating, or with the   *)
(* register as it found it and no rating, or it says that it could not     *)
(* restore the register (processUsbCommand(), commit).                     *)
THEOREM CommitEndsRatedOrRestoredAlways == Spec => CommitEndsRatedOrRestored
<1>1. IInv /\ [Next]_vars =>
          [pc # "idle" /\ pc' = "idle" =>
        \/ answer' \in {"OK", "CLAMPED"} /\ Rated' /\ saved' = config'
        \/ answer' \in {"PENDING", "ERROR"} /\ power' = power /\ ~Rated'
        \/ answer' = "ERROR restored" /\ power' = before /\ ~Rated'
        \/ answer' = "ERROR restore failed" /\ ~Rated']_vars
  <2>1. ASSUME IInv, Next, pc # "idle", pc' = "idle"
        PROVE  EndsWell
    BY <2>1, OnlyThreeEnds, CommitAcceptedEndsWell, CommitReadFailsEndsWell,
       CommitRestoreEndsWell
  <2>2. QED
    BY <2>1 DEF EndsWell
<1>2. QED
  BY InitIInv, NextIInv, <1>1, PTL DEF Spec, CommitEndsRatedOrRestored
=============================================================================
