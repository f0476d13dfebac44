------------------------- MODULE ConfigStoreProofs -------------------------
(***************************************************************************)
(* Theorems about the configuration store (ConfigStore.tla), for any       *)
(* settings, profiles, number of generations, firmware images of the two   *)
(* releases, storage faults and number of them.                            *)
(***************************************************************************)
EXTENDS ConfigStore, TLAPS

-----------------------------------------------------------------------------
(* Shapes. *)

StoreShape ==
    /\ slot \in [Slot -> Record \cup {NoRecord}]
    /\ keys \in Settings \cup {NoKeys}
    /\ firmware \in Firmwares
    /\ ram \in Config /\ previous \in Config
    /\ activeConfigSlot \in Slot \cup {-1} /\ configGeneration \in Generation
    /\ pc \in {"off", "idle", "save", "verify", "cleanup"}
    /\ caller \in {"usb", "migrate", "legacy"}
    /\ inherited \subseteq Config
    /\ budget \in 0..MaxFaults
    /\ pc = "off" => activeConfigSlot = -1

Flag == validating \in BOOLEAN

(* What the loader of an image finds: nothing, or the newest record of the *)
(* newest schema that the image knows.                                     *)
NothingFound(image) == \A s \in Slot : slot[s].schema \notin 1..image

Selects(image, s) ==
    /\ s \in Slot /\ slot[s].schema \in 1..image
    /\ \A t \in Slot :
          slot[t].schema \in 1..image => slot[t].schema <= slot[s].schema
    /\ slot[1 - s].schema = slot[s].schema =>
          (s = 1 <=> GenerationIsNewer(slot[1].generation, slot[0].generation))

FromKeys == IF keys # NoKeys THEN [Default EXCEPT !.settings = keys] ELSE Default

(* While an image may still be rejected, the older one finds what it ran   *)
(* with: the only save of the newer one is that of its migration, which    *)
(* leaves the slot of the older record alone.                              *)
Trial ==
    validating =>
        /\ firmware = 5 /\ Loaded(4) \in inherited
        /\ NothingFound(4) => Default \in inherited
        /\ pc \in {"save", "verify"} =>
              IF activeConfigSlot = -1 THEN NothingFound(4)
                                       ELSE Selects(4, activeConfigSlot)
        /\ pc \in {"save", "verify"} => caller # "usb"
        /\ pc \in {"save", "verify"} /\ caller = "legacy" => NothingFound(4)
        /\ pc = "cleanup" => NothingFound(4)

(* Outside a save: the position in RAM is that of the record in use, which *)
(* holds the settings in use.                                              *)
Positioned ==
    IF activeConfigSlot = -1 THEN NothingFound(firmware)
    ELSE /\ Selects(firmware, activeConfigSlot)
         /\ configGeneration = slot[activeConfigSlot].generation

(* During a save the settings that it replaces are still those of the      *)
(* flash, until the whole new record is.                                   *)
Saving ==
    /\ caller # "usb" => ram = previous
    /\ Positioned /\ previous = Loaded(firmware)

Replaced ==
    /\ caller # "usb" => ram = previous
    /\ slot[TargetSlot] = MakeRecord(NextGeneration)
    /\ Selects(firmware, TargetSlot)

Consistent ==
    /\ firmware < 5 => ram.plexlog = TRUE /\ previous.plexlog = TRUE
    /\ pc = "off" => ram = Default /\ previous = Default
    /\ pc \in {"idle", "cleanup"} =>
           Positioned /\ ram = Loaded(firmware) /\ previous = ram
    /\ pc = "cleanup" => ~NothingFound(firmware)
    /\ pc = "save" => Saving
    /\ pc = "verify" => Replaced \/ (Saving /\ slot[TargetSlot] = NoRecord)

LoaderFacts ==
    \A image \in 4..NewestSchema :
        /\ Loaded(image) \in Config
        /\ image < 5 => Loaded(image).plexlog = TRUE
        /\ NothingFound(image) \/ \E s \in Slot : Selects(image, s)
        /\ NothingFound(image) =>
              FoundSchemas(image) = {} /\ Loaded(image) = FromKeys
        /\ \A s \in Slot : Selects(image, s) =>
              /\ FoundSchemas(image) # {} /\ NewestFound(image) = slot[s].schema
              /\ SelectedSlot(NewestFound(image)) = s
              /\ Loaded(image) = ApplyRecord(slot[s])

-----------------------------------------------------------------------------
(* Configurations and records. *)

LEMMA Constants ==
    /\ Default \in Config /\ Default.plexlog = TRUE
    /\ NoRecord.schema = 0
    /\ Firmwares \subseteq 4..5 /\ NewestSchema = 5
    /\ \A r \in Record : r.schema \in 1..5 /\ r.generation \in Generation /\ r.config \in Config
<1>1. Default \in Config /\ Default.plexlog = TRUE
  BY StoreAssumption DEF Default, Config
<1>2. NoRecord.schema = 0
  BY DEF NoRecord
<1>3. Firmwares \subseteq 4..5 /\ NewestSchema = 5
  BY StoreAssumption DEF NewestSchema
<1>4. \A r \in Record : r.schema \in 1..5 /\ r.generation \in Generation /\ r.config \in Config
  BY DEF Record, NewestSchema
<1> QED
  BY <1>1, <1>2, <1>3, <1>4

(* Counters stay in their range, the successor of a generation is newer    *)
(* than it, and it is not newer than its successor.                        *)
LEMMA GenerationLemma ==
    ASSUME NEW g \in Generation
    PROVE  /\ (g + 1) % Modulus \in Generation /\ (g - 1) % Modulus \in Generation
           /\ GenerationIsNewer((g + 1) % Modulus, g)
           /\ ~GenerationIsNewer(g, (g + 1) % Modulus)
<1>1. Modulus \in Nat /\ Modulus >= 4 /\ g \in 0..Modulus - 1
  BY StoreAssumption DEF Generation
<1>2. (g + 1) % Modulus = IF g = Modulus - 1 THEN 0 ELSE g + 1
  BY <1>1, SMTT(20)
<1>3. (g - 1) % Modulus \in 0..Modulus - 1
  BY <1>1, SMTT(20)
<1>4. 1 % Modulus = 1 /\ (1 - Modulus) % Modulus = 1
  BY <1>1, SMTT(20)
<1>5. (-1) % Modulus = Modulus - 1 /\ (Modulus - 1) % Modulus = Modulus - 1
  BY <1>1, SMTT(20)
<1>6. Modulus \div 2 >= 2 /\ Modulus \div 2 < Modulus - 1
  BY <1>1, SMTT(20)
<1>7. ((g + 1) % Modulus) - g \in {1, 1 - Modulus}
      /\ g - ((g + 1) % Modulus) \in {-1, Modulus - 1}
  BY <1>1, <1>2
<1>8. GenerationIsNewer((g + 1) % Modulus, g)
  BY <1>1, <1>4, <1>6, <1>7 DEF GenerationIsNewer
<1>9. ~GenerationIsNewer(g, (g + 1) % Modulus)
  BY <1>1, <1>5, <1>6, <1>7 DEF GenerationIsNewer
<1> QED
  BY <1>1, <1>2, <1>3, <1>8, <1>9 DEF Generation

(* What a migration makes of a record is a configuration. *)
LEMMA ApplyRecordShape ==
    ASSUME NEW r \in Record
    PROVE  /\ ApplyRecord(r) \in Config
           /\ r.schema < 5 => ApplyRecord(r).plexlog = TRUE
           /\ r.schema \in 4..5 /\ (r.schema < 5 => r.config.plexlog = TRUE) =>
                 ApplyRecord(r) = r.config
<1>1. r.schema \in 1..5 /\ r.config \in Config
  BY Constants
<1>2. "StrictOneHot4" \in RseProfile
  BY StoreAssumption
<1>3. (r.schema >= 5 => r.config.plexlog) \in BOOLEAN
  BY Zenon
<1>4. ApplyRecord(r) \in Config
  BY <1>1, <1>2, <1>3 DEF ApplyRecord, Config
<1>5. ASSUME r.schema < 5 PROVE ApplyRecord(r).plexlog = TRUE
  <2>1. (r.schema >= 5 => r.config.plexlog) = TRUE
    BY <1>1, <1>5
  <2> QED
    BY <2>1 DEF ApplyRecord
<1>6. ASSUME r.schema \in 4..5, r.schema < 5 => r.config.plexlog = TRUE
      PROVE  ApplyRecord(r) = r.config
  <2>1. r.config = [settings |-> r.config.settings, rseProfile |-> r.config.rseProfile,
                    plexlog |-> r.config.plexlog]
        /\ r.config.plexlog \in BOOLEAN
    BY <1>1 DEF Config
  <2>2. (r.schema >= 5 => r.config.plexlog) = r.config.plexlog
    <3>1. CASE r.schema < 5
      BY <1>5, <1>6, <3>1
    <3>2. CASE r.schema = 5
      BY <2>1, <3>2
    <3> QED
      BY <1>1, <3>1, <3>2
  <2> QED
    BY <1>6, <2>1, <2>2 DEF ApplyRecord
<1> QED
  BY <1>4, <1>5, <1>6

LEMMA Loader == StoreShape => LoaderFacts
<1> SUFFICES ASSUME StoreShape, NEW image \in 4..NewestSchema
             PROVE  LoaderFacts!(image)
  BY DEF LoaderFacts
<1>1. image \in 4..5 /\ slot \in [0..1 -> Record \cup {NoRecord}]
  BY Constants DEF StoreShape, Slot
<1>2. \A s \in 0..1 : slot[s].schema \in 0..5
                      /\ (slot[s].schema # 0 => slot[s] \in Record)
  BY <1>1, Constants
<1>3. \A n : n \in FoundSchemas(image) <=>
                n \in 1..image /\ (slot[0].schema = n \/ slot[1].schema = n)
  BY DEF FoundSchemas, ValidSlots, Slot
<1>4. NothingFound(image) =>
         FoundSchemas(image) = {} /\ Loaded(image) = FromKeys
  BY <1>3 DEF NothingFound, Slot, Loaded, FromKeys
<1>5. ASSUME NEW s \in Slot, Selects(image, s)
      PROVE  /\ FoundSchemas(image) # {} /\ NewestFound(image) = slot[s].schema
             /\ SelectedSlot(NewestFound(image)) = s
             /\ Loaded(image) = ApplyRecord(slot[s])
  <2>1. slot[s].schema \in FoundSchemas(image)
    BY <1>3, <1>5 DEF Selects, Slot
  <2>2. \A t \in FoundSchemas(image) : t <= slot[s].schema /\ t \in Int
    BY <1>3, <1>5 DEF Selects, Slot
  <2>3. NewestFound(image) = slot[s].schema
    BY <2>1, <2>2 DEF NewestFound
  <2>4. SelectedSlot(slot[s].schema) = s
    BY <1>5 DEF Selects, SelectedSlot, ValidSlots, Slot
  <2> QED
    BY <2>1, <2>3, <2>4 DEF Loaded
<1>6. NothingFound(image) \/ \E s \in Slot : Selects(image, s)
  <2> DEFINE newer == GenerationIsNewer(slot[1].generation, slot[0].generation)
  <2>1. CASE slot[0].schema \in 1..image
             /\ (slot[1].schema \in 1..image => slot[1].schema < slot[0].schema)
    <3>1. Selects(image, 0)
      BY <1>1, <1>2, <2>1 DEF Selects, Slot
    <3> QED
      BY <3>1 DEF Slot
  <2>2. CASE slot[1].schema \in 1..image
             /\ (slot[0].schema \in 1..image => slot[0].schema < slot[1].schema)
    <3>1. Selects(image, 1)
      BY <1>1, <1>2, <2>2 DEF Selects, Slot
    <3> QED
      BY <3>1 DEF Slot
  <2>3. CASE slot[1].schema \in 1..image /\ slot[0].schema = slot[1].schema
    <3>1. CASE newer
      <4>1. Selects(image, 1)
        BY <1>1, <1>2, <2>3, <3>1 DEF Selects, Slot
      <4> QED
        BY <4>1 DEF Slot
    <3>2. CASE ~newer
      <4>1. Selects(image, 0)
        BY <1>1, <1>2, <2>3, <3>2 DEF Selects, Slot
      <4> QED
        BY <4>1 DEF Slot
    <3> QED
      BY <3>1, <3>2
  <2>4. CASE slot[0].schema \notin 1..image /\ slot[1].schema \notin 1..image
    BY <2>4 DEF NothingFound, Slot
  <2> QED
    BY <1>1, <1>2, <2>1, <2>2, <2>3, <2>4
<1>7. Loaded(image) \in Config /\ (image < 5 => Loaded(image).plexlog = TRUE)
  <2>1. CASE NothingFound(image)
    <3>1. FromKeys \in Config /\ FromKeys.plexlog = TRUE
      BY Constants DEF FromKeys, Config, StoreShape
    <3> QED
      BY <1>4, <2>1, <3>1
  <2>2. ASSUME NEW s \in Slot, Selects(image, s)
        PROVE  Loaded(image) \in Config /\ (image < 5 => Loaded(image).plexlog = TRUE)
    <3>1. slot[s] \in Record /\ slot[s].schema \in 1..image
      BY <1>1, <1>2, <2>2 DEF Selects, Slot
    <3>2. image < 5 => slot[s].schema < 5
      BY <1>1, <3>1
    <3> QED
      BY <1>5, <2>2, <3>1, <3>2, ApplyRecordShape
  <2> QED
    BY <1>6, <2>1, <2>2
<1> QED
  BY <1>4, <1>5, <1>6, <1>7

(* The same of the flash after a step. *)
LEMMA LoaderAfter == (StoreShape => LoaderFacts)'
  BY Loader, PTL

-----------------------------------------------------------------------------
(* The shape of the state, step by step. *)

LEMMA Written ==
    ASSUME StoreShape
    PROVE  /\ TargetSlot \in Slot /\ TargetSlot # activeConfigSlot
           /\ NextGeneration \in Generation
           /\ MakeRecord(NextGeneration) \in Record
           /\ MakeRecord(NextGeneration) # NoRecord
<1>1. TargetSlot \in Slot /\ TargetSlot # activeConfigSlot
  BY DEF TargetSlot, Slot, StoreShape
<1>2. NextGeneration \in Generation
  BY GenerationLemma DEF NextGeneration, StoreShape
<1>3. MakeRecord(NextGeneration) \in Record
  BY <1>2, Constants DEF MakeRecord, Record, StoreShape
<1>4. MakeRecord(NextGeneration) # NoRecord
  BY <1>3, Constants
<1> QED
  BY <1>1, <1>2, <1>3, <1>4

LEMMA Forgotten ==
    ASSUME ForgetVolatile
    PROVE  /\ ram' \in Config /\ previous' \in Config /\ activeConfigSlot' = -1
           /\ activeConfigSlot' \in Slot \cup {-1} /\ configGeneration' \in Generation
           /\ pc' \in {"off", "idle", "save", "verify", "cleanup"}
           /\ caller' \in {"usb", "migrate", "legacy"}
<1>1. 0 \in Generation
  BY StoreAssumption DEF Generation
<1> QED
  BY <1>1, Constants DEF ForgetVolatile

LEMMA Returned ==
    ASSUME StoreShape, NEW ok, Return(ok)
    PROVE  /\ ram' \in {ram, previous} /\ previous' = ram' /\ ram' \in Config
           /\ pc' \in {"idle", "cleanup"} /\ caller' = "usb"
  BY DEF Return, StoreShape

LEMMA Disturbed ==
    ASSUME budget \in 0..MaxFaults, NEW kind, Disturb(kind) \/ budget' = budget
    PROVE  budget' \in 0..MaxFaults
  BY StoreAssumption DEF Disturb

LEMMA InitShape == Init => StoreShape
<1> SUFFICES ASSUME Init PROVE StoreShape
  OBVIOUS
<1>1. NoRecord \in Record \cup {NoRecord}
  OBVIOUS
<1>2. ASSUME NEW schema \in InitialSchemas \ {0}, NEW g \in Generation,
             NEW newer \in SavedConfig(schema), NEW older \in SavedConfig(schema),
             slot \in StoredBefore(schema, g, newer, older)
      PROVE  slot \in [Slot -> Record \cup {NoRecord}]
  <2> DEFINE last == [schema |-> schema, generation |-> g, config |-> newer]
             first == [schema |-> schema, generation |-> (g - 1) % Modulus,
                       config |-> older]
  <2>1. SavedConfig(schema) \subseteq Config
    BY DEF SavedConfig
  <2>2. schema \in 1..NewestSchema /\ (g - 1) % Modulus \in Generation
    BY StoreAssumption, GenerationLemma DEF NewestSchema
  <2>3. last \in Record /\ first \in Record
    BY <2>1, <2>2 DEF Record
  <2>4. PICK at \in Slot, other \in {first, NoRecord} :
           slot = [s \in Slot |-> IF s = at THEN last ELSE other]
    BY <1>2 DEF StoredBefore
  <2> HIDE DEF last, first
  <2> QED
    BY <2>3, <2>4
<1>3. slot \in [Slot -> Record \cup {NoRecord}] /\ keys \in Settings \cup {NoKeys}
  BY <1>1, <1>2 DEF Init, InitialFlash
<1>4. 0 \in Generation /\ MaxFaults \in 0..MaxFaults
  BY StoreAssumption DEF Generation
<1> QED
  BY <1>3, <1>4, Constants DEF Init, StoreShape

LEMMA NextShape == StoreShape /\ [Next]_vars => StoreShape'
<1> SUFFICES ASSUME StoreShape, [Next]_vars PROVE StoreShape'
  OBVIOUS
<1>1. CASE UNCHANGED vars
  BY <1>1 DEF vars, flash, upgrade, position, StoreShape
<1>2. CASE BootLoads
  <2>1. firmware \in 4..NewestSchema
    BY Constants DEF StoreShape
  <2>2. Loaded(firmware) \in Config
    BY <2>1, Loader DEF LoaderFacts
  <2>3. FoundSchemas(firmware) # {} =>
           LET s == SelectedSlot(NewestFound(firmware))
           IN  s \in Slot /\ slot[s] \in Record
    <3>1. ASSUME NEW s \in Slot, Selects(firmware, s)
          PROVE  SelectedSlot(NewestFound(firmware)) = s /\ slot[s] \in Record
      BY <2>1, <3>1, Loader, Constants DEF LoaderFacts, Selects, StoreShape
    <3> QED
      BY <2>1, <3>1, Loader DEF LoaderFacts
  <2> QED
    BY <1>2, <2>2, <2>3, Constants DEF BootLoads, StoreShape, flash, upgrade, position
<1>3. CASE BootWithoutStorage
  BY <1>3, Disturbed DEF BootWithoutStorage, StoreShape, flash, upgrade, position
<1>4. CASE PowerLoss
  BY <1>4, Disturbed, Forgotten DEF PowerLoss, StoreShape, flash, upgrade
<1>5. CASE PowerLossTearsRecord
  BY <1>5, Disturbed, Forgotten DEF PowerLossTearsRecord, StoreShape, upgrade
<1>6. CASE SaveCannotOpen
  BY <1>6, Disturbed, Returned DEF SaveCannotOpen, StoreShape, flash, upgrade, position
<1>7. CASE SaveUnchanged
  BY <1>7, Returned DEF SaveUnchanged, StoreShape, flash, upgrade, position
<1>8. CASE PutBytes
  BY <1>8, Disturbed, Written DEF PutBytes, StoreShape, upgrade, position
<1>9. CASE PutBytesFails
  BY <1>9, Disturbed, Returned DEF PutBytesFails, StoreShape, upgrade, position
<1>10. CASE VerifyOk
  BY <1>10, Written, Returned DEF VerifyOk, StoreShape, flash, upgrade
<1>11. CASE VerifyFails
  BY <1>11, Disturbed, Returned DEF VerifyFails, StoreShape, flash, upgrade, position
<1>12. CASE RemoveKeys
  BY <1>12, Disturbed DEF RemoveKeys, StoreShape, upgrade, position
<1>13. CASE Reset
  BY <1>13, Forgotten DEF Reset, StoreShape, upgrade
<1>14. CASE Validate
  BY <1>14 DEF Validate, StoreShape, flash, position
<1>15. ASSUME NEW c \in SavedConfig(NewestSchema), Request(c) PROVE StoreShape'
  BY <1>15 DEF SavedConfig, Request, StoreShape, flash, upgrade, position
<1>16. ASSUME NEW image \in Firmwares, Upgrade(image) PROVE StoreShape'
  <2>1. FoundAgain \subseteq Config
    BY Constants, Loader DEF FoundAgain, LoaderFacts, StoreShape
  <2> QED
    BY <1>16, <2>1, Forgotten DEF Upgrade, StoreShape, flash
<1>17. ASSUME NEW image \in Firmwares, AutomaticRollback(image) \/ ManualRollback(image)
       PROVE  StoreShape'
  BY <1>17, Forgotten DEF AutomaticRollback, ManualRollback, StoreShape, flash
<1> QED
  BY <1>1, <1>2, <1>3, <1>4, <1>5, <1>6, <1>7, <1>8, <1>9, <1>10, <1>11, <1>12, <1>13,
     <1>14, <1>15, <1>16, <1>17
     DEF Next, Save

LEMMA NextFlag == Flag /\ [Next]_vars => Flag'
  BY Zenon
     DEF Flag, Next, Save, vars, upgrade, BootLoads, BootWithoutStorage, PowerLoss,
         PowerLossTearsRecord, SaveCannotOpen, SaveUnchanged, PutBytes, PutBytesFails,
         VerifyOk, VerifyFails, RemoveKeys, Reset, Validate, Request, Upgrade,
         AutomaticRollback, ManualRollback

(* Records, generations and settings in use keep their type through every  *)
(* load, migration, save, fault and change of firmware; generations wrap   *)
(* around within 32 bits (makeRecord).                                     *)
THEOREM StoreTypeOKAlways == Spec => []TypeOK
<1>1. Init => StoreShape /\ Flag
  BY InitShape, Zenon DEF Init, Flag
<1>2. StoreShape /\ Flag => TypeOK
  BY Zenon DEF StoreShape, Flag, TypeOK
<1> QED
  BY <1>1, <1>2, NextShape, NextFlag, PTL DEF Spec

-----------------------------------------------------------------------------
(* What a write of the other slot leaves. *)

LEMMA ViewKept ==
    ASSUME StoreShape, StoreShape', NEW image \in 4..5, UNCHANGED <<slot, keys>>
    PROVE  /\ Loaded(image)' = Loaded(image)
           /\ NothingFound(image)' <=> NothingFound(image)
           /\ \A s \in Slot : Selects(image, s)' <=> Selects(image, s)
<1>1. NothingFound(image)' <=> NothingFound(image)
  BY DEF NothingFound
<1>2. \A s \in Slot : Selects(image, s)' <=> Selects(image, s)
  BY DEF Selects, GenerationIsNewer
<1>3. Loaded(image)' = Loaded(image)
  BY DEF Loaded, FoundSchemas, ValidSlots, NewestFound, SelectedSlot, ApplyRecord,
         GenerationIsNewer
<1> QED
  BY <1>1, <1>2, <1>3

(* Where an image finds nothing, a record that it does not know is none. *)
LEMMA NothingKept ==
    ASSUME StoreShape, StoreShape', NEW image \in 4..5, NothingFound(image),
           NEW s \in Slot, NEW v, slot' = [slot EXCEPT ![s] = v], v.schema \notin 1..image,
           keys' = keys
    PROVE  NothingFound(image)' /\ Loaded(image)' = Loaded(image)
<1>1. NothingFound(image)'
  BY DEF NothingFound, StoreShape
<1>2. Loaded(image)' = FromKeys' /\ Loaded(image) = FromKeys
  BY <1>1, Loader, LoaderAfter, Constants DEF LoaderFacts
<1> QED
  BY <1>1, <1>2 DEF FromKeys

(* A record that an image does not know, in the slot that it has not       *)
(* selected, changes nothing for it.                                       *)
LEMMA SelectionKept ==
    ASSUME StoreShape, StoreShape', NEW image \in 4..5, NEW a \in Slot, Selects(image, a),
           NEW s \in Slot, s # a, NEW v, slot' = [slot EXCEPT ![s] = v],
           v.schema \notin 1..image
    PROVE  Selects(image, a)' /\ Loaded(image)' = Loaded(image)
<1>1. slot'[a] = slot[a] /\ slot'[s] = v /\ (1 - a) = s /\ \A t \in Slot : t = a \/ t = s
  BY DEF StoreShape, Slot
<1>2. Selects(image, a)'
  BY <1>1 DEF Selects
<1>3. Loaded(image)' = ApplyRecord(slot[a])' /\ Loaded(image) = ApplyRecord(slot[a])
  BY <1>2, Loader, LoaderAfter, Constants DEF LoaderFacts
<1> QED
  BY <1>1, <1>2, <1>3 DEF ApplyRecord

(* What a save writes into the other slot is, for an image that does not   *)
(* know it, as if nothing had been written.                                *)
LEMMA AsideKeeps ==
    ASSUME StoreShape, StoreShape', NEW image \in 4..5, keys' = keys,
           IF activeConfigSlot = -1 THEN NothingFound(image)
                                    ELSE Selects(image, activeConfigSlot),
           NEW v, v.schema \notin 1..image, slot' = [slot EXCEPT ![TargetSlot] = v]
    PROVE  /\ Loaded(image)' = Loaded(image)
           /\ NothingFound(image)' <=> NothingFound(image)
           /\ \A a \in Slot : a = activeConfigSlot =>
                 Selects(image, a)' /\ slot'[a] = slot[a]
<1>1. PICK s \in Slot : s = TargetSlot
  BY Written
<1>2. s # activeConfigSlot /\ slot' = [slot EXCEPT ![s] = v]
  BY <1>1, Written
<1>3. CASE activeConfigSlot = -1
  <2>1. NothingFound(image)
    BY <1>3
  <2>2. NothingFound(image)' /\ Loaded(image)' = Loaded(image)
    BY <1>2, <2>1, NothingKept, Zenon
  <2>3. \A a \in Slot : a # activeConfigSlot
    BY <1>3 DEF Slot
  <2> QED
    BY <2>1, <2>2, <2>3
<1>4. ASSUME NEW a \in Slot, a = activeConfigSlot
      PROVE  /\ Loaded(image)' = Loaded(image)
             /\ NothingFound(image)' <=> NothingFound(image)
             /\ Selects(image, a)' /\ slot'[a] = slot[a]
  <2>1. Selects(image, a) /\ s # a
    BY <1>2, <1>4 DEF Slot
  <2>2. Selects(image, a)' /\ Loaded(image)' = Loaded(image)
    BY <1>2, <2>1, SelectionKept, Zenon
  <2>3. ~NothingFound(image) /\ ~NothingFound(image)'
    BY <2>1, <2>2 DEF NothingFound, Selects
  <2>4. slot'[a] = slot[a]
    BY <1>2, <2>1 DEF StoreShape
  <2> QED
    BY <2>2, <2>3, <2>4
<1> QED
  BY <1>3, <1>4 DEF StoreShape

-----------------------------------------------------------------------------
(* The first-boot window of a new image. *)

LEMMA NextTrial == StoreShape /\ Trial /\ [Next]_vars => Trial'
<1> SUFFICES ASSUME StoreShape, Trial, [Next]_vars, validating' PROVE Trial'
  BY DEF Trial
<1>0. StoreShape' /\ firmware \in 4..5
  BY NextShape, Constants DEF StoreShape
(* A step that leaves what the older image finds, outside a save. *)
<1>1. ASSUME validating, UNCHANGED <<firmware, inherited, slot, keys>>,
             pc' \in {"off", "idle"} \/ (pc' = "cleanup" /\ NothingFound(4))
      PROVE  Trial'
  BY <1>0, <1>1, ViewKept DEF Trial
(* One in a save that leaves the flash. *)
<1>2. ASSUME validating, UNCHANGED <<firmware, inherited, slot, keys>>,
             UNCHANGED <<pc, caller, activeConfigSlot>>
      PROVE  Trial'
  <2>1. Loaded(4)' = Loaded(4) /\ (NothingFound(4)' <=> NothingFound(4))
    BY <1>0, <1>2, ViewKept
  <2>2. \A a \in Slot : Selects(4, a)' <=> Selects(4, a)
    BY <1>0, <1>2, ViewKept
  <2> QED
    BY <1>2, <2>1, <2>2 DEF Trial, StoreShape, Selects
<1>3. CASE UNCHANGED vars
  BY <1>2, <1>3 DEF vars, flash, upgrade, position
<1>4. CASE BootLoads
  <2>1. /\ pc = "off" /\ UNCHANGED <<firmware, inherited, slot, keys>> /\ validating
        /\ firmware = 5 /\ activeConfigSlot = -1
    BY <1>4 DEF BootLoads, flash, upgrade, Trial, StoreShape
  <2>2. CASE NothingFound(5)
    <3>1. /\ FoundSchemas(firmware) = {} /\ pc' = "save" /\ caller' = "legacy"
          /\ activeConfigSlot' = -1
      BY <1>4, <2>1, <2>2, Loader, Constants DEF BootLoads, position, LoaderFacts
    <3>2. NothingFound(4)
      BY <2>2 DEF NothingFound
    <3> QED
      BY <1>0, <2>1, <3>1, <3>2, ViewKept DEF Trial
  <2>3. ASSUME NEW s \in Slot, Selects(5, s) PROVE Trial'
    <3>1. /\ FoundSchemas(firmware) # {} /\ NewestFound(firmware) = slot[s].schema
          /\ SelectedSlot(NewestFound(firmware)) = s
      BY <2>1, <2>3, Loader, Constants DEF LoaderFacts
    <3>2. CASE slot[s].schema = 5
      BY <1>1, <1>4, <2>1, <3>1, <3>2 DEF BootLoads
    <3>3. CASE slot[s].schema # 5
      <4>1. pc' = "save" /\ caller' = "migrate" /\ activeConfigSlot' = s
        BY <1>4, <2>1, <3>1, <3>3 DEF BootLoads
      <4>2. Selects(4, s)
        BY <2>3, <3>3 DEF Selects
      <4>3. /\ Selects(4, s)' /\ Loaded(4)' = Loaded(4)
            /\ NothingFound(4)' <=> NothingFound(4)
        BY <1>0, <2>1, <4>2, ViewKept
      <4>4. s # -1
        BY DEF Slot
      <4> QED
        BY <2>1, <4>1, <4>3, <4>4 DEF Trial, Selects
    <3> QED
      BY <3>2, <3>3
  <2> QED
    BY <2>2, <2>3, Loader, Constants DEF LoaderFacts
<1>5. CASE BootWithoutStorage
  BY <1>1, <1>5 DEF BootWithoutStorage, flash, upgrade
<1>6. CASE PowerLoss
  BY <1>1, <1>6 DEF PowerLoss, ForgetVolatile, flash, upgrade
<1>7. ASSUME validating, pc = "save", UNCHANGED <<keys, firmware, inherited>>,
             NEW v, v = NoRecord \/ v = MakeRecord(NextGeneration),
             slot' = [slot EXCEPT ![TargetSlot] = v],
             \/ pc' \in {"off", "idle"}
             \/ pc' = "verify" /\ UNCHANGED <<caller, activeConfigSlot>>
      PROVE  Trial'
  <2>1. v.schema \notin 1..4
    BY <1>7, Constants DEF Trial, MakeRecord
  <2>2. /\ IF activeConfigSlot = -1 THEN NothingFound(4) ELSE Selects(4, activeConfigSlot)
        /\ 4 \in 4..5
    BY <1>7 DEF Trial
  <2>3. /\ Loaded(4)' = Loaded(4) /\ (NothingFound(4)' <=> NothingFound(4))
        /\ \A a \in Slot : a = activeConfigSlot => Selects(4, a)'
    BY <1>0, <1>7, <2>1, <2>2, AsideKeeps, Zenon
  <2> QED
    BY <1>7, <2>3 DEF Trial, StoreShape, Selects
<1>8. CASE PowerLossTearsRecord
  BY <1>7, <1>8 DEF PowerLossTearsRecord, ForgetVolatile, upgrade
<1>9. CASE SaveCannotOpen
  BY <1>1, <1>9 DEF SaveCannotOpen, Return, flash, upgrade
<1>10. CASE SaveUnchanged
  BY <1>1, <1>10 DEF SaveUnchanged, Return, flash, upgrade, Trial
<1>11. CASE PutBytes
  BY <1>7, <1>11 DEF PutBytes, upgrade, position
<1>12. CASE PutBytesFails
  BY <1>1, <1>7, <1>12 DEF PutBytesFails, Return, upgrade
<1>13. CASE VerifyOk
  BY <1>1, <1>13 DEF VerifyOk, Return, flash, upgrade, Trial
<1>14. CASE VerifyFails
  BY <1>1, <1>14 DEF VerifyFails, Return, flash, upgrade
<1>15. CASE RemoveKeys
  <2>1. /\ validating /\ UNCHANGED <<firmware, inherited, slot>> /\ pc' = "idle"
        /\ NothingFound(4) /\ keys' \in {keys, NoKeys}
    BY <1>15 DEF RemoveKeys, upgrade, Trial
  <2>2. CASE keys' = keys
    BY <1>1, <2>1, <2>2
  <2>3. CASE keys' = NoKeys
    <3>1. NothingFound(4)'
      BY <2>1 DEF NothingFound
    <3>2. Loaded(4)' = Default
      BY <1>0, <2>3, <3>1, LoaderAfter, Constants DEF LoaderFacts, FromKeys
    <3> QED
      BY <2>1, <3>2 DEF Trial
  <2> QED
    BY <2>1, <2>2, <2>3
<1>16. ASSUME NEW image \in Firmwares, Upgrade(image) PROVE Trial'
  <2>1. /\ firmware = 4 /\ firmware' = 5 /\ UNCHANGED <<slot, keys>> /\ pc' = "off"
        /\ inherited' = FoundAgain
    BY <1>0, <1>16, Constants DEF Upgrade, flash, ForgetVolatile
  <2>2. Loaded(4) \in inherited' /\ (NothingFound(4) => Default \in inherited')
    BY <2>1, Loader, Constants DEF FoundAgain, LoaderFacts
  <2> QED
    BY <1>0, <2>1, <2>2, ViewKept DEF Trial
<1>17. ASSUME NEW c, Request(c) PROVE Trial'
  BY <1>17 DEF Request, upgrade
<1>18. ASSUME NEW image, AutomaticRollback(image) \/ ManualRollback(image) PROVE Trial'
  BY <1>18 DEF AutomaticRollback, ManualRollback
<1>19. CASE Reset \/ Validate
  BY <1>19 DEF Reset, Validate, upgrade
<1> QED
  BY <1>3, <1>4, <1>5, <1>6, <1>8, <1>9, <1>10, <1>11, <1>12, <1>13, <1>14, <1>15,
     <1>16, <1>17, <1>18, <1>19
     DEF Next, Save

(* Whatever is lost or fails in the first-boot window, in the middle of    *)
(* the migration too, the older firmware loads the configuration that it   *)
(* ran with: save() writes the slot that load() did not select.            *)
THEOREM AutomaticRollbackKeepsConfigAlways == Spec => []AutomaticRollbackKeepsConfig
<1>1. Init => StoreShape /\ Trial
  BY InitShape DEF Init, Trial
<1>2. StoreShape /\ Trial => AutomaticRollbackKeepsConfig
  <2> SUFFICES ASSUME StoreShape, Trial, validating, NEW image \in Firmwares,
                      image < firmware
               PROVE  Loaded(image) \in inherited
    BY DEF AutomaticRollbackKeepsConfig
  <2>1. image = 4
    BY Constants DEF Trial
  <2> QED
    BY <2>1 DEF Trial
<1> QED
  BY <1>1, <1>2, NextShape, NextTrial, PTL DEF Spec

-----------------------------------------------------------------------------
(* A save as a whole. *)

LEMMA ValueKept ==
    ASSUME StoreShape, StoreShape', Positioned, UNCHANGED <<firmware, keys>>,
           slot' = slot \/ slot' = [slot EXCEPT ![TargetSlot] = NoRecord]
    PROVE  /\ Loaded(firmware)' = Loaded(firmware)
           /\ NothingFound(firmware)' <=> NothingFound(firmware)
           /\ UNCHANGED <<activeConfigSlot, configGeneration>> => Positioned'
<1>1. PICK f \in 4..5 : f = firmware
  BY Constants DEF StoreShape
<1>2. /\ Loaded(f)' = Loaded(f) /\ (NothingFound(f)' <=> NothingFound(f))
      /\ \A a \in Slot : a = activeConfigSlot => Selects(f, a)' /\ slot'[a] = slot[a]
  <2>1. CASE slot' = slot
    BY <1>1, <2>1, ViewKept DEF Positioned, Slot
  <2>2. CASE slot' = [slot EXCEPT ![TargetSlot] = NoRecord]
    <3>1. /\ IF activeConfigSlot = -1 THEN NothingFound(f) ELSE Selects(f, activeConfigSlot)
          /\ NoRecord.schema \notin 1..f
      BY <1>1, Constants DEF Positioned
    <3> QED
      BY <2>2, <3>1, AsideKeeps, Zenon
  <2> QED
    BY <2>1, <2>2
<1>3. Loaded(firmware)' = Loaded(firmware)
  BY <1>1, <1>2
<1>4. NothingFound(firmware)' <=> NothingFound(firmware)
  BY <1>1, <1>2 DEF NothingFound
<1>5. ASSUME UNCHANGED <<activeConfigSlot, configGeneration>> PROVE Positioned'
  <2>1. CASE activeConfigSlot = -1
    BY <1>4, <1>5, <2>1 DEF Positioned
  <2>2. CASE activeConfigSlot # -1
    <3>1. activeConfigSlot \in Slot
      BY <2>2 DEF StoreShape
    <3>2. Selects(firmware, activeConfigSlot)'
      BY <1>1, <1>2, <1>5, <3>1 DEF Selects
    <3> QED
      BY <1>2, <1>5, <2>2, <3>1, <3>2 DEF Positioned
  <2> QED
    BY <2>1, <2>2
<1> QED
  BY <1>3, <1>4, <1>5

(* The record that has been written is what will be loaded. *)
LEMMA WriteTakesOver ==
    ASSUME StoreShape, StoreShape', Positioned,
           UNCHANGED <<firmware, activeConfigSlot, configGeneration, ram>>,
           slot' = [slot EXCEPT ![TargetSlot] = MakeRecord(NextGeneration)]
    PROVE  Selects(firmware, TargetSlot)' /\ (slot[TargetSlot] = MakeRecord(NextGeneration))'
<1> DEFINE r == MakeRecord(NextGeneration)
<1>1. PICK t \in Slot : t = TargetSlot /\ t # activeConfigSlot
  BY Written
<1>2. slot'[t] = r /\ slot'[1 - t] = slot[1 - t] /\ 1 - t \in Slot
  BY <1>1 DEF StoreShape, Slot
<1>3. r.schema = firmware /\ r.generation = (configGeneration + 1) % Modulus
  BY DEF MakeRecord, NextGeneration
<1>4. firmware \in 4..5 /\ TargetSlot' = TargetSlot /\ r' = r
  BY Constants DEF StoreShape, TargetSlot, MakeRecord, NextGeneration
<1> HIDE DEF r
<1>5. slot'[1 - t].schema = firmware =>
         (t = 1 <=> GenerationIsNewer(slot'[1].generation, slot'[0].generation))
  <2> SUFFICES ASSUME slot[1 - t].schema = firmware
               PROVE  t = 1 <=> GenerationIsNewer(slot'[1].generation, slot'[0].generation)
    BY <1>2
  <2>1. 1 - t = activeConfigSlot
    <3>1. ~NothingFound(firmware)
      BY <1>2, <1>4 DEF NothingFound
    <3> QED
      BY <1>1, <3>1 DEF Positioned, StoreShape, Slot
  <2>2. slot'[1 - t].generation = configGeneration /\ configGeneration \in Generation
    BY <1>2, <2>1 DEF Positioned, StoreShape, Slot
  <2>3. /\ GenerationIsNewer(slot'[t].generation, slot'[1 - t].generation)
        /\ ~GenerationIsNewer(slot'[1 - t].generation, slot'[t].generation)
    BY <1>2, <1>3, <2>2, GenerationLemma
  <2>4. CASE t = 0
    BY <2>3, <2>4
  <2>5. CASE t = 1
    BY <2>3, <2>5
  <2> QED
    BY <2>4, <2>5 DEF Slot
<1>6. \A u \in Slot : u = t \/ u = 1 - t
  BY DEF Slot
<1>7. Selects(firmware, TargetSlot)'
  BY <1>1, <1>2, <1>3, <1>4, <1>5, <1>6 DEF Selects
<1>8. (slot[TargetSlot] = MakeRecord(NextGeneration))'
  BY <1>1, <1>2, <1>4 DEF r
<1> QED
  BY <1>7, <1>8

(* Where a record of the running image is selected, its settings load. *)
LEMMA OwnRecordLoads ==
    ASSUME StoreShape, Consistent, NEW s \in Slot, NEW g \in Generation,
           Selects(firmware, s), slot[s] = MakeRecord(g)
    PROVE  Loaded(firmware) = ram /\ ~NothingFound(firmware)
<1>1. firmware \in 4..5 /\ slot[s].schema = firmware /\ slot[s].config = ram
  BY Constants DEF StoreShape, MakeRecord
<1>2. slot[s] \in Record
  BY <1>1, Constants DEF StoreShape
<1>3. firmware < 5 => ram.plexlog = TRUE
  BY DEF Consistent
<1>4. ApplyRecord(slot[s]) = ram
  BY <1>1, <1>2, <1>3, ApplyRecordShape
<1>5. Loaded(firmware) = ApplyRecord(slot[s])
  BY <1>1, Loader, Constants DEF LoaderFacts
<1> QED
  BY <1>4, <1>5 DEF NothingFound, Selects

(* The storage answers truly: what is read back is what is stored, and a   *)
(* namespace that is there opens.                                          *)
NoSilentFaults == "readback" \notin Faults /\ "mount" \notin Faults

(* After an answer that no save is pending, or a restart. *)
LEMMA ForgottenIsConsistent ==
    ASSUME ForgetVolatile
    PROVE  Consistent'
  BY Constants DEF ForgetVolatile, Consistent

(* A save that has failed puts back what the flash still holds. *)
LEMMA FailedIsConsistent ==
    ASSUME StoreShape, StoreShape', Consistent, Saving, pc \in {"save", "verify"},
           Return(FALSE), UNCHANGED <<firmware, keys, activeConfigSlot, configGeneration>>,
           slot' = slot \/ slot' = [slot EXCEPT ![TargetSlot] = NoRecord]
    PROVE  /\ Consistent' /\ pc' = "idle"
           /\ ram' = previous /\ previous' = previous
           /\ Loaded(firmware)' = previous
<1>1. Loaded(firmware)' = Loaded(firmware) /\ Positioned'
  BY ValueKept DEF Saving
<1>2. pc' = "idle" /\ ram' = previous /\ previous' = previous
  BY DEF Return, Saving
<1> QED
  BY <1>1, <1>2 DEF Consistent, Saving

LEMMA BootIsConsistent ==
    ASSUME StoreShape, StoreShape', Consistent, BootLoads
    PROVE  Consistent'
<1>1. PICK f \in 4..5 : f = firmware /\ f = firmware'
  BY Constants DEF StoreShape, BootLoads, upgrade
<1>2. /\ UNCHANGED <<slot, keys>> /\ ram' = Loaded(f) /\ previous' = Loaded(f)
      /\ activeConfigSlot = -1
  BY <1>1 DEF BootLoads, flash, StoreShape
<1>3. /\ Loaded(f)' = Loaded(f) /\ (NothingFound(f)' <=> NothingFound(f))
      /\ \A s \in Slot : Selects(f, s)' <=> Selects(f, s)
  BY <1>2, ViewKept
<1>4. f < 5 => Loaded(f).plexlog = TRUE
  BY Loader, Constants DEF LoaderFacts
<1>5. Loaded(firmware)' = Loaded(f)
  BY <1>1, <1>3
<1>6. Positioned' /\ pc' \in {"idle", "save"} /\ (pc' = "save" => caller' # "usb")
  <2>1. CASE NothingFound(f)
    <3>1. FoundSchemas(firmware) = {}
      BY <1>1, <2>1, Loader, Constants DEF LoaderFacts
    <3>2. /\ activeConfigSlot' = -1 /\ pc' = "save" /\ caller' # "usb"
      BY <1>2, <3>1 DEF BootLoads, position
    <3>3. NothingFound(firmware)'
      BY <1>1, <1>3, <2>1 DEF NothingFound
    <3> QED
      BY <3>2, <3>3 DEF Positioned
  <2>2. ASSUME NEW s \in Slot, Selects(f, s)
        PROVE  Positioned' /\ pc' \in {"idle", "save"} /\ (pc' = "save" => caller' # "usb")
    <3>1. FoundSchemas(firmware) # {} /\ SelectedSlot(NewestFound(firmware)) = s
      BY <1>1, <2>2, Loader, Constants DEF LoaderFacts
    <3>2. /\ activeConfigSlot' = s /\ configGeneration' = slot[s].generation
          /\ pc' \in {"idle", "save"} /\ (pc' = "save" => caller' # "usb")
      BY <3>1 DEF BootLoads
    <3>3. s # -1
      BY DEF Slot
    <3>4. Selects(f, s)'
      BY <1>3, <2>2
    <3>5. Selects(firmware, activeConfigSlot)'
      BY <1>1, <3>2, <3>4 DEF Selects
    <3> QED
      BY <1>2, <3>2, <3>3, <3>5 DEF Positioned
  <2> QED
    BY <2>1, <2>2, Loader, Constants DEF LoaderFacts
<1>7. pc' \notin {"off", "cleanup", "verify"}
  BY <1>6
<1> QED
  BY <1>1, <1>2, <1>4, <1>5, <1>6, <1>7 DEF Consistent, Saving

LEMMA NextConsistent ==
    ASSUME NoSilentFaults, StoreShape, StoreShape', Consistent, [Next]_vars
    PROVE  Consistent'
<1>1. ASSUME UNCHANGED <<firmware, slot, keys, activeConfigSlot, configGeneration>>
      PROVE  /\ Loaded(firmware)' = Loaded(firmware)
             /\ Positioned => Positioned' /\ (NothingFound(firmware)' <=> NothingFound(firmware))
  <2>1. PICK f \in 4..5 : f = firmware
    BY Constants DEF StoreShape
  <2>2. Loaded(f)' = Loaded(f)
    BY <1>1, ViewKept
  <2> QED
    BY <1>1, <2>1, <2>2, ValueKept
<1>2. CASE UNCHANGED vars
  <2>1. /\ UNCHANGED <<firmware, slot, keys, activeConfigSlot, configGeneration>>
        /\ UNCHANGED <<ram, previous, pc, caller>>
    BY <1>2 DEF vars, flash, upgrade, position
  <2>2. /\ TargetSlot' = TargetSlot /\ MakeRecord(NextGeneration)' = MakeRecord(NextGeneration)
        /\ Selects(firmware, TargetSlot)' <=> Selects(firmware, TargetSlot)
    BY <2>1 DEF TargetSlot, NextGeneration, MakeRecord, Selects, GenerationIsNewer
  <2> QED
    BY <1>1, <2>1, <2>2 DEF Consistent, Saving, Replaced, Positioned
<1>3. CASE BootLoads
  BY <1>3, BootIsConsistent
<1>4. CASE BootWithoutStorage
  <2>1. /\ slot = [s \in Slot |-> NoRecord] /\ keys = NoKeys /\ pc = "off" /\ pc' = "idle"
        /\ UNCHANGED <<firmware, slot, keys, activeConfigSlot, configGeneration>>
        /\ UNCHANGED <<ram, previous>> /\ activeConfigSlot = -1
    BY <1>4 DEF BootWithoutStorage, NoSilentFaults, Disturb, flash, upgrade, position,
       StoreShape
  <2>2. NothingFound(firmware)
    BY <2>1, Constants DEF NothingFound
  <2>3. Loaded(firmware) = Default
    BY <2>1, <2>2, Loader, Constants DEF LoaderFacts, FromKeys, StoreShape
  <2> QED
    BY <1>1, <2>1, <2>2, <2>3 DEF Consistent, Positioned
<1>5. CASE \/ PowerLoss \/ PowerLossTearsRecord \/ Reset
           \/ \E image \in Firmwares :
                 Upgrade(image) \/ AutomaticRollback(image) \/ ManualRollback(image)
  BY <1>5, ForgottenIsConsistent
     DEF PowerLoss, PowerLossTearsRecord, Reset, Upgrade, AutomaticRollback, ManualRollback
<1>6. CASE SaveCannotOpen
  BY <1>6, FailedIsConsistent DEF SaveCannotOpen, Consistent, flash, upgrade, position
<1>7. CASE SaveUnchanged
  <2>1. /\ UNCHANGED <<firmware, slot, keys, activeConfigSlot, configGeneration>>
        /\ ram' = ram /\ previous' = ram /\ pc' \in {"idle", "cleanup"} /\ Positioned
    BY <1>7 DEF SaveUnchanged, Return, flash, upgrade, position, Consistent, Saving
  <2>2. /\ activeConfigSlot \in Slot
        /\ slot[activeConfigSlot] = MakeRecord(slot[activeConfigSlot].generation)
    BY <1>7 DEF SaveUnchanged, PayloadIsCurrent, StoreShape, Slot
  <2>3. Loaded(firmware) = ram /\ ~NothingFound(firmware)
    BY <2>1, <2>2, OwnRecordLoads DEF Positioned, StoreShape, Slot
  <2> QED
    BY <1>1, <2>1, <2>3 DEF Consistent
<1>8. CASE PutBytes
  <2>1. /\ UNCHANGED <<firmware, keys, activeConfigSlot, configGeneration>>
        /\ UNCHANGED <<ram, previous, caller>> /\ pc = "save" /\ pc' = "verify"
    BY <1>8 DEF PutBytes, upgrade, position
  <2>2. Saving
    BY <2>1 DEF Consistent
  <2>3. CASE slot' = [slot EXCEPT ![TargetSlot] = MakeRecord(NextGeneration)]
    <3>1. Selects(firmware, TargetSlot)' /\ (slot[TargetSlot] = MakeRecord(NextGeneration))'
      BY <2>1, <2>2, <2>3, WriteTakesOver DEF Saving
    <3> QED
      BY <2>1, <2>2, <3>1 DEF Consistent, Replaced, Saving
  <2>4. CASE slot' = [slot EXCEPT ![TargetSlot] = NoRecord]
    <3>1. Loaded(firmware)' = Loaded(firmware) /\ Positioned'
      BY <2>1, <2>2, <2>4, ValueKept DEF Saving
    <3>2. (slot[TargetSlot] = NoRecord)'
      BY <2>1, <2>4, Written DEF StoreShape, TargetSlot
    <3> QED
      BY <2>1, <2>2, <3>1, <3>2 DEF Consistent, Saving
  <2> QED
    BY <1>8, <2>3, <2>4 DEF PutBytes
<1>9. CASE PutBytesFails
  <2>1. UNCHANGED <<firmware, keys, activeConfigSlot, configGeneration>> /\ pc = "save"
    BY <1>9 DEF PutBytesFails, upgrade, position
  <2> QED
    BY <1>9, <2>1, FailedIsConsistent DEF PutBytesFails, Consistent
<1>10. CASE VerifyOk
  <2>1. /\ UNCHANGED <<firmware, slot, keys>> /\ activeConfigSlot' = TargetSlot
        /\ configGeneration' = NextGeneration /\ slot[TargetSlot] = MakeRecord(NextGeneration)
        /\ ram' = ram /\ previous' = ram /\ pc' \in {"idle", "cleanup"} /\ pc = "verify"
    BY <1>10 DEF VerifyOk, Return, flash, upgrade
  <2>2. Replaced
    BY <2>1, Written DEF Consistent
  <2>3. Loaded(firmware) = ram /\ ~NothingFound(firmware)
    BY <2>2, Written, OwnRecordLoads DEF Replaced
  <2>4. PICK f \in 4..5 : f = firmware /\ f = firmware'
    BY <2>1, Constants DEF StoreShape
  <2>5. PICK t \in Slot : t = TargetSlot
    BY Written
  <2>6. /\ Loaded(f)' = Loaded(f) /\ (NothingFound(f)' <=> NothingFound(f))
        /\ Selects(f, t)' <=> Selects(f, t)
    BY <2>1, ViewKept
  <2>7. Loaded(firmware)' = ram' /\ ~NothingFound(firmware)'
    BY <2>1, <2>3, <2>4, <2>6 DEF NothingFound
  <2>8. Selects(f, t)
    BY <2>2, <2>4, <2>5 DEF Replaced
  <2>9. Selects(firmware, activeConfigSlot)' /\ activeConfigSlot' # -1
    BY <2>1, <2>4, <2>5, <2>6, <2>8 DEF Selects, Slot
  <2>10. Positioned'
    BY <2>1, <2>9 DEF Positioned, MakeRecord
  <2> QED
    BY <2>1, <2>7, <2>10 DEF Consistent
<1>11. CASE VerifyFails
  <2>1. /\ UNCHANGED <<firmware, slot, keys, activeConfigSlot, configGeneration>>
        /\ pc = "verify" /\ slot[TargetSlot] # MakeRecord(NextGeneration) /\ Return(FALSE)
    BY <1>11 DEF VerifyFails, NoSilentFaults, Disturb, flash, upgrade, position
  <2> QED
    BY <2>1, FailedIsConsistent DEF Consistent, Replaced
<1>12. CASE RemoveKeys
  <2>1. /\ UNCHANGED <<firmware, slot, activeConfigSlot, configGeneration>>
        /\ UNCHANGED <<ram, previous>> /\ pc = "cleanup" /\ pc' = "idle"
    BY <1>12 DEF RemoveKeys, upgrade, position
  <2>2. PICK a \in Slot : a = activeConfigSlot /\ a # -1
    BY <2>1 DEF Consistent, Positioned, StoreShape, Slot
  <2>3. PICK f \in 4..5 : f = firmware /\ f = firmware'
    BY <2>1, Constants DEF StoreShape
  <2>4. Selects(f, a)
    BY <2>1, <2>2, <2>3 DEF Consistent, Positioned
  <2>5. Selects(f, a)'
    BY <2>1, <2>4 DEF Selects, GenerationIsNewer
  <2>6. Loaded(f) = ApplyRecord(slot[a]) /\ Loaded(f)' = ApplyRecord(slot[a])'
    BY <2>4, <2>5, Loader, LoaderAfter, Constants DEF LoaderFacts
  <2>7. Loaded(firmware)' = Loaded(firmware)
    BY <2>1, <2>3, <2>6 DEF ApplyRecord
  <2>8. Positioned'
    BY <2>1, <2>2, <2>3, <2>5 DEF Positioned, Consistent, Selects
  <2> QED
    BY <2>1, <2>7, <2>8 DEF Consistent
<1>13. CASE Validate
  <2>1. /\ UNCHANGED <<firmware, slot, keys, activeConfigSlot, configGeneration>>
        /\ UNCHANGED <<ram, previous, pc>> /\ pc = "idle"
    BY <1>13 DEF Validate, flash, position
  <2> QED
    BY <1>1, <2>1 DEF Consistent
<1>14. ASSUME NEW c \in SavedConfig(NewestSchema), Request(c) PROVE Consistent'
  <2>1. /\ UNCHANGED <<firmware, slot, keys, activeConfigSlot, configGeneration>>
        /\ ram' = c /\ previous' = ram /\ pc = "idle" /\ pc' = "save" /\ caller' = "usb"
        /\ firmware >= 5 \/ c.plexlog
    BY <1>14 DEF Request, flash, upgrade, position
  <2>2. c.plexlog \in BOOLEAN
    BY DEF SavedConfig, Config
  <2>3. firmware < 5 => c.plexlog = TRUE
    BY <2>1, <2>2, Constants DEF StoreShape
  <2> QED
    BY <1>1, <2>1, <2>3 DEF Consistent, Saving
<1> QED
  BY <1>2, <1>3, <1>4, <1>5, <1>6, <1>7, <1>8, <1>9, <1>10, <1>11, <1>12, <1>13, <1>14
     DEF Next, Save

-----------------------------------------------------------------------------
(* The two slots implement one atomic value. *)

Left == \E s \in Slot : slot[s].schema > firmware

(* A write never leaves settings of a newer release that were not there. *)
LEMMA LeftKept ==
    ASSUME StoreShape, firmware' >= firmware, firmware' \in 4..5,
           \/ slot' = slot
           \/ \E v : slot' = [slot EXCEPT ![TargetSlot] = v] /\ v.schema \in {0, firmware}
    PROVE  Left' => Left
<1>1. firmware \in 4..5 /\ TargetSlot \in Slot
  BY Written, Constants DEF StoreShape
<1>2. CASE slot' = slot
  <2>1. \A s \in Slot : slot[s].schema \in 0..5
    BY Constants DEF StoreShape
  <2> QED
    BY <1>1, <1>2, <2>1 DEF Left
<1>3. ASSUME NEW v, slot' = [slot EXCEPT ![TargetSlot] = v], v.schema \in {0, firmware}
      PROVE  Left' => Left
  <2>1. \A s \in Slot : slot[s].schema \in 0..5
    BY Constants DEF StoreShape
  <2>2. \A s \in Slot : slot'[s] = slot[s] \/ slot'[s] = v
    BY <1>3 DEF StoreShape
  <2> QED
    BY <1>1, <1>3, <2>1, <2>2 DEF Left
<1> QED
  BY <1>2, <1>3

LEMMA InitAtomic == StoreShape /\ Init => Atomic!Init
<1> SUFFICES ASSUME StoreShape, Init PROVE Atomic!Init
  OBVIOUS
<1>1. Loaded(firmware) \in Config /\ firmware \in Nat
  BY Loader, Constants DEF LoaderFacts, StoreShape
<1>2. ram \in Config /\ previous = ram /\ pc = "off" /\ validating = FALSE /\ inherited = {}
  BY Constants DEF Init
<1>3. (\E s \in Slot : slot[s].schema > firmware) \in BOOLEAN
  BY Zenon
<1> QED
  BY <1>1, <1>2, <1>3 DEF Atomic!Init

LEMMA Simulation ==
    ASSUME NoSilentFaults, StoreShape, StoreShape', Flag, Trial, Consistent, Consistent', Next
    PROVE  Atomic!Next \/ UNCHANGED Atomic!vars
<1>0. firmware \in 4..5 /\ firmware' \in 4..5
  BY Constants DEF StoreShape
<1>1. ASSUME UNCHANGED <<firmware, slot, keys>> PROVE Loaded(firmware)' = Loaded(firmware)
  <2>1. PICK f \in 4..5 : f = firmware
    BY <1>0
  <2>2. Loaded(f)' = Loaded(f)
    BY <1>1, ViewKept
  <2> QED
    BY <1>1, <2>1, <2>2
<1>2. CASE BootLoads
  <2>1. /\ pc = "off" /\ pc' \in {"idle", "save"} /\ UNCHANGED <<firmware, slot, keys>>
        /\ UNCHANGED <<validating, inherited>>
        /\ ram' = Loaded(firmware) /\ previous' = Loaded(firmware)
    BY <1>2 DEF BootLoads, flash, upgrade
  <2>2. Left' => Left
    BY <1>0, <2>1, LeftKept
  <2>3. Atomic!Boot
    BY <1>1, <2>1 DEF Atomic!Boot, Atomic!firmware
  <2> QED
    BY <2>2, <2>3 DEF Atomic!Next, Atomic!Step, Left
<1>3. CASE BootWithoutStorage
  <2>1. /\ slot = [s \in Slot |-> NoRecord] /\ keys = NoKeys /\ pc = "off" /\ pc' = "idle"
        /\ UNCHANGED <<firmware, slot, keys, validating, inherited, ram, previous>>
    BY <1>3 DEF BootWithoutStorage, NoSilentFaults, Disturb, flash, upgrade
  <2>2. NothingFound(firmware)
    BY <1>0, <2>1, Constants DEF NothingFound
  <2>3. Loaded(firmware) = Default /\ ram = Default /\ previous = Default
    BY <1>0, <2>1, <2>2, Loader, Constants DEF LoaderFacts, FromKeys, Consistent
  <2>4. Left' => Left
    BY <1>0, <2>1, LeftKept
  <2>5. Atomic!Boot
    BY <1>1, <2>1, <2>3 DEF Atomic!Boot, Atomic!firmware
  <2> QED
    BY <2>4, <2>5 DEF Atomic!Next, Atomic!Step, Left
<1>4. CASE PowerLoss
  <2>1. /\ pc # "off" /\ pc' = "off" /\ UNCHANGED <<firmware, slot, keys>>
        /\ UNCHANGED <<validating, inherited>> /\ ram' \in Config /\ previous' = ram'
    BY <1>4, Constants DEF PowerLoss, ForgetVolatile, flash, upgrade
  <2>2. Left' => Left
    BY <1>0, <2>1, LeftKept
  <2>3. Atomic!PowerLoss
    BY <1>1, <2>1 DEF Atomic!PowerLoss, Atomic!Forget, Atomic!firmware
  <2> QED
    BY <2>2, <2>3 DEF Atomic!Next, Atomic!Step, Left
<1>5. CASE PowerLossTearsRecord
  <2>1. /\ pc = "save" /\ pc' = "off" /\ UNCHANGED <<firmware, keys, validating, inherited>>
        /\ ram' \in Config /\ previous' = ram'
        /\ slot' = [slot EXCEPT ![TargetSlot] = NoRecord]
    BY <1>5, Constants DEF PowerLossTearsRecord, ForgetVolatile, upgrade
  <2>2. Loaded(firmware)' = Loaded(firmware)
    BY <2>1, ValueKept DEF Consistent, Saving
  <2>3. Left' => Left
    <3>1. NoRecord.schema \in {0, firmware} /\ firmware' >= firmware
      BY <1>0, <2>1, Constants
    <3> QED
      BY <1>0, <2>1, <3>1, LeftKept
  <2>4. Atomic!PowerLoss
    BY <2>1, <2>2 DEF Atomic!PowerLoss, Atomic!Forget, Atomic!firmware
  <2> QED
    BY <2>3, <2>4 DEF Atomic!Next, Atomic!Step, Left
(* A save answers ERROR. *)
<1>6. ASSUME pc \in {"save", "verify"}, Saving, Return(FALSE),
             UNCHANGED <<firmware, keys, validating, inherited>>,
             UNCHANGED <<activeConfigSlot, configGeneration>>,
             slot' = slot \/ slot' = [slot EXCEPT ![TargetSlot] = NoRecord]
      PROVE  Atomic!Next
  <2>1. /\ pc' = "idle" /\ ram' = previous /\ previous' = previous
        /\ Loaded(firmware)' = previous /\ Loaded(firmware) = previous
    BY <1>6, FailedIsConsistent DEF Saving
  <2>2. Left' => Left
    BY <1>0, <1>6, LeftKept, Constants
  <2>3. Atomic!AnswerError
    BY <1>6, <2>1 DEF Atomic!AnswerError, Atomic!firmware
  <2> QED
    BY <2>2, <2>3 DEF Atomic!Next, Atomic!Step, Left
<1>7. CASE SaveCannotOpen
  BY <1>6, <1>7 DEF SaveCannotOpen, Consistent, flash, upgrade, position
<1>8. CASE PutBytesFails
  BY <1>6, <1>8 DEF PutBytesFails, Consistent, upgrade, position
<1>9. CASE VerifyFails
  <2>1. pc = "verify" /\ slot[TargetSlot] # MakeRecord(NextGeneration)
    BY <1>9 DEF VerifyFails, NoSilentFaults, Disturb
  <2>2. Saving
    BY <2>1 DEF Consistent, Replaced
  <2> QED
    BY <1>6, <1>9, <2>1, <2>2 DEF VerifyFails, flash, upgrade, position
(* A save answers OK. *)
<1>10. ASSUME pc \in {"save", "verify"}, Return(TRUE), Loaded(firmware) = ram,
              UNCHANGED <<firmware, slot, keys, validating, inherited>>
       PROVE  Atomic!Next
  <2>1. pc' \in {"idle", "cleanup"} /\ ram' = ram /\ previous' = ram
    BY <1>10 DEF Return
  <2>2. Left' => Left
    BY <1>0, <1>10, LeftKept
  <2>3. Atomic!AnswerOk
    BY <1>1, <1>10, <2>1 DEF Atomic!AnswerOk, Atomic!firmware
  <2> QED
    BY <2>2, <2>3 DEF Atomic!Next, Atomic!Step, Left
<1>11. CASE SaveUnchanged
  <2>1. pc = "save" /\ PayloadIsCurrent /\ Positioned
    BY <1>11 DEF SaveUnchanged, Consistent, Saving
  <2>2. /\ activeConfigSlot \in Slot
        /\ slot[activeConfigSlot] = MakeRecord(slot[activeConfigSlot].generation)
    BY <2>1 DEF PayloadIsCurrent, StoreShape, Slot
  <2>3. Loaded(firmware) = ram
    BY <2>1, <2>2, OwnRecordLoads DEF Positioned, StoreShape, Slot
  <2> QED
    BY <1>10, <1>11, <2>1, <2>3 DEF SaveUnchanged, flash, upgrade
<1>12. CASE VerifyOk
  <2>1. pc = "verify" /\ slot[TargetSlot] = MakeRecord(NextGeneration)
    BY <1>12 DEF VerifyOk
  <2>2. Replaced
    BY <2>1, Written DEF Consistent
  <2>3. Loaded(firmware) = ram
    BY <2>2, Written, OwnRecordLoads DEF Replaced
  <2> QED
    BY <1>10, <1>12, <2>1, <2>3 DEF VerifyOk, flash, upgrade
<1>13. CASE PutBytes
  <2>1. /\ pc = "save" /\ pc' = "verify" /\ Saving
        /\ UNCHANGED <<firmware, keys, validating, inherited, ram, previous>>
        /\ UNCHANGED <<activeConfigSlot, configGeneration>>
    BY <1>13 DEF PutBytes, Consistent, upgrade, position
  <2>2. CASE slot' = [slot EXCEPT ![TargetSlot] = MakeRecord(NextGeneration)]
    <3>1. /\ Selects(firmware, TargetSlot)'
          /\ (slot[TargetSlot] = MakeRecord(NextGeneration))'
      BY <2>1, <2>2, WriteTakesOver DEF Saving
    <3>2. Loaded(firmware)' = ram
      <4>1. PICK f \in 4..5 : f = firmware /\ f = firmware'
        BY <1>0, <2>1
      <4>2. PICK t \in Slot : t = TargetSlot /\ t = TargetSlot'
        BY <2>1, Written DEF TargetSlot
      <4>3. /\ slot'[t] = MakeRecord(NextGeneration) /\ slot'[t] \in Record
            /\ slot'[t].schema = f /\ slot'[t].config = ram
        BY <2>2, <4>1, <4>2, Written DEF StoreShape, MakeRecord
      <4>4. Selects(f, t)'
        BY <3>1, <4>1, <4>2 DEF Selects
      <4>5. Loaded(f)' = ApplyRecord(slot'[t])
        BY <4>4, LoaderAfter, Constants DEF LoaderFacts, ApplyRecord
      <4>6. ApplyRecord(slot'[t]) = ram
        BY <4>1, <4>3, ApplyRecordShape DEF Consistent
      <4> QED
        BY <4>1, <4>5, <4>6
    <3>3. Left' => Left
      <4>1. MakeRecord(NextGeneration).schema \in {0, firmware} /\ firmware' >= firmware
        BY <1>0, <2>1 DEF MakeRecord
      <4> QED
        BY <1>0, <2>2, <4>1, LeftKept
    <3>4. Atomic!Persist
      BY <2>1, <3>2 DEF Atomic!Persist, Atomic!firmware
    <3> QED
      BY <3>3, <3>4 DEF Atomic!Next, Atomic!Step, Left
  <2>3. CASE slot' = [slot EXCEPT ![TargetSlot] = NoRecord]
    <3>1. Loaded(firmware)' = Loaded(firmware)
      BY <2>1, <2>3, ValueKept DEF Saving
    <3>2. Left' => Left
      <4>1. NoRecord.schema \in {0, firmware} /\ firmware' >= firmware
        BY <1>0, <2>1, Constants
      <4> QED
        BY <1>0, <2>3, <4>1, LeftKept
    <3>3. CASE Left /\ ~Left'
      <4>1. Atomic!Overwrite
        BY <2>1, <3>1, <3>3, Zenon DEF Atomic!Overwrite, Atomic!config, Atomic!firmware, Left
      <4> QED
        BY <3>2, <4>1 DEF Atomic!Next, Atomic!Step, Left
    <3>4. CASE Left <=> Left'
      BY <2>1, <3>1, <3>4, Zenon DEF Atomic!vars, Atomic!config, Atomic!firmware, Left
    <3> QED
      BY <3>2, <3>3, <3>4
  <2> QED
    BY <1>13, <2>2, <2>3 DEF PutBytes
<1>14. CASE RemoveKeys
  <2>1. /\ UNCHANGED <<firmware, slot, ram, previous, validating, inherited>>
        /\ pc = "cleanup" /\ pc' = "idle"
    BY <1>14 DEF RemoveKeys, upgrade
  <2>2. PICK f \in 4..5 : f = firmware /\ f = firmware'
    BY <1>0, <2>1
  <2>3. ~NothingFound(f)
    BY <2>1, <2>2 DEF Consistent, NothingFound
  <2>4. PICK a \in Slot : Selects(f, a)
    BY <2>3, Loader, Constants DEF LoaderFacts
  <2>5. Selects(f, a)'
    BY <2>1, <2>4 DEF Selects, GenerationIsNewer
  <2>6. Loaded(f) = ApplyRecord(slot[a]) /\ Loaded(f)' = ApplyRecord(slot[a])'
    BY <2>4, <2>5, Loader, LoaderAfter, Constants DEF LoaderFacts
  <2>7. Loaded(firmware)' = Loaded(firmware) /\ (Left <=> Left')
    BY <2>1, <2>2, <2>6 DEF ApplyRecord, Left
  <2> QED
    BY <2>1, <2>7, Zenon DEF Atomic!vars, Atomic!config, Atomic!firmware, Left
<1>15. CASE Reset
  <2>1. /\ pc = "idle" /\ ~validating /\ pc' = "off"
        /\ UNCHANGED <<firmware, validating, inherited>>
        /\ slot' = [s \in Slot |-> NoRecord] /\ keys' = NoKeys
        /\ ram' \in Config /\ previous' = ram'
    BY <1>15, Constants DEF Reset, ForgetVolatile, upgrade
  <2>2. PICK f \in 4..5 : f = firmware /\ f = firmware'
    BY <1>0, <2>1
  <2>3. NothingFound(f)'
    BY <2>1, Constants DEF NothingFound
  <2>4. Loaded(f)' = Default
    BY <2>1, <2>3, LoaderAfter, Constants DEF LoaderFacts, FromKeys
  <2>5. ~Left'
    BY <1>0, <2>1, Constants DEF Left
  <2>6. Atomic!Reset
    BY <2>1, <2>2, <2>4 DEF Atomic!Reset, Atomic!Forget, Atomic!firmware
  <2> QED
    BY <2>5, <2>6 DEF Atomic!Next, Atomic!Step, Left
<1>16. CASE Validate
  <2>1. /\ UNCHANGED <<firmware, slot, keys, inherited, ram, previous, pc>> /\ pc = "idle"
        /\ validating /\ validating' = FALSE
    BY <1>16 DEF Validate, flash
  <2>2. Left' => Left
    BY <1>0, <2>1, LeftKept
  <2>3. Atomic!Accept
    BY <1>1, <2>1 DEF Atomic!Accept, Atomic!config
  <2> QED
    BY <2>2, <2>3 DEF Atomic!Next, Atomic!Step, Left
<1>17. ASSUME NEW c \in SavedConfig(NewestSchema), Request(c) PROVE Atomic!Next
  <2>1. /\ UNCHANGED <<firmware, slot, keys, validating, inherited>>
        /\ ram' = c /\ previous' = ram /\ pc = "idle" /\ pc' = "save" /\ c \in Config
    BY <1>17 DEF Request, SavedConfig, flash, upgrade
  <2>2. Left' => Left
    BY <1>0, <2>1, LeftKept
  <2>3. Atomic!Change(c)
    BY <1>1, <2>1 DEF Atomic!Change, Atomic!firmware
  <2> QED
    BY <2>1, <2>2, <2>3 DEF Atomic!Next, Atomic!Step, Left
<1>18. ASSUME NEW image \in Firmwares, Upgrade(image) PROVE Atomic!Next
  <2>1. /\ pc = "idle" /\ ~validating /\ validating' = TRUE /\ firmware = 4 /\ firmware' = 5
        /\ inherited' = FoundAgain /\ UNCHANGED <<slot, keys>> /\ pc' = "off"
        /\ ram' \in Config /\ previous' = ram'
    BY <1>0, <1>18, Constants DEF Upgrade, ForgetVolatile, flash
  <2>2. Loaded(firmware) \in inherited' /\ inherited' \subseteq Config
    BY <2>1 DEF FoundAgain, StoreShape
  <2>3. Left' => Left
    BY <1>0, <2>1, LeftKept
  <2>4. ~Left => Loaded(firmware)' = Loaded(firmware)
    <3> SUFFICES ASSUME ~Left PROVE Loaded(firmware)' = Loaded(firmware)
      OBVIOUS
    <3>1. \A s \in Slot : slot[s].schema \in 0..4
      BY <2>1, Constants DEF Left, StoreShape
    <3>2. Loaded(5)' = Loaded(5)
      BY <2>1, ViewKept
    <3>3. Loaded(5) = Loaded(4)
      <4>1. NothingFound(4) => NothingFound(5)
        BY <3>1 DEF NothingFound
      <4>2. \A s \in Slot : Selects(4, s) => Selects(5, s)
        BY <3>1 DEF Selects
      <4> QED
        BY <4>1, <4>2, Loader, Constants DEF LoaderFacts
    <3> QED
      BY <2>1, <3>2, <3>3
  <2>5. Atomic!Upgrade
    BY <2>1, <2>2, <2>4 DEF Atomic!Upgrade, Atomic!Forget, Left
  <2> QED
    BY <2>3, <2>5 DEF Atomic!Next, Atomic!Step, Left
<1>19. ASSUME NEW image \in Firmwares, AutomaticRollback(image) \/ ManualRollback(image)
       PROVE  /\ firmware = 5 /\ firmware' = 4 /\ pc \in {"off", "idle"}
              /\ UNCHANGED <<slot, keys, inherited>> /\ validating' = FALSE /\ pc' = "off"
              /\ ram' \in Config /\ previous' = ram'
              /\ Loaded(firmware)' = Loaded(4) /\ Loaded(4) \in Config
  <2>1. /\ image = 4 /\ firmware = 5 /\ firmware' = 4 /\ pc \in {"off", "idle"} /\ pc' = "off"
        /\ UNCHANGED <<slot, keys, inherited>>
        /\ ram' \in Config /\ previous' = ram'
    BY <1>0, <1>19, Constants DEF AutomaticRollback, ManualRollback, ForgetVolatile, flash
  <2>2. validating' = FALSE
    BY <1>19, Zenon DEF AutomaticRollback, ManualRollback, Flag
  <2>3. Loaded(4)' = Loaded(4) /\ Loaded(4) \in Config
    BY <2>1, ViewKept, Loader, Constants DEF LoaderFacts
  <2>4. Loaded(firmware)' = Loaded(4)'
    BY <2>1
  <2> QED
    BY <2>1, <2>2, <2>3, <2>4
<1>20. ASSUME NEW image \in Firmwares, AutomaticRollback(image) PROVE Atomic!Next
  <2>1. validating /\ Loaded(4) \in inherited
    BY <1>20 DEF AutomaticRollback, Trial
  <2>2. /\ firmware = 5 /\ firmware' = 4 /\ pc \in {"off", "idle"}
        /\ UNCHANGED <<slot, keys, inherited>> /\ validating' = FALSE /\ pc' = "off"
        /\ ram' \in Config /\ previous' = ram'
        /\ Loaded(firmware)' = Loaded(4) /\ Loaded(4) \in Config
    BY <1>19, <1>20, Zenon
  <2>3. Atomic!Reject /\ firmware' < firmware
    BY <2>1, <2>2 DEF Atomic!Reject, Atomic!Forget
  <2> QED
    BY <2>3 DEF Atomic!Next, Atomic!Step
<1>21. ASSUME NEW image \in Firmwares, ManualRollback(image) PROVE Atomic!Next
  <2>1. pc = "idle" /\ ~validating
    BY <1>21 DEF ManualRollback
  <2>2. /\ firmware = 5 /\ firmware' = 4 /\ pc \in {"off", "idle"}
        /\ UNCHANGED <<slot, keys, inherited>> /\ validating' = FALSE /\ pc' = "off"
        /\ ram' \in Config /\ previous' = ram'
        /\ Loaded(firmware)' = Loaded(4) /\ Loaded(4) \in Config
    BY <1>19, <1>21, Zenon
  <2>3. Atomic!GoBack /\ firmware' < firmware
    BY <2>1, <2>2 DEF Atomic!GoBack, Atomic!Forget
  <2> QED
    BY <2>3 DEF Atomic!Next, Atomic!Step
<1> QED
  BY <1>2, <1>3, <1>4, <1>5, <1>7, <1>8, <1>9, <1>11, <1>12, <1>13, <1>14, <1>15, <1>16,
     <1>17, <1>18, <1>20, <1>21
     DEF Next, Save

(* Whatever power losses and reported failures of the storage do, the two  *)
(* slots are one value that a save replaces as a whole or not at all, and  *)
(* that an upgrade and its rejection take over (load, save and the callers *)
(* of save()).                                                             *)
THEOREM SaveIsAtomicAlways == NoSilentFaults => (Spec => SaveIsAtomic)
<1> SUFFICES ASSUME NoSilentFaults PROVE Spec => SaveIsAtomic
  OBVIOUS
<1> DEFINE IInv == StoreShape /\ Flag /\ Trial /\ Consistent
<1>1. Init => IInv /\ Atomic!Init
  <2> SUFFICES ASSUME Init PROVE IInv /\ Atomic!Init
    OBVIOUS
  <2>1. StoreShape /\ Flag /\ Trial
    BY InitShape, Zenon DEF Init, Flag, Trial
  <2>2. Consistent
    BY Constants DEF Init, Consistent
  <2> QED
    BY <2>1, <2>2, InitAtomic
<1>2. IInv /\ [Next]_vars => IInv'
  <2> SUFFICES ASSUME IInv, [Next]_vars PROVE IInv'
    OBVIOUS
  <2>1. StoreShape' /\ Trial'
    BY NextShape, NextTrial
  <2> QED
    BY <2>1, NextFlag, NextConsistent
<1>3. IInv /\ IInv' /\ [Next]_vars => [Atomic!Next]_(Atomic!vars)
  <2>1. CASE Next /\ IInv /\ IInv'
    BY <2>1, Simulation
  <2>2. CASE UNCHANGED vars
    BY <2>2
    DEF vars, flash, upgrade, position, Atomic!vars, Atomic!config, Atomic!firmware,
        Loaded, FoundSchemas, ValidSlots, NewestFound, SelectedSlot, ApplyRecord,
        GenerationIsNewer
  <2> QED
    BY <2>1, <2>2
<1> QED
  BY <1>1, <1>2, <1>3, PTL DEF Spec, SaveIsAtomic, Atomic!Spec
=============================================================================
