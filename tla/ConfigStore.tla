---------------------------- MODULE ConfigStore ----------------------------
(***************************************************************************)
(* The persistent configuration of include/AppConfig.h: two record slots   *)
(* in flash with schema, generation and CRC, load() with its migrations,   *)
(* save() with its verification, and the callers of save() that put back   *)
(* the previous settings when it fails.                                    *)
(*                                                                         *)
(* The firmware that runs is named by the schema it writes.  The previous  *)
(* release kept the same store with schema 4; it is not in the repository  *)
(* and is modelled here as load() and save() of that schema.               *)
(*                                                                         *)
(* The settings a migration carries over are a model value: a record of an *)
(* older schema is named by the settings its migration yields.  The fields *)
(* that migrations decide themselves (profile, gateway) are kept apart.    *)
(***************************************************************************)
EXTENDS ControlPolicy

CONSTANTS
    Settings,           \* sanitized inverter, bus and timing settings
    DefaultSettings,    \* those of the AppConfig constructor
    Profiles,           \* profiles the operator selects
    Modulus,            \* generations are counted modulo this (2^32 in code)
    Firmwares,          \* schemas of the firmware images that may run
    InitialSchemas,     \* schemas of the records found in flash; 0 is none
    Faults,             \* storage faults this instance admits
    MaxFaults           \* bound on faults and power losses

Slot == 0..1
NewestSchema == 5

Config == [settings : Settings, rseProfile : RseProfile, plexlog : BOOLEAN]

Default == [settings |-> DefaultSettings, rseProfile |-> "StrictOneHot4",
            plexlog |-> TRUE]

Generation == 0..(Modulus - 1)

Record == [schema : 1..NewestSchema, generation : Generation, config : Config]

(* No record or one whose CRC does not match. *)
NoRecord == [schema |-> 0, generation |-> 0, config |-> Default]

NoKeys == "none"

ASSUME StoreAssumption ==
    /\ DefaultSettings \in Settings /\ NoKeys \notin Settings
    /\ "StrictOneHot4" \in Profiles /\ Profiles \subseteq RseProfile
    /\ Modulus \in Nat /\ Modulus >= 4 /\ Modulus % 2 = 0
    /\ Firmwares \subseteq 4..NewestSchema /\ Firmwares # {}
    /\ InitialSchemas \subseteq 0..NewestSchema
    /\ MaxFaults \in Nat

VARIABLES
    slot,               \* the records under "cfg0" and "cfg1"
    keys,               \* settings in the single keys of V1.0.4, or NoKeys
    firmware,           \* schema of the running firmware
    ram,                \* the configuration in use
    previous,           \* copy that the caller of save() puts back
    activeConfigSlot, configGeneration,
    pc,                 \* "off", "idle", "save", "verify" or "cleanup"
    caller,             \* who waits for save(): "usb", "migrate" or "legacy"
    validating,         \* the firmware is in its first-boot window
    inherited,          \* configurations the firmware before may find again
    budget

flash == <<slot, keys>>
upgrade == <<firmware, validating, inherited>>
position == <<activeConfigSlot, configGeneration>>
vars == <<flash, upgrade, ram, previous, position, pc, caller, budget>>

TypeOK ==
    /\ slot \in [Slot -> Record \cup {NoRecord}]
    /\ keys \in Settings \cup {NoKeys}
    /\ firmware \in Firmwares
    /\ ram \in Config /\ previous \in Config
    /\ activeConfigSlot \in Slot \cup {-1} /\ configGeneration \in Generation
    /\ pc \in {"off", "idle", "save", "verify", "cleanup"}
    /\ caller \in {"usb", "migrate", "legacy"}
    /\ validating \in BOOLEAN /\ inherited \subseteq Config
    /\ budget \in 0..MaxFaults

Disturb(kind) == kind \in Faults /\ budget > 0 /\ budget' = budget - 1

-----------------------------------------------------------------------------
(* Records. *)

(* Mutant: the counters themselves are compared. *)
GenerationIsLarger(left, right) == left > right

(* The sign of the difference of two unsigned counters. *)
GenerationIsNewer(left, right) ==
    (left - right) % Modulus \in 1..(Modulus \div 2 - 1)

ValidSlots(schema) == {s \in Slot : slot[s].schema = schema}

(* Schemas that the loader of a firmware finds, newest first. *)
FoundSchemas(image) == {s \in 1..image : ValidSlots(s) # {}}

NewestFound(image) ==
    CHOOSE s \in FoundSchemas(image) : \A t \in FoundSchemas(image) : t <= s

SelectedSlot(schema) ==
    IF 1 \in ValidSlots(schema) /\
       (0 \notin ValidSlots(schema) \/
        GenerationIsNewer(slot[1].generation, slot[0].generation))
    THEN 1 ELSE 0

(* What applyRecord() makes of a record: schema 3 brought the profile,     *)
(* schema 5 the gateway.                                                   *)
ApplyRecord(record) ==
    [settings |-> record.config.settings,
     rseProfile |-> IF record.schema >= 3 THEN record.config.rseProfile
                                          ELSE "StrictOneHot4",
     plexlog |-> record.schema >= 5 => record.config.plexlog]

(* What a boot of the firmware loads from the flash as it is. *)
Loaded(image) ==
    IF FoundSchemas(image) # {}
    THEN ApplyRecord(slot[SelectedSlot(NewestFound(image))])
    ELSE IF keys # NoKeys THEN [Default EXCEPT !.settings = keys] ELSE Default

MakeRecord(generation) ==
    [schema |-> firmware, generation |-> generation, config |-> ram]

(* Mutant: a counter wider than the field. *)
NextGenerationUnbounded == configGeneration + 1

NextGeneration == (configGeneration + 1) % Modulus

(* Mutant: the active slot is overwritten. *)
TargetSlotInPlace == IF activeConfigSlot = 1 THEN 1 ELSE 0

TargetSlot == IF activeConfigSlot = 0 THEN 1 ELSE 0

(* The active record already holds what would be written. *)
PayloadIsCurrent ==
    /\ activeConfigSlot >= 0
    /\ slot[activeConfigSlot] =
           MakeRecord(slot[activeConfigSlot].generation)

-----------------------------------------------------------------------------
(* Power and load(). *)

ForgetVolatile ==
    /\ ram' = Default /\ previous' = Default
    /\ activeConfigSlot' = -1 /\ configGeneration' = 0
    /\ caller' = "usb" /\ pc' = "off"

(* load() finds records of its own schema, else migrates and saves. *)
BootLoads ==
    /\ pc = "off"
    /\ ram' = Loaded(firmware) /\ previous' = Loaded(firmware)
    /\ IF FoundSchemas(firmware) # {}
       THEN LET newest == NewestFound(firmware) IN
            /\ activeConfigSlot' = SelectedSlot(newest)
            /\ configGeneration' = slot[SelectedSlot(newest)].generation
            /\ pc' = IF newest = firmware THEN "idle" ELSE "save"
            /\ caller' = IF newest = firmware THEN "usb" ELSE "migrate"
       ELSE /\ pc' = "save" /\ caller' = "legacy"
            /\ UNCHANGED position
    /\ UNCHANGED <<flash, upgrade, budget>>

(* The namespace cannot be opened: defaults, and nothing is saved.  This   *)
(* is the first boot of a new unit, and a fault of any other one.          *)
BootWithoutStorage ==
    /\ pc = "off"
    /\ IF slot = [s \in Slot |-> NoRecord] /\ keys = NoKeys
       THEN UNCHANGED budget ELSE Disturb("mount")
    /\ pc' = "idle"
    /\ UNCHANGED <<flash, upgrade, ram, previous, position, caller>>

PowerLoss ==
    /\ pc # "off"
    /\ Disturb("power")
    /\ ForgetVolatile
    /\ UNCHANGED <<flash, upgrade>>

(* Power fails while the record is being written. *)
PowerLossTearsRecord ==
    /\ pc = "save" /\ ~PayloadIsCurrent
    /\ Disturb("power")
    /\ slot' = [slot EXCEPT ![TargetSlot] = NoRecord]
    /\ ForgetVolatile
    /\ UNCHANGED <<keys, upgrade>>

-----------------------------------------------------------------------------
(* A USB command that changes the configuration, and save(). *)

(* Settings that a firmware can hold: the gateway came with schema 5.      *)
Request(c) ==
    /\ pc = "idle" /\ ~validating
    /\ firmware >= 5 \/ c.plexlog
    /\ ram' = c /\ previous' = ram
    /\ pc' = "save" /\ caller' = "usb"
    /\ UNCHANGED <<flash, upgrade, position, budget>>

(* "reset CONFIRM": everything that is saved is erased, and the firmware   *)
(* restarts.                                                               *)
Reset ==
    /\ pc = "idle" /\ ~validating
    /\ slot' = [s \in Slot |-> NoRecord] /\ keys' = NoKeys
    /\ ForgetVolatile
    /\ UNCHANGED <<upgrade, budget>>

(* The answer of save() to its caller. *)
Return(ok) ==
    /\ pc' = IF ok /\ caller = "legacy" THEN "cleanup" ELSE "idle"
    /\ caller' = "usb"
    /\ ram' = IF ok \/ caller # "usb" THEN ram ELSE previous
    /\ previous' = ram'

SaveCannotOpen ==
    /\ pc = "save"
    /\ Disturb("open")
    /\ Return(FALSE)
    /\ UNCHANGED <<flash, upgrade, position>>

SaveUnchanged ==
    /\ pc = "save" /\ PayloadIsCurrent
    /\ Return(TRUE)
    /\ UNCHANGED <<flash, upgrade, position, budget>>

PutBytes ==
    /\ pc = "save" /\ ~PayloadIsCurrent
    /\ \/ /\ slot' = [slot EXCEPT ![TargetSlot] = MakeRecord(NextGeneration)]
          /\ UNCHANGED budget
       \/ /\ slot' = [slot EXCEPT ![TargetSlot] = NoRecord]
          /\ Disturb("put")
    /\ pc' = "verify"
    /\ UNCHANGED <<keys, upgrade, ram, previous, position, caller>>

(* putBytes() answers short; the old record is still there or damaged. *)
PutBytesFails ==
    /\ pc = "save" /\ ~PayloadIsCurrent
    /\ Disturb("put")
    /\ slot' \in {slot, [slot EXCEPT ![TargetSlot] = NoRecord]}
    /\ Return(FALSE)
    /\ UNCHANGED <<keys, upgrade, position>>

VerifyOk ==
    /\ pc = "verify"
    /\ slot[TargetSlot] = MakeRecord(NextGeneration)
    /\ activeConfigSlot' = TargetSlot
    /\ configGeneration' = NextGeneration
    /\ Return(TRUE)
    /\ UNCHANGED <<flash, upgrade, budget>>

VerifyFails ==
    /\ pc = "verify"
    /\ IF slot[TargetSlot] = MakeRecord(NextGeneration)
       THEN Disturb("readback") ELSE UNCHANGED budget
    /\ Return(FALSE)
    /\ UNCHANGED <<flash, upgrade, position>>

(* load() removes the single keys once a record replaces them, or leaves   *)
(* them when it cannot open the namespace again.                           *)
RemoveKeys ==
    /\ pc = "cleanup"
    /\ \/ keys' = NoKeys /\ UNCHANGED budget
       \/ Disturb("open") /\ UNCHANGED keys
    /\ pc' = "idle"
    /\ UNCHANGED <<slot, upgrade, ram, previous, position, caller>>

-----------------------------------------------------------------------------
(* Change of firmware. *)

(* The older firmware finds its record again; single keys that it could    *)
(* not replace are removed by the newer one.                               *)
FoundAgain ==
    {Loaded(firmware)} \cup
        (IF FoundSchemas(firmware) = {} THEN {Default} ELSE {})

Upgrade(image) ==
    /\ pc = "idle" /\ ~validating
    /\ image > firmware
    /\ inherited' = FoundAgain
    /\ firmware' = image /\ validating' = TRUE
    /\ ForgetVolatile
    /\ UNCHANGED <<flash, budget>>

(* The first-boot window ends well: USB commands are served from now on.   *)
Validate ==
    /\ pc = "idle" /\ validating
    /\ validating' = FALSE
    /\ UNCHANGED <<flash, firmware, inherited, ram, previous, position, pc,
                   caller, budget>>

(* By the bootloader before load(), or by the image after it.              *)
AutomaticRollback(image) ==
    /\ pc \in {"off", "idle"} /\ validating
    /\ image < firmware
    /\ firmware' = image /\ validating' = FALSE
    /\ ForgetVolatile
    /\ UNCHANGED <<flash, inherited, budget>>

ManualRollback(image) ==
    /\ pc = "idle" /\ ~validating
    /\ image < firmware
    /\ firmware' = image
    /\ ForgetVolatile
    /\ UNCHANGED <<flash, validating, inherited, budget>>

-----------------------------------------------------------------------------
(* The flash as firmware that ran before left it: one record, or two with  *)
(* successive generations, of one schema; or single keys; or nothing.      *)
StoredBefore(schema, generation, newer, older) ==
    LET last == [schema |-> schema, generation |-> generation,
                 config |-> newer]
        first == [schema |-> schema,
                  generation |-> (generation - 1) % Modulus, config |-> older]
    IN  {[s \in Slot |-> IF s = at THEN last ELSE other] :
            at \in Slot, other \in {first, NoRecord}}

SavedConfig(schema) ==
    {c \in Config : c.rseProfile \in Profiles /\ (c.plexlog => schema >= 5)}

InitialFlash ==
    \/ /\ 0 \in InitialSchemas
       /\ slot = [s \in Slot |-> NoRecord]
       /\ keys \in Settings \cup {NoKeys}
    \/ /\ keys = NoKeys
       /\ \E schema \in InitialSchemas \ {0}, generation \in Generation :
              \E newer, older \in SavedConfig(schema) :
                  slot \in StoredBefore(schema, generation, newer, older)

Init ==
    /\ InitialFlash
    /\ firmware \in Firmwares
    /\ ram = Default /\ previous = Default /\ inherited = {}
    /\ activeConfigSlot = -1 /\ configGeneration = 0
    /\ pc = "off" /\ caller = "usb" /\ validating = FALSE
    /\ budget = MaxFaults

Save == SaveCannotOpen \/ SaveUnchanged \/ PutBytes \/ PutBytesFails
            \/ VerifyOk \/ VerifyFails

Next ==
    \/ BootLoads \/ BootWithoutStorage \/ PowerLoss \/ PowerLossTearsRecord
    \/ Save \/ RemoveKeys \/ Reset \/ Validate
    \/ \E c \in SavedConfig(NewestSchema) : Request(c)
    \/ \E image \in Firmwares :
           Upgrade(image) \/ AutomaticRollback(image) \/ ManualRollback(image)

Spec == Init /\ [][Next]_vars

-----------------------------------------------------------------------------
(* Properties. *)

Atomic == INSTANCE AtomicConfig WITH
    value <- Loaded(firmware), working <- ram,
    release <- firmware, trial <- validating,
    left <- \E s \in Slot : slot[s].schema > firmware,
    status <- IF pc = "off" THEN "off"
              ELSE IF pc \in {"save", "verify"} THEN "saving" ELSE "idle"

(* The two slots are one atomic value: whatever power losses and failed    *)
(* writes do, a save that answered OK is what the next boot loads, one     *)
(* that answered ERROR changed nothing, and an interrupted one, the one of *)
(* a migration included, leaves the old settings or the new ones.  An      *)
(* upgrade and its automatic rollback take them over.                      *)
SaveIsAtomic == Atomic!Spec

(* While a new firmware is in its first-boot window, the older firmware    *)
(* would still load exactly the configuration it ran with: the migration   *)
(* in load() writes the slot the older record is not in.  (Settings never  *)
(* saved as a record may be lost, FoundAgain.)                             *)
AutomaticRollbackKeepsConfig ==
    validating => \A image \in Firmwares :
        image < firmware => Loaded(image) \in inherited

(* Claim of the documentation: settings remain across a rollback.  Schema  *)
(* 5 writes the two slots in turn, so its second save removes the last     *)
(* record that the older firmware accepts.                                 *)
RollbackKeepsSettings ==
    [][firmware' < firmware =>
           Loaded(firmware').settings = Loaded(firmware).settings]_vars
=============================================================================
