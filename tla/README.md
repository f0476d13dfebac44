# Verification of 14a-bridge

The bridge is an ESP32 (M5StamPLC) between the ripple-control receiver of a
grid operator and up to six photovoltaic inverters. It reads four contacts,
decodes them under a profile to 0, 30, 60 or 100 %, and writes the power limit
and the feed permission of each inverter over RS485, verifying what it wrote.
A data logger (PlexLog) reaches the same inverters through it, an installer
configures it over USB, and it updates its own firmware.

This directory holds TLA+ modules of the firmware, the configurations that
model-check them with TLC, and proofs that the TLA+ proof system checks.
Sources are named relative to the repository; `main.cpp`, `AppConfig.h` and the
other firmware files are those under `stamplc_14a_bridge/`.

1. [Inventory](#inventory)
2. [Modules](#modules)
3. [Runs](#runs)
4. [Proofs](#proofs)
5. [Behaviours noticed while modelling](#behaviours-noticed-while-modelling)
6. [Not modelled](#not-modelled)
7. [Plan](#plan)

## Inventory

### How the parts interact

The firmware is **one thread**. `setup()` loads the configuration, prepares the
trial of a new image and, unless there is one, starts inverter control;
`loop()` then goes through fixed phases: rollback gesture, boot validation,
USB command, end of TEST, ripple-control transition or reapplication, PlexLog,
one poll, OTA, display.

Yet it is concurrent. Every wait for the inverter bus runs the **idle
callback** `serviceTimeCriticalInputs` (main.cpp:2477), which samples the
contacts and lets the gateway take requests in. A batch over six inverters
takes seconds; whatever it decided before a wait may be out of date after it,
and what it does then is the core of the program. The outside (contacts, the
inverters, PlexLog, power, the network) changes at any moment.

Parts share state by global variables and call each other directly:

- control → Modbus master: `readRaw`, `writeAndVerify`,
  `writeBitCommandAndVerify`; the master → idle callback in each wait;
- control → gateway: `publishVerifiedHolding` after each verified read, and
  `serviceOneQueued`, the slots of a batch; the gateway → Modbus master:
  `transactRaw`;
- OTA → control: `safeForFirmwareUpdate`, asked before and during a download,
  in which `loop()` waits; OTA → display → rollback gesture: `otaDisplayStage`,
  which is what the gesture takes for a running update;
- USB commands → configuration: `save()`, whose failure the caller must undo;
  configuration → control: batches, polls and the OTA gate read the live
  settings, which the commands change under them;
- boot validation → OTA: `setAutomatic(false)` before a manual rollback.

### Components

| Component | State | Operations | Correct when |
|---|---|---|---|
| Control policy (`ControlPolicy.h`) | none | decode a mask, compare TEST with the input, OTA condition, watts of a level | it follows the truth tables; nothing is released by ambiguity |
| Control core (`main.cpp`) | raw and debounced mask, commanded level, TEST, health and at-target flags, pending reapplication | sample, debounce, batch, abort, TEST, SAFE, poll, USB commands, reboot | the newest level reaches every inverter; TEST never relaxes; healthy is true |
| Commissioning (`main.cpp`) | rating, ceiling, curve of each inverter; stages of `commit` | `max`, `id`, `limit`, `rsecfg`, `commit`, `dryrun` | a verified rating has a ceiling that the curve respects; a commit ends rated or restored |
| Configuration store (`AppConfig.h`) | two records in NVS, their position in RAM | load, migrate, save, verify, reset | the two slots are one atomic value, over upgrade and rollback too |
| Boot validation and rollback (`main.cpp`) | `bridgeboot` and `bridgeprev` in NVS | trial, self-test, automatic and manual rollback | only a proven image controls inverters; a failed one is left |
| OTA manager (`OtaManager.cpp`) | schedule, partition under download | check, download, record, activate, back off | wherever power fails, something bootable and safe boots |
| Modbus master (`ModbusRtuMaster.cpp`) | none between transactions | transmit, receive, read, write and verify | one transaction at a time; verified means it was in the register |
| PlexLog gateway (`PlexLogGateway.cpp`) | queue, cache, frame being received | collect, answer from cache, queue, forward, publish | no answer comes late or is older than what control published |
| Rollback gesture (`main.cpp`) | hold, lock, notice, stage of an update | look at the buttons, refuse, request, show | a rollback is asked for only deliberately, and then it is |
| Update schedule (`OtaManager.cpp`) | settings, last day, failures, pause | evaluate, check by hand, set | each day's window is used, and once |
| Event log (`EventLog.cpp`) | two files | append, rotate, tail | a rotation loses only what is older |
| Display (`main.cpp`) | tiles, their watts, status light | draw | shows what the control state says |
| Compile-time tests | none | `static_assert`s over `ControlPolicy.h` | they hold of the models too |
| Desktop serial tool (`*.py` at the top) | worker thread, receive buffer, command queue | send, match answers, retry | an answer is matched with its command |
| Windows configurator (`tools/*.cs`, `stamplc_usb_gui.py`) | a client's view of the settings | USB protocol, flashing | shows what the firmware reports |
| Build, release and test tools | none | sign, verify, soak and capacity tests | |

### What is hard here

- *Interleaving*: the contacts change between any two stages of a batch, a
  commit or a poll; PlexLog asks in the middle of any transaction, its own
  forward included.
- *Stale decisions*: at-target flags speak of a level that is no longer
  commanded, or of a curve that a command has replaced since; cached reads are
  older than what was just written; a commit decides on a look at the contacts
  several timeouts before it writes.
- *Partial failure*: the power is written but the feed command is not; the
  record is saved but its verification is not; the rating is found but cannot
  be saved and the register must be put back.
- *Crashes*: between the steps of a save, of a migration, of an installation,
  and in the first boot of a new image.
- *Timeouts and retries*: a late answer meets the next request; a request
  waits for a slot while its sender's timeout runs.
- *Time*: `millis()` wraps after 49.7 days under every debounce, hold and
  deadline; the calendar clock jumps, is lost and crosses midnight in a window.
- *Slowness*: `loop()` looks at buttons, deadlines and commands once per
  iteration, which takes from a millisecond to the many seconds of a batch.
- *Liveness*: batches are aborted by every newer input, and yet the newest one
  must reach everyone; the bridge must come back to control after any update.

`PROJECT.json` lists each of these at its line under "hazards", with the
properties that watch it.

## Modules

    ControlPolicy ── ConfigRules ── RseControl ── MCRseControl
         │                │             └──────── RseUpdate ── MCRseUpdate
         │                │                           └─────── RseControlProofs
         │                └──────── Commissioning ── MCCommissioning
         │                                └───────── CommissioningProofs
         ├── ConfigStore ── MCConfigStore
         │        │  └───────── ConfigStoreProofs
         │        └ implements AtomicConfig
         └── ControlPolicyCompileTests (with Display)
    ModbusRtuMaster ── PlexLogGateway ── MCPlexLogGateway
                              └───────── PlexLogGatewayProofs
    Ota ── MCOta
     └──── OtaProofs
    Millis ── RollbackGesture ── PanelProofs (with Display)
    EventLog ── EventLogProofs
    OtaSchedule ── OtaScheduleProofs
    MCDevice = RollbackGesture, EventLog, OtaSchedule, ControlPolicyCompileTests

The modules meet at interfaces that one of them models in full and the other as
an answer that is free to be anything the first allows: `save()` is all of
ConfigStore, and in Commissioning it succeeds or fails; a verified write is all
of PlexLogGateway's stages between `write` and `slot1`, and in RseControl one
step with its possible outcomes; the OTA gate is evaluated in RseControl,
holds an update up in RseUpdate, and opens or closes as it pleases in Ota; the
commands that set an inverter up are in Commissioning with every way they end,
for one inverter, and in RseControl with what they do to running control; the
manual rollback is asked for in RollbackGesture and may come at any time of
control in Ota; `service()` decides to check in OtaSchedule, and what a check
does is in Ota.

### ControlPolicy

The pure rules: `DecodeRsePercent` for the four profiles, the TEST comparison,
the OTA condition, `WattsForPercent`, the permission to rate. A mask is the set
of closed contacts; the 16 masks of the firmware are the 16 subsets.
`ControlPolicyCompileTests` states every `static_assert` of the firmware over
these operators, as an assumption that TLC evaluates: a slip in the translation
of a rule, or in a rule, shows there. The asserts over `millis()` are theorems.

### RseControl — the control core

`pc` is the phase of `loop()` (`usb`, `expiry`, `rse`, `poll`) or the stage of
the batch `applyLevel()` (`check`, `feedOff`, `preWrite`, `write`, `feed`,
`gap`, `finish`); a stage ends where the code waits for the bus. What may happen
in a wait is a separate action enabled in all of them: `SampleInputs` is the
idle callback, `ContactsChange` the receiver, `ForeignWrite` another master, the
inverter itself or a forwarded write of PlexLog, `ClockTick` and `TestDeadline`
time. `age` keeps three classes of `millis() - rawChangedAt`: within the
debounce time, debounced, and debounced for two seconds more, which is what the
OTA gate asks for.

`HandleStableRseState` is shared by boot, transition, reapplication, `apply`,
and `ReturnToPhysicalRse`, and each caller passes what it leaves in
`controlReapplyRequired`, because the callers differ there. A power transaction
ends in `match`, `differs` or `fail`; a feed permission in the outcomes of
`FeedPermissionOutcomes`. Every failure is paid from the budget, so that a
behaviour without failures is one of them and liveness speaks of it. The budget
also names the kinds of steps that a behaviour admits, one of the sets of
`Mixes`, fixed from the start: a property that needs the bridge to be the only
writer says so of the state (`SoleWriter`), and so does one that needs a bus
without failures (`ReliableBus`).

Each inverter has its settings in RAM (`setup`) and in flash (`saved`), and the
level a batch writes is read from them at every stage, as `wattsForPercent()`
does. `id`, `max`, `limit`, `rsecfg` and `commit` change them in LIVE
(`UsbSetup`, with the rules of ConfigRules): no register is written, and flags,
health and commanded level stay as they are. A rejected `rsecfg` leaves its first
levels in RAM. A `commit` that validates a rating is four stages of its own
(`commitRead`, `commitWrite`, `commitCheck`, `commitRestore`), each a wait; the
one that is accepted sets the at-target flag whatever the curve says. A command
whose save fails puts back what was there, and is no step here.

`unjudged` is history, no part of the program: the inverters whose settings or
register a command has changed since a batch or a poll compared register and
target. Until it is compared, the code's answer about such an inverter is that of
its old settings, and the properties about truth except it and no other.

`lastReadback` and the other values that only the display reads are left out.

### RseUpdate — control while the firmware is replaced

`update` leads from `none` over `download` and `activate` to the restart and the
`trial` of the new image. An update begins in the phase `usb`, where the end of
an iteration and the command `ota update` meet; while it runs, `loop()` waits, so
that of RseControl's steps only the clock, the contacts and other masters go on
(`Meanwhile`). The gate is asked at the start and for the last time before the
image is activated; at the blocks in between it may close at any time. In the
trial nothing is sampled or written.

### Commissioning and ConfigRules — setting up one inverter

`ConfigRules` is `InverterConfig` with `sanitize()`, the derived curve, the
migrations of older schemas and what each USB command makes of the settings, as
functions. `Commissioning` has one action for each way a command ends, and five
stages of `commit`: deferred or started, read, write, check, restored. The
contacts are the level they decode to, before (`physical`) and after (`stable`)
debouncing: the commit looks at the former and the batches follow the latter.
The inverter clamps writes to its nameplate.

### ConfigStore and AtomicConfig — two slots, one value

`ConfigStore` has two record slots with schema and generation, `load()` with
every migration, `save()` in its steps (open, compare, put, verify), the callers
that put the previous settings back, `reset` (an erasure in one step), and
upgrades and rollbacks between a firmware of schema 4 and one of schema 5. Power
may fail at every step and a record may be torn. `AtomicConfig` is what the
operator is promised: one value that a save replaces or does not; `SaveIsAtomic`
is the refinement. The generation is counted modulo `Modulus` (2^32 in the
code), so that it wraps.

The firmware of schema 4 is not in the repository. It is modelled as the same
store with the smaller schema.

### Ota — installation, trial, rollback

Two partitions with the states of otadata, the two records in NVS, the settings.
`pc` leads from the bootloader through `setup` and the trial (`window`,
`marked`, `backedup`) to `control`, or through the attempts to go back
(`rollback`, `native`, `reselect`, `reselected`); an installation goes through
`download`, `verified`, `recorded`, `written`, `activated`. A loss of power is
possible at each of them.

Two things about the framework cannot be read off the repository, so that the
model has both: whether the start-up code of the framework marks a new image
valid before `setup()` runs (`early`), and what `esp_ota_get_state` therefore
shows. The history variables say what properties are about: `proven` images
passed a trial or were flashed over USB; `rejected` ones the operator left;
`unguarded` is set when an image boots for which nothing can be promised,
because its record cannot be opened at boot, there is no image to go back to,
or the image gone back to was itself never confirmed.

The network, signatures, the schedule's clock and the safety gate are answers of
the environment. A manifest may offer any image at any time.

### ModbusRtuMaster and PlexLogGateway — one bus, three users

`ModbusRtuMaster` is a transaction and its wait. An answer may be lost or come
after its wait; `transmit()` empties the receive buffer, so a late answer only
matters if it comes into the *next* wait (`late`), where it is accepted if slave
and function fit, and for a read also the length. An inverter may acknowledge a
write and take the value over later (`committing`).

`PlexLogGateway` is the queue, the cache with its replacement and its two
lifetimes, forwarding from `loop()`, the idle callback (`IdleReplies`,
`IdleQueues`, `Reject`), the batch stage by stage with its two slots per
inverter, the poll, and `plexlog on|off`. A request is `Limit` (the register
alone), `Block` (a longer read that contains it) or `WriteLimit`. Time is counted
in ticks about as long as the queue age (350 ms). In a wait the callback runs
every millisecond, so that no tick passes before a request is looked at. In
`loop()` ticks pass with a request in the UART too: an update check, the wait for
the network time and a download hold it up for many seconds, and nobody serves
the gateway. Such a request is as old as its collection, not as its bytes; a
second one behind it makes one frame of the two, which the checksum refuses.
`unserved` (history) holds from such a tick until a request of PlexLog finds
nothing left of the backlog. The reads and writes of the feed
permission are one wait. Frames arrive whole.

### RollbackGesture and Millis — two buttons, five seconds

`Millis` is the clock: a word that wraps, with the two comparisons of
`ControlPolicy.h`. `RollbackGesture` is one iteration of `loop()` after the
other: `Look` at the buttons (four cases), then the request and its answer, boot
validation, or `Work`, which is everything else and may take up to `MaxBlock`
ticks; an update check may begin and end in it, by hand or by schedule. Fingers
press and release at any time; they stay on a button for `PressTime`. `hold`,
`notice`, `trial` and `stageAt` are moments of the clock that wraps.

The history variables know true time and what the firmware cannot: `seenFor`, how
long every look has found A and C without B; `stale`, whether B was seen or a
request made since all buttons were seen released; `touched`, whether B was
pressed, seen or not; ages of notice, trial and end of an update. They are
counted up to the time that matters, so that nothing bounds a behaviour.

### OtaSchedule — one window a day

The clock is a real date with a minute of the day in coarse units; the day number
of the calendar is computed as the code does. `service()` is five cases (`Off`,
`Closed`, `Waits`, `AttemptFails`, `AttemptSucceeds`), evaluated at least once
in each unit. An attempt succeeds when there is no update (`UpToDate`) or when it
restarts into one (`Installs`), with the settings as they are stored and the
clock evaluated anew. `lastScheduledDay` and `failures` are in RAM, `noted` is
what NVS holds of them: `SaveDiagnostics` may write both, one or none, since
`saveDiagnostics()` returns nothing, and a restart loads what was written.
The operator switches automatic updates, sets times, saves and clears Wi-Fi,
checks by hand, resets, and updates by hand: `UpdateByHand` notes the window of
the last attempt that is still in RAM (`currentWindowDay`), as
`installUpdate()` does. Each save to NVS may fail; the clock is lost, is set
again, and jumps by an hour. What is left of a back-off counts down.

The history variables count in days that have begun (`today`), not in dates:
`doneOn` is the window that was answered last; `forgotten` says that this window
was answered, its note was not written, and a restart in it loaded the old one.
That the day number that the
code notes and these days go together is a theorem, not a definition.

### EventLog — a log on a card that fails

`append()` call by call: open, remove, rename, create, reopen, write; each call
fails or power is lost at the price of a fault. A record is its number, and
`written` is all that the card has taken.

### Display — pages, tiles, light

A frame draws the rollback screen, an update or the tiles. The layout is computed
in pixels for every set of inverters; size and watts of a tile move with the
frames, in integers as in the code; faults and the status light follow the
control state, which changes in any way between frames.

## Runs

All runs check for deadlock. Counts are distinct states.

| Run | States | Question and answer |
|---|---|---|
| RseSafety | 3.3 M | disturbances in any order over two inverters, of one of four mixes: three of contacts, bus failures, TEST, `apply`, SAFE, profiles and reboots; four of contacts, bus failures and TEST; four of contacts, other masters, `id`, `probe`, `scan` and the wrap of `millis()`; or three of contacts, bus failures, reboots, `id`, `max`, `limit`, `rsecfg` and `commit`. TEST never relaxes, the commanded level is the input's, TEST hands back to the contacts; where the bridge is the only writer a healthy output is true and so is the OTA gate once nothing is pending, of every inverter compared since it was set up |
| RseConvergence | 982 k | three disturbances of one of four mixes, with updates of the firmware among them: the newest level reaches every controlled inverter in the end (TEST, updates, reboots, wrap); a lasting deviation is in the end shown as unhealthy (failures, other masters, `id`, `probe`, EWE hold-last, inverters set up anew); no inverter compared since it was set up leaves full power between the gate of an update and its restart |
| StoreAtomic | 384 k | two losses of power or storage faults anywhere, from the records of every schema: the slots are an atomic value (refinement), and an automatic rollback finds the old configuration |
| CommissionSafety | 2.3 M | all commissioning commands with contact changes in each wait and two faults: a verified rating has a ceiling its curve respects; a commit ends rated, restored, or says that it could not restore |
| OtaSafety | 1.7 M | installations, trials, rollbacks, USB flashes, one fault of each kind and one more loss of power: what boots is proven or on trial, control is proven, one trial per installation, a rejected version stays out, control comes back |
| PlexLogSafety | 5.1 M | three requests of PlexLog, or two and a failure, at any time against a batch over two inverters, a poll or `plexlog on/off`, with failures that are a lost, late or refused transaction and a `loop()` held up at any time: no late answer but from the backlog of that, no answer older than what control published, one transaction at a time, verified means it was in the register |
| DeviceSafety | 1.9 M | four parts that share no state, one of which moves in a behaviour. Gesture: a rollback is asked for only after a whole hold without B, B cancels it, who holds on is answered, and every timer is true across the wrap. Log: a failing rotation loses nothing newer and excuses each record beyond the capacity. Display: the tiles fit, and come to show the state. Schedule: each window is used, with one result unless its note was not written and lost in a restart, and the settings of the next boot are those in use. The compile-time tests of the firmware hold of the models |
| RseHoldMixed | violation | under EWE hold-last an aborted batch leaves mixed outputs for ever |
| StoreRollback | violation | two saves after an upgrade, and a manual rollback loads factory defaults |
| CommissionCeiling | violation | a lost write makes the old register value the verified ceiling |
| CommissionBounce | violation | a bounce of the contacts lets a commit raise an inverter while 30 % is in force |
| CommissionMigration | violation | a pending inverter of an older schema is put in control with a curve of zeros |

Each violation contradicts a sentence of the repository that "findings" quotes.
Mutants of mapped definitions, marked in the modules, break each property of the
passing runs: they are defects that the properties would catch.

### Bounds

- **Disturbances** (`MaxDisturbances` with `Mixes`, `MaxFaults`, `Scenarios`,
  `MaxUses`, `MaxRequests`, `Changes`, `MaxEvents`) bound only the environment.
  Time, samples, phases, batches and boots of the firmware are not bounded. Four
  disturbances are enough for: TEST, a change that aborts it, a change back, a
  failure; three for: a command that sets an inverter up, a change or failure in
  the batch or commit that follows, a second command. The operator enters one
  rating and two curves, of which one does not fit the second inverter. OTA has
  one fault of each kind together with a loss of power, and in that scenario for
  power, two losses.
- **Two inverters** distinguish done, current and still to come only with two
  positions of `cur`; with the batch stages between them both "aborted before
  the second" and "inside the second" occur. Their curves differ (one capped by
  its ceiling and without feed permission at 0 %, one not), so that a mix of
  levels shows in either register. The proofs hold for any number.
- **Profiles**: two that do not hold, and both in the mix that changes them; the
  other mixes of RseSafety have the strict one only.
- **Three contact patterns**: full release, full reduction, no contact, which is
  an alarm, a hold or 100 % by profile. Levels in between only repeat the
  comparison.
- **Modulus 4**, the smallest in which "newer by one" and "older by one" differ
  and the counter wraps in a few saves.
- **A nameplate of 6 W behind a register of 8 W**, with ratings on both sides of
  each.
- **Three versions** (delivered, good, bad) over two partitions, and two days.
- **A queue of two, a cache of two** with three kinds of requests over two
  inverters, so that both overflow, three requests, or two and a failure; ages
  and lifetimes of one and two ticks, so that entries expire between the stages
  of a batch; two attempts of a write.
- **A clock of 8 ticks** (`Word`) with times of one to three and iterations of up
  to two: holds and deadlines start at every position of the wrap, and an
  iteration is shorter or longer than a press. The proofs hold for any word that
  leaves room for the times (`GestureAssumption`), as 2^32 does.
- **Days of 24 units with windows of four**, schedules whose window opens at
  midnight, lies in the day or crosses midnight, back-offs of one to 96 units,
  shorter and longer than a window; three days at the end of a leap year's
  February and of a century (every other date by `DayAfterIsNext`). A clock
  shift of a whole window can close one or open it again.
- **A log of two records of capacity**, six records, two faults: several
  rotations, of which some fail. The proofs hold for any.
- **Six tiles** in seven sets and two changes, and readings on both sides of the
  distance at which the animation changes its step.

### Fairness

- RseControl: weak fairness of `Loop` (`loop()` is called for ever and each wait
  in it has a timeout), of sampling, of the clock and of the TEST deadline;
  strong fairness of `PollNext`, because the poll's slot comes due again and
  again and the upstream bus is quiet at some of those times. A logger that
  never pauses for 120 ms would starve the poll; the property does not speak of
  it. Nothing is assumed of the contacts, the operator or the inverters.
- RseUpdate (`UpdateFairness`): the same while no update runs, the clock always,
  and weak fairness of the steps of an update: each download has a timeout.
- MCDevice: weak fairness of `loop()` and of the tick for the gesture, so that an
  iteration ends and time passes, and of frames for the display. None for the
  schedule or the log.
- Ota: weak fairness of the firmware's own steps in start-up, installation and
  rollback, whose waits are bounded. Nothing is assumed of the operator, the
  network or time.
- The other modules state safety only and assume none.

### What the runs leave out on purpose

- `SaveIsAtomic` is checked without a failing verification read (`readback`)
  and without a namespace that cannot be opened at boot (`mount`). Both break
  it; see below.
- `HealthyIsTruthful`, `SettledOtaGateIsTruthful` and `FullPowerThroughUpdate`
  speak of states in which the bridge is the only writer (`SoleWriter`). With
  foreign writes, what remains is that a deviation is noticed in the end
  (`DeviationIsReported`). `NewestLevelReachesAll` speaks of a bus without
  failures and of settings that stay as they are (`ReliableBus`): a bus that fails
  for ever cannot be written, and new settings wait for the next transition.
- The same three except an inverter that a USB command has set up anew
  (`unjudged`) until the next batch or poll compares it. Until then they are false
  of it, and so is the code's answer; see below. TLC violates each of them
  without the exception. A deviation made this way is noticed in the end, which
  `DeviationIsReported` says without exception.
- `NeverALateReply` excuses the backlog that a held-up `loop()` finds
  (`unserved`), and `WindowIsUsedOnce` a window whose note was not written and was
  lost in a restart (`forgotten`); both go wrong in the code; see below.
- `RejectedStaysOut` follows an image only once automatic updates could be
  switched off, and `ControlIsProven` excuses an image that could not be marked
  valid (`unguarded`); what the code does then is listed below.
- `FullPowerThroughUpdate` excuses a pending reapplication, because `ota update`
  can begin before it is done; see below.
- `HoldIsAnswered` speaks of a device on which no trial and no update keeps
  coming: these refuse the gesture. `EveryWindowIsUsed` speaks of windows that
  find the clock valid, the network there and the gate open.
- `RepliesAreCurrent` excuses a behaviour in which a late answer has been taken
  for another one (`crossed`), which Modbus RTU does not let the code see.

## Proofs

TLC checks small instances. TLAPS proves these for every number of inverters,
every curve and ceiling, every set of patterns, profiles, releases and requests,
every size of queue and cache, every date, every width of the clock and every
time that it leaves room for, and any number of disturbances and faults. Every
property of a passing run that is not a liveness property is a theorem:

| Module | Theorem | Says |
|---|---|---|
| RseControlProofs | `TypeInvariant` | every reachable state is well typed; a running batch always has a level |
| | `TestNeverRelaxesAlways` | a live TEST never commands more than the debounced input |
| | `ActiveIsPhysicalAlways` | outside TEST the commanded level is the input's, in every profile that does not hold |
| | `HealthyIsTruthfulAlways` | a healthy output is true, of every inverter compared since it was set up |
| | `SettledOtaGateIsTruthfulAlways` | the OTA gate opens only with every enabled inverter at 100 % that was compared since it was set up, once nothing is pending |
| | `TestEndsInPhysicalControlAlways` | every end of TEST hands back to the contacts |
| | `FullPowerThroughUpdateAlways` | no inverter compared since it was set up leaves full power between the gate of an update and the restart |
| | `ControlStaysTruthfulThroughUpdates` | TEST never relaxes and a healthy output is true, in the same sense, with updates, trials and restarts among the steps |
| CommissioningProofs | `TypeInvariant` | every reachable state is well typed |
| | `CurveWithinCeilingAlways` | no verified rating with a curve above its ceiling, in RAM or flash |
| | `CommitEndsRatedOrRestoredAlways` | every commit ends in one of its promised ways |
| OtaProofs | `OtaTypeOKAlways` | every reachable state is well typed |
| | `RestartIsSafeAlways` | the next boot takes a whole image, proven or on trial, wherever power fails |
| | `ControlIsProvenAlways` | only a proven image controls inverters, unless a fault took away its record, its way back or its confirmation |
| | `ManualRollbackIsProvenAlways` | a manual rollback selects a proven image |
| | `OneTrialAlways` | one trial for one installation |
| | `RejectedStaysOutAlways` | a rejected image is not installed unattended |
| | `OneInstallPerWindowAlways` | a window activates at most one image unattended |
| PlexLogGatewayProofs | `GatewayTypeOKAlways` | every reachable state is well typed; no request has two places in the queue or the cache |
| | `OneTransactionAtATimeAlways` | nothing starts a transaction while one is in flight |
| | `NeverALateReplyAlways` | no answer reaches PlexLog after it gave the request up, but from the backlog of a held-up `loop()` |
| | `RepliesAreCurrentAlways` | PlexLog is told nothing older than what control published, unless a late answer was taken for another |
| | `VerifiedWasHeldAlways` | a limit reported as verified was in the register |
| ConfigStoreProofs | `StoreTypeOKAlways` | every reachable state is well typed |
| | `AutomaticRollbackKeepsConfigAlways` | an automatic rollback finds the old configuration, for every fault |
| | `SaveIsAtomicAlways` | the store implements `AtomicConfig`, if no read-back and no opening at boot fails (`NoSilentFaults`) |
| OtaScheduleProofs | `WindowIsUsedOnceAlways` | a window has one answer, unless a restart in it forgot a note that was not written, and a bounded number of attempts |
| | `EveryWindowIsUsedAlways` | a window that finds the bridge ready is used at once |
| | `AnsweredIsStoredAlways` | while updates are automatic, what the operator was told is what is stored |
| | `DayAfterIsNext` | the calendar day number grows by one from every date to the next |
| PanelProofs | `ElapsedIsExact`, `DeadlineIsExact` | the two comparisons over a word that wraps say what is true of unbounded time, as far as their word reaches |
| | `TypeInvariant` | every reachable state is well typed |
| | `TimersAreTrueAlways` | hold, notice, trial and end of an update are neither early nor late |
| | `RollbackIsDeliberateAlways` | no request without a whole hold that every look saw |
| | `PressOfBCancelsAlways` | no request after B was pressed, if `loop()` comes round within a press |
| | `TilesFitAlways` | the tiles of any set of up to six inverters lie apart, between header and footer |
| | `WattsComeNearer` | each frame brings the watts nearer to their target and never beyond |
| EventLogProofs | `LogIsWellTyped` | a log in use has a file to append to |
| | `KeepsLatestAlways` | the two files hold the newest records that the card took, without a gap |
| | `GrowthIsExcusedAlways` | the log outgrows its capacity by at most a record for each failure |

**Assumptions.** Constants have the types that named assumptions give
(`NAssumption`, `SetAssumption`, `RulesAssumption`, `CommissioningAssumption`),
and what is found in flash has been sanitized (`SettingsAssumption`,
`LoadAssumption`, since every load ends with `sanitize()`). `HealthyIsTruthful`,
the OTA gate, full power in an update and the end of TEST need that no profile
of the installation holds the last level (`NoHold`), and the first three speak
of the states of a sole writer (`SoleWriter`: no foreign writes) and of the
inverters that were compared since they were set up (not in `unjudged`). Without
these they are false, and that is known of the code: `id on` takes an inverter
into control without applying the level, and `rsecfg` gives the level other
watts. `WordAssumption` and `GestureAssumption` say that times and iterations
fit into half a turn of the clock, as 60 s of watchdog and at most minutes of
deadlines do into 49.7 days; `LogAssumption`, `OtaAssumption` and
`BusAssumption` give types. `CompileTests` and `TruthTables` are not assumptions
of a proof: they are checked by TLC.

- `StoreAssumption`: the generation wraps at an even number of at least four
  (2^32 in the code); a firmware is one of schema 4 or 5.
- `GatewayAssumption`: the queue holds one to eight requests, and what control
  publishes stays in the cache at least as long as an answer to PlexLog (20 s
  and 10 s).
- `PatienceAssumption` is about PlexLog's own timeout, of which the repository
  says nothing: it must exceed the queue age and the forward timeout together
  (350 ms + 450 ms).
- `ScheduleAssumption`: the clock shifts by at least the length of the window
  (an hour both), and both fit into a day; the first pause is the shortest and
  divides the window (15 of 60 minutes).
- `StartsAssumption`: a behaviour starts at a date of the calendar.
- `DisplayAssumption`: there are at most six inverters (`INVERTER_COUNT`).
- `NoSilentFaults` is a hypothesis of `SaveIsAtomicAlways` alone. With either
  fault TLC finds `SaveIsAtomic` violated; the two behaviours are listed below.

**RseControl.** `TestNeverRelaxes` and `ActiveIsPhysical` are inductive together
(`CommandInv`), with the remark that no TEST runs at boot: every step that
changes the input, the profile or SAFE also ends TEST or was allowed by a
comparison, and every entry into control commands the level of the mask it was
entered with (`HandleCommand`).

`HealthyIsTruthful` is not inductive: it speaks of the phases of `loop()`, and
flags are made in the middle of a batch. `FlagInv` follows the batch.
`BatchFlags` says that the flag of every inverter that the batch is done with
is right for *this* level, and that `allOk` means that all of them are set;
`BatchResults` says what the locals of the current inverter claim about its
registers, stage by stage; `LoopFlags` is what is left after a batch that was
not superseded. A superseded one makes no claim, and this is why the invariant is
silent while `controlReapplyRequired` is set. A batch reads the settings at each
stage, and no command runs in one, so that they stay as they were at its start;
between batches a command takes its inverter out of every claim (`unjudged`), and
the batch or the poll that compares it brings it back in. A commit runs outside
batches and disturbs the claims of its own inverter only, which it has taken out
with its first write. The OTA gate follows from
`LoopFlags` and `CommandInv`: the contacts decode to 100 % and are debounced, so
that 100 % is the commanded level.

**RseUpdate.** Every step of an update is a step of the control core, a restart,
or leaves the control core alone but for the budget, so that its invariants go
through (`CoreStep`, `BeginStep`, `MeanwhileStep`, `RestartStep`). Full power is
established where the gate is asked (`GateIsTruthful`) and kept because nobody
writes while `loop()` waits.

**Commissioning.** The inductive invariant `IInv` adds to the types that both
configurations are `Sound`, that the register holds a writable value, and what
a commit's locals mean in each stage (`Locals`): the value to be restored is
one that the inverter accepts, and a confirmed candidate was read back.
`SanitizeSound`, that `sanitize()` makes any configuration sound, is the lemma all
commands rest on.

**RollbackGesture.** `IInv` ties each moment of the clock to its true age.
`HoldInv` and `Due` say more than the properties: at the last look a hold was not
yet old enough and a deadline still ahead, so that now they have been passed by
no more than the iteration that runs (`lag`), and the difference cannot have come
round. `RequestInv` says that the lock of the gesture is what `stale` remembers;
`CancelInv` that B, pressed in an iteration shorter than a press, is still down at
the next look.

**EventLog.** `StageInv` says what each call has found (a file to be renamed is
full, one is created only where there is none), `NewestInv` is `KeepsLatest` by
index, with lemmas about suffixes that grow and shrink, and `GrowthInv` counts
one failure for each record in a file that should have been rotated.

**Ota.** `Shape` says what each stage may rely on: the running and the selected
image are whole, only the two stages before a restart select another one, and
from `recorded` to `activated` the record is that of the installation
(`InstallShape`). `Guarded` is what holds until something fails for which
nothing can be promised (`unguarded`): an image that is not proven boots only
with a record that leads back (`WayBack`), and that record names a proven one
(`Provenance`, `Recorded`). These are not consequences of the properties and
not inductive one by one: a selection is safe because the record was written
two stages earlier, and the record is right because of who was running then.
`HistoryInv` counts trials and days.

**PlexLogGateway.** `Promise` bounds the wait of PlexLog by what the gateway
holds: a young request in the queue is the one that PlexLog waits for, and
PlexLog has waited no longer than it is old; one that is forwarded was young
when its transaction began. The age limit of the queue, the timeout of a forward
and PlexLog's patience then meet in one inequality. `Promise` is silent while
`unserved` is set; it holds anew when PlexLog asks and nothing it asked before is
in the UART, young in the queue or being forwarded. `Fresh` says that cache and
wire hold only values that were in the register since it was last published,
and `Witnessed` that an answer with the target, in flight or late, came from a
register that held it: a late one is at most one transaction old, and that
transaction was one of the same write.

**ConfigStore.** The refinement maps the two slots to the value that the next
boot would load. `Consistent` says where RAM and flash agree: outside a save the
position in RAM is that of the record in use (`Positioned`); in one, the
settings to be put back are still those in flash until the whole new record is
(`Saving`, `Replaced`). Each step of the store is then a step of `AtomicConfig`
or a stutter (`Simulation`), torn writes and losses of power included: the write
of a whole record is `Persist`, at which value and RAM agree, and every answer
follows from which of them the flash holds. That the next generation is newer
than the present one, for a counter that wraps, is `GenerationLemma`. `Trial` is
the invariant behind `AutomaticRollbackKeepsConfig`: the only save of an image
on trial is that of its migration, into the slot that the older record is not
in.

**OtaSchedule.** `DayAfterIsNext` and `DayBeforeIsLast` are about Gregorian
dates: the day number of the code grows by one over the ends of months, leap
years and centuries. With them, `Linked` holds: the day in RAM and the days that
have begun differ by a constant, over each restart too. `Once` adds that nothing
in RAM can take the day of an answered window back (`UpdateByHand` notes it
again), and that a restart can only if the day did not reach NVS, which is what
`forgotten` records; `Paced` that each attempt took its pause out of the window;
`Served` that no pause outlives the window that it began in. `PositionIs` says
once what `%` does for a time of day.

**Display.** Enabled inverters have consecutive places in their order
(`PlaceIsFree`), and the grid of one to six places fits (`GridFits`).

**Only model-checked:** the liveness properties (`NewestLevelReachesAll`,
`DeviationIsReported`, `ControlComesBack`, `HoldIsAnswered`, `DisplaySettles`),
which need fairness and ENABLED. `WattsComeNearer` is the part of
`DisplaySettles` that is not.

## Behaviours noticed while modelling

The models reach these states, and the code does what they say. The five above
with a run of their own are not repeated.

Control core:

- The OTA gate (main.cpp:960) trusts at-target flags while a reapplication is
  pending. After a batch aborted by a change away from 100 % and back, the flags
  are still those of the batch before, and in that iteration the gate may
  be open with an inverter not at 100 %, against README.md:455-460 of the
  firmware. `SettledOtaGateIsTruthful` is the form that holds.
- Under EWE hold-last, a TEST that ends while a holding mask is present keeps
  the TEST level as command.
- A superseded batch still releases the feed of the inverter it is at
  (main.cpp:731), where RELIABILITY_TEST_PLAN.md:55-56 says that the old batch
  must stop.

- `rsecfg`, `limit`, `max`, `id on` and `commit` of a verified inverter in LIVE
  change what it should have and write nothing. `inverterAtTarget`,
  `outputHealthy` and the OTA gate keep their answer until the next poll of that
  inverter or the next batch (main.cpp:1420, main.cpp:960), and an `ota update`
  in between begins with it below the new 100 %. The poll then shows the
  deviation, and the register stays as it is until the next transition or
  `apply` (README.md:443-446 of the firmware).
- A commit that is accepted marks its inverter as at target, though it has
  written its candidate and not the level of the curve, and looked at no feed
  permission (main.cpp:1630, main.cpp:1653).
- The gate passes in SAFE, where it ignores targets (main.cpp:960), though the
  answer to a refused update says that an update requires LIVE
  (main.cpp:222-226, main.cpp:1456-1459).
- `ota update` over USB can begin while a reapplication is pending; the
  inverters may then stay at mixed levels for the whole download.

Configuration:

- A verification read that fails after the record was written answers ERROR
  and RAM goes back, but the next boot loads the new record (AppConfig.h:664,
  main.cpp:1317).
- A `load()` that cannot open the namespace leaves the position of the store
  at its start values; a later save that answers OK is then not what the next
  boot loads (AppConfig.h:489, main.cpp:1250).
- A rejected `rsecfg` leaves the levels before the failing one in RAM, unsaved
  and in use (main.cpp:1405, README.md:279 of the firmware).
- New firmware removes the single keys of V1.0.4 in its first-boot window. If
  the older firmware could not save them as a record, a rollback loses them.
- After a manual rollback and another upgrade, the record of the newest schema
  wins over one of the older schema that is more recent.

Update:

- An image that cannot be marked valid clears its record on the way to the
  rollback and may go on into control if no rollback succeeds
  (main.cpp:319-346, RELIABILITY_TEST_PLAN.md:45-46).
- When `bridgeboot` cannot be opened at boot, a new image enters control
  without a trial (main.cpp:351, RELIABILITY_TEST_PLAN.md:35-37).
- A loss of power, or a failed clear, between marking an image valid and
  clearing its record takes a validated image back at the next boot.
- If automatic updates cannot be switched off, the manual rollback goes on with
  SAVE_ERROR and the rejected version may return (README.md:327-328 of the
  firmware, comment at main.cpp:229-230). They stay off when the rollback is
  then rejected.
- `saveDiagnostics()` returns nothing: when it cannot open its namespace or write
  the day, a restart in the same window (the one into an update among them)
  loads the old day and uses the window again (OtaManager.cpp:168-185).
- A version that was rolled back automatically is installed again in every
  day's window.
- A `bridgeboot` record left behind by the bootloader's own rollback makes a
  later USB flash of that version roll back at its first boot.
- If the framework does not confirm a new image, one that was gone back to is
  never confirmed, and the next loss of power returns to the other. If it
  does, the branch for an unconfirmed image is never taken, and a candidate that
  crashes before `prepareOtaBootValidation()` restarts for ever.
- `previousSubtype` 0xFF means "none", and the lookup takes it for "any" and
  selects the first partition.

- Every failed download starts its back-off anew at 15 minutes, because the
  check before it counted as a success; and no back-off outlasts its window, so
  that a window has at most four attempts.
- A schedule that is changed on a day already checked skips that day's new
  window.
- Credentials that could not be saved are used until the next boot
  (OtaManager.cpp:249). Wi-Fi that could not be cleared in NVS is back after it,
  and a cleared one leaves the schedule in RAM (OtaManager.cpp:276).

Rollback gesture, log and display:

- Buttons are looked at once per iteration: a press of B, or a release of A or C,
  that begins and ends in a slow one is not seen. README.md:319-320 of the
  firmware says that pressing B cancels; `PressOfBCancels` is the form that
  holds.
- An update check asked over USB, followed by a batch in the same iteration, can
  end and be cleared from the display before the gesture looks, so that a hold
  goes on across it (`hidden`).
- A rollback at boot that finds no image leaves its stage on the display for ever.
  That blocks the gesture, and tiles and status light are no longer drawn.
- The status light keeps its last state while an update or a rollback is shown.
- A rotation whose rename fails has already deleted the older file. If the card
  answers `exists` wrongly at boot, the log is emptied.

Gateway:

- Publishing a verified limit replaces the entry of exactly that read. A cached
  read of a longer range that contains it keeps the old value for up to 20 s;
  the comment at main.cpp:654-656 says that control-related replies never
  retain the pre-transition value. A forwarded write of PlexLog invalidates
  nothing.
- An answer that comes after its timeout is accepted for the next read of the
  same slave and function, and cached under it for 10 s
  (ModbusRtuMaster.cpp:82-90).
- A request that arrives while an update check, the wait for the network time
  or a download holds `loop()` up gets its age when it is collected
  (PlexLogGateway.cpp:239), and is forwarded and answered when PlexLog has given
  it up, where the comment at PlexLogGateway.cpp:275-277 says never to send a
  late response.
- A retry merged into a queued request inherits its age and is dropped with it.
- A forward that fails in the first slot of an inverter leaves it the second
  one, so that two forwards can be tried (main.cpp:721, main.cpp:761), where the
  comment at main.cpp:715-717 allows one.

## Not modelled

- **Windows configurator**: a line-based client of the USB protocol; the USB
  actions of the models accept what it may send.
- **Desktop serial tool**: talks to one inverter without the bridge, one operation
  at a time under a lock; nothing of it runs beside the firmware.
- **Build, release and test tools**: scripts without state of their own.
- Of modelled parts: bytes, checksums and text, on the bus, over USB and in
  manifests; frame reception by the gateway, which is whole or absent; the `reg`,
  `baud`, `modbus` and `time` commands, which change settings of the bus or the
  clock and no control state; counters and diagnostics; Wi-Fi, TLS and signatures,
  which are answers; colours, texts and easing of the display; `tail()` of the
  log, which is not called.

## Plan

Done, in this order, because the control core decides what inverters do and
everything else protects or feeds it:

1. `ControlPolicy`, `RseControl`, and its proofs.
2. `AtomicConfig`, `ConfigStore`: what settings survive.
3. `ConfigRules`, `Commissioning`, and its proofs; the same commands in
   `RseControl`, against running control.
4. `Ota`: what firmware runs.
5. `ModbusRtuMaster`, `PlexLogGateway`: who uses the bus.
6. `RseUpdate`: control while firmware is replaced, and its proofs.
7. `Millis`, `RollbackGesture`, and its proofs: time and the operator.
8. `OtaSchedule`, `EventLog` with its proofs, `Display`,
   `ControlPolicyCompileTests`.
9. Proofs of Ota, PlexLogGateway, ConfigStore (with the refinement),
   OtaSchedule and Display.

Left:

1. Lemmas on which liveness rests without speaking of fairness: that each
   stage of a batch, an installation or a rollback leads on, and by what measure.
2. What each step may never do, for the control core: which steps may change
   the commanded level, and from what.
