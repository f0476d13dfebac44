------------------------------- MODULE Display -------------------------------
(***************************************************************************)
(* The LCD and the status light (updateDisplay() in main.cpp).  A frame    *)
(* draws one of three pages; the tiles and the light move only while their *)
(* page is drawn, and the watts of a tile only once it has room.  Colours, *)
(* texts and the easing of positions are left out: a tile grows from       *)
(* nothing to its size.                                                    *)
(***************************************************************************)
EXTENDS Integers, FiniteSets

CONSTANTS
    TileCount,      \* INVERTER_COUNT
    Configured,     \* sets of inverters that may be enabled at boot
    Readings,       \* register values that polls and batches read
    Permitting,     \* levels at which the inverters may feed in
    Changes         \* bound on what happens around the display

ASSUME DisplayAssumption ==
    /\ TileCount \in 0..6 /\ Configured \subseteq SUBSET (1..TileCount)
    /\ Readings \subseteq Nat /\ Changes \in Nat

Tiles == 1..TileCount
Unread == -1

ErrorStreak == 3    \* HEALTH_FAILURE_THRESHOLD

VARIABLES
    page,           \* rollback screen, OTA stage or tiles
    shownTiles,     \* enabled inverters
    pending,        \* those whose rating is not verified
    reading,        \* lastReadback, or Unread
    streak,         \* inverterFailureStreak
    offTarget,      \* inverters that are not inverterAtTarget
    active,         \* activePercent
    safe,           \* dryRun
    laidOut,        \* tileLayoutInitialized
    size,           \* size of each tile: 0 none, 1 too small, 2 drawn
    shownWatts,     \* displayedInvWatts
    light,          \* status light: "" before the first frame of the tiles
    changes         \* changes that may still happen

control == <<shownTiles, pending, reading, streak, offTarget, active, safe>>
picture == <<laidOut, size, shownWatts, light>>
displayVars == <<page, control, picture, changes>>

-----------------------------------------------------------------------------
(* Rules of ControlPolicy.h. *)

DisplayedWattStep(distance) ==
    IF distance <= 25 THEN distance ELSE distance \div 7

ApproachDisplayedWatts(current, target) ==
    IF current < target THEN current + DisplayedWattStep(target - current)
                        ELSE current - DisplayedWattStep(current - target)

DisplayGridColumns(count) == IF count <= 3 THEN count ELSE IF count = 4 THEN 2 ELSE 3

DisplayGridRows(count) == IF count <= 3 THEN 1 ELSE 2

-----------------------------------------------------------------------------
(* Layout, in pixels of the 240 x 135 display. *)

Gap == 3
GridLeft == 4
GridTop == 21
GridWidth == 240 - 8
GridHeight == 135 - GridTop - 16

(* Mutant: each inverter has the place of its number.                      *)
PlaceByNumber(i) == i - 1

Place(i) == Cardinality({k \in shownTiles : k < i})

TileBox(i) ==
    LET count == Cardinality(shownTiles)
        columns == DisplayGridColumns(count)
        width == (GridWidth - Gap * (columns - 1)) \div columns
        height == (GridHeight - Gap * (DisplayGridRows(count) - 1))
                      \div DisplayGridRows(count)
    IN  [left |-> GridLeft + (Place(i) % columns) * (width + Gap),
         top |-> GridTop + (Place(i) \div columns) * (height + Gap),
         width |-> width, height |-> height]

-----------------------------------------------------------------------------
(* A frame. *)

CommunicationFault(i) == i \notin pending /\ streak[i] >= ErrorStreak
ControlFault(i) ==
    /\ i \notin pending /\ ~safe /\ active >= 0
    /\ i \in offTarget /\ reading[i] # Unread

TileIsOk(i) == i \notin pending /\ reading[i] # Unread /\ streak[i] = 0 /\ ~ControlFault(i)

TargetWatts(i) ==
    IF reading[i] = Unread \/ CommunicationFault(i) THEN 0
    ELSE IF active < 0 \/ active \in Permitting THEN reading[i] ELSE 0

StatusLight ==
    IF active < 0 \/ \E i \in shownTiles : CommunicationFault(i) \/ ControlFault(i)
    THEN "error"
    ELSE IF shownTiles = {} \/ \E i \in shownTiles : ~TileIsOk(i) THEN "warning"
    ELSE "ok"

NextSize(i) ==
    IF i \in shownTiles THEN IF ~laidOut \/ size[i] = 2 THEN 2 ELSE size[i] + 1
    ELSE IF ~laidOut \/ size[i] = 0 THEN 0 ELSE size[i] - 1

(* Mutant: without an enabled inverter the frame ends early.               *)
DrawTilesIfAny ==
    /\ laidOut' = (shownTiles # {})
    /\ IF shownTiles = {}
       THEN UNCHANGED <<size, shownWatts, light>>
       ELSE /\ size' = [i \in Tiles |-> NextSize(i)]
            /\ shownWatts' = [i \in Tiles |->
                  IF i \in shownTiles /\ size'[i] = 2
                  THEN ApproachDisplayedWatts(shownWatts[i], TargetWatts(i))
                  ELSE shownWatts[i]]
            /\ light' = StatusLight

(* Without an enabled inverter the layout starts anew. *)
DrawTiles ==
    /\ laidOut' = (shownTiles # {})
    /\ IF shownTiles = {}
       THEN UNCHANGED <<size, shownWatts>>
       ELSE /\ size' = [i \in Tiles |-> NextSize(i)]
            /\ shownWatts' = [i \in Tiles |->
                  IF i \in shownTiles /\ size'[i] = 2
                  THEN ApproachDisplayedWatts(shownWatts[i], TargetWatts(i))
                  ELSE shownWatts[i]]
    /\ light' = StatusLight

Frame ==
    /\ IF page = "tiles" THEN DrawTiles ELSE UNCHANGED picture
    /\ UNCHANGED <<page, control, changes>>

-----------------------------------------------------------------------------
(* What the rest of the firmware does between two frames. *)

Change == changes > 0 /\ changes' = changes - 1 /\ UNCHANGED picture

TurnPage ==
    /\ Change
    /\ page' \in {"rollback", "ota", "tiles"} \ {page}
    /\ UNCHANGED control

(* updateInverterHealth() and what is known of the target. *)
Answer(i) ==
    /\ Change
    /\ \E value \in Readings : reading' = [reading EXCEPT ![i] = value]
    /\ streak' = [streak EXCEPT ![i] = 0]
    /\ offTarget' \in {offTarget \cup {i}, offTarget \ {i}}
    /\ UNCHANGED <<page, shownTiles, pending, active, safe>>

Miss(i) ==
    /\ Change
    /\ streak' = [streak EXCEPT ![i] = IF @ < ErrorStreak THEN @ + 1 ELSE @]
    /\ UNCHANGED <<page, shownTiles, pending, reading, offTarget, active, safe>>

Command ==
    /\ Change
    /\ active' \in {-1, 0, 100} \ {active}
    /\ UNCHANGED <<page, shownTiles, pending, reading, streak, offTarget, safe>>

Enable(i) ==
    /\ Change
    /\ shownTiles' = (shownTiles \cup {i}) \ (shownTiles \cap {i})
    /\ UNCHANGED <<page, pending, reading, streak, offTarget, active, safe>>

Commit(i) ==
    /\ Change
    /\ i \in pending /\ pending' = pending \ {i}
    /\ UNCHANGED <<page, shownTiles, reading, streak, offTarget, active, safe>>

ToggleSafe ==
    /\ Change
    /\ safe' = ~safe
    /\ UNCHANGED <<page, shownTiles, pending, reading, streak, offTarget, active>>

Surroundings ==
    \/ TurnPage \/ Command \/ ToggleSafe
    \/ \E i \in Tiles : Answer(i) \/ Miss(i) \/ Enable(i) \/ Commit(i)

DisplayInit ==
    /\ page \in {"rollback", "ota", "tiles"}
    /\ shownTiles \in Configured /\ pending \in {{}, shownTiles}
    /\ reading = [i \in Tiles |-> Unread] /\ streak = [i \in Tiles |-> 0]
    /\ offTarget = Tiles /\ active = -1 /\ safe = FALSE
    /\ laidOut = FALSE /\ size = [i \in Tiles |-> 0]
    /\ shownWatts = [i \in Tiles |-> 0] /\ light = ""
    /\ changes = Changes

DisplayNext == Frame \/ Surroundings

(* Frames are drawn for ever: from loop() and from every wait for a bus. *)
DisplaySpec == DisplayInit /\ [][DisplayNext]_displayVars /\ WF_displayVars(Frame)

-----------------------------------------------------------------------------
(* Properties. *)

(* Whatever happened before, once the tiles stay on the display every tile *)
(* comes to show the exact watts of its inverter and the light the state   *)
(* of the output: no animation stops short, and nothing drawn before an    *)
(* update or under another level remains.                                  *)
DisplaySettles ==
    <>[](page = "tiles" =>
            /\ light = StatusLight
            /\ \A i \in shownTiles : shownWatts[i] = TargetWatts(i))

Apart(a, b) ==
    \/ a.left + a.width + Gap <= b.left \/ b.left + b.width + Gap <= a.left
    \/ a.top + a.height + Gap <= b.top \/ b.top + b.height + Gap <= a.top

(* For every set of enabled inverters the tiles lie apart, between header  *)
(* and footer, and each has room for its text.                             *)
TilesFit ==
    \A i \in shownTiles :
        LET box == TileBox(i)
        IN  /\ box.width >= 58 /\ box.height >= 40
            /\ box.left + box.width <= GridLeft + GridWidth
            /\ box.top + box.height <= GridTop + GridHeight
            /\ \A k \in shownTiles \ {i} : Apart(box, TileBox(k))
=============================================================================
