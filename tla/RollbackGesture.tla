--------------------------- MODULE RollbackGesture ---------------------------
(***************************************************************************)
(* The manual rollback at the device (main.cpp): hold A and C for five     *)
(* seconds, B released.  loop() looks at the buttons once per iteration,   *)
(* which takes from milliseconds to the many seconds of a batch or of an   *)
(* update check; the firmware knows time only by millis(), which wraps.    *)
(*                                                                         *)
(* The history variables know more: how long the buttons have really been  *)
(* seen held, what was pressed between two looks, and true ages.  Nothing  *)
(* is bounded: ages are kept up to the time that matters.                  *)
(***************************************************************************)
EXTENDS Millis

CONSTANTS
    HoldTime,       \* MANUAL_ROLLBACK_HOLD_MS
    NoticeTime,     \* how long an answer is shown
    StageTime,      \* how long the end of an update is shown
    TrialTime,      \* window of the boot validation
    PressTime,      \* a finger stays on a button at least so long
    MaxBlock        \* bound on the ticks of one iteration of loop()

(* Whatever loop() waits for ends within the 60 s of the watchdog, far     *)
(* below half a turn of millis(), as is every deadline.                    *)
ASSUME GestureAssumption ==
    /\ {HoldTime, NoticeTime, StageTime, TrialTime, PressTime} \subseteq Nat \ {0}
    /\ MaxBlock \in Nat
    /\ HoldTime + MaxBlock < Word /\ StageTime + 2 * MaxBlock < Word
    /\ 2 * NoticeTime <= Word /\ 2 * TrialTime <= Word /\ 4 * MaxBlock <= Word

Button == {"A", "B", "C"}
None == -1          \* no such moment

VARIABLES
    millis,
    pressed,        \* the buttons themselves
    pc,             \* where loop() is
    hold,           \* manualRollbackHoldStartedAt, None unless HoldActive
    blocked,        \* manualRollbackGestureBlocked
    notice,         \* manualRollbackNoticeUntil, None without a notice
    stage,          \* otaDisplayStage: none, a running one, one of the end
    stageAt,        \* otaDisplayUpdatedAt
    trial,          \* otaBootValidationDeadline, None unless pending
    lag,            \* ticks since loop() last looked at the buttons
    seenFor,        \* how long every look has seen A and C, or None
    stale,          \* since all were seen released: B seen, or a request
    checked,        \* an update ran since the looks of seenFor began
    hidden,         \* loop() was busy until its end had been shown
    touched,        \* B was pressed since the hold began
    slow,           \* an iteration since then took longer than a press
    bAge,           \* how long B has been pressed
    noticeAge, trialAge, endAge

clock == <<millis, lag, bAge, noticeAge, trialAge, endAge>>
seen == <<seenFor, stale, checked, touched, slow, hidden>>
screen == <<stage, stageAt>>
vars == <<clock, pressed, pc, hold, blocked, notice, screen, trial, seen>>

Phase == {"look", "request", "validate", "work", "check", "end"}

(* A hold in progress is not locked, and a request ends and locks it. *)
TypeOK ==
    /\ millis \in Moment /\ pressed \subseteq Button /\ pc \in Phase
    /\ hold \in Moment \cup {None} /\ blocked \in BOOLEAN
    /\ notice \in Moment \cup {None}
    /\ stage \in {"", "running", "ended"} /\ stageAt \in Moment
    /\ trial \in Moment \cup {None}
    /\ lag \in 0..MaxBlock
    /\ seenFor \in 0..HoldTime \cup {None}
    /\ stale \in BOOLEAN /\ checked \in BOOLEAN /\ hidden \in BOOLEAN
    /\ touched \in BOOLEAN /\ slow \in BOOLEAN
    /\ bAge \in 0..PressTime
    /\ noticeAge \in 0..NoticeTime /\ trialAge \in 0..TrialTime
    /\ endAge \in 0..(StageTime + 1)
    /\ hold # None => ~blocked
    /\ pc = "request" => blocked

-----------------------------------------------------------------------------
(* Boot. *)

Init ==
    /\ millis = 0 /\ lag = 0 /\ pc = "look"
    /\ pressed = {} /\ bAge = 0
    /\ hold = None /\ blocked = FALSE /\ notice = None /\ noticeAge = 0
    /\ stage = "" /\ stageAt = 0 /\ trial = None /\ trialAge = 0
    /\ seenFor = None /\ stale = FALSE /\ checked = FALSE
    /\ touched = FALSE /\ slow = FALSE /\ hidden = FALSE /\ endAge = 0

(* A reset, into an image on trial or not.  A rollback at boot that finds  *)
(* no image to go back to leaves its stage on the display.                 *)
Restart ==
    /\ millis' = 0 /\ lag' = 0 /\ pc' = "look"
    /\ hold' = None /\ blocked' = FALSE /\ notice' = None /\ noticeAge' = 0
    /\ stage' \in {"", "running"} /\ stageAt' = 0
    /\ trial' \in IF stage' = "" THEN {None, TrialTime} ELSE {None}
    /\ trialAge' = 0
    /\ seenFor' = None /\ stale' = FALSE /\ checked' = FALSE
    /\ touched' = FALSE /\ slow' = FALSE /\ hidden' = FALSE /\ endAge' = 0
    /\ UNCHANGED <<pressed, bAge>>

-----------------------------------------------------------------------------
(* serviceManualRollbackGesture() *)

Busy == trial # None \/ stage # ""
Together == {"A", "C"} \subseteq pressed /\ "B" \notin pressed

(* Mutant: letting go of A or C is enough to unlock. *)
LockedUntilAorC ==
    /\ blocked /\ "B" \notin pressed
    /\ blocked' = ({"A", "C"} \subseteq pressed)
    /\ pc' = "validate" /\ UNCHANGED hold

(* Mutant: the gesture stays locked for ever once a request was made. *)
LockedForEver ==
    /\ blocked /\ "B" \notin pressed
    /\ pc' = "validate" /\ UNCHANGED <<hold, blocked>>

Locked ==
    /\ blocked /\ "B" \notin pressed
    /\ blocked' = (pressed # {})
    /\ pc' = "validate" /\ UNCHANGED hold

(* Mutant: B is only a button that does not count. *)
BIgnored ==
    /\ "B" \in pressed
    /\ UNCHANGED <<hold, blocked>> /\ pc' = "validate"

BLocks ==
    /\ "B" \in pressed
    /\ hold' = None /\ blocked' = TRUE /\ pc' = "validate"

NoHold ==
    /\ ~blocked /\ "B" \notin pressed
    /\ Busy \/ ~Together
    /\ hold' = None /\ pc' = "validate" /\ UNCHANGED blocked

HoldBegins ==
    /\ ~blocked /\ ~Busy /\ Together /\ hold = None
    /\ hold' = millis /\ pc' = "validate" /\ UNCHANGED blocked

(* Mutant: the request does not lock the gesture.                          *)
HoldGrowsUnlocked ==
    /\ ~blocked /\ ~Busy /\ Together /\ hold # None
    /\ IF ElapsedAtLeast(millis, hold, HoldTime)
       THEN hold' = None /\ pc' = "request" ELSE UNCHANGED hold /\ pc' = "validate"
    /\ UNCHANGED blocked

HoldGrows ==
    /\ ~blocked /\ ~Busy /\ Together /\ hold # None
    /\ IF ElapsedAtLeast(millis, hold, HoldTime)
       THEN hold' = None /\ blocked' = TRUE /\ pc' = "request"
       ELSE UNCHANGED <<hold, blocked>> /\ pc' = "validate"

(* What this look adds to the history. *)
Notes ==
    LET good == Together /\ ~Busy
        begins == good /\ seenFor = None
    IN  /\ seenFor' = IF ~good THEN None ELSE IF begins THEN 0 ELSE seenFor
        /\ checked' = (checked /\ good /\ ~begins)
        /\ touched' = (touched /\ hold' # None)
        /\ slow' = (slow /\ hold' # None)
        /\ hidden' = (hidden /\ good /\ ~begins)
        /\ stale' = (\/ "B" \in pressed \/ pc' = "request"
                     \/ stale /\ pressed # {})

Look ==
    /\ pc = "look"
    /\ BLocks \/ Locked \/ NoHold \/ HoldBegins \/ HoldGrows
    /\ IF notice # None /\ DeadlineReached(millis, notice)
       THEN notice' = None /\ noticeAge' = 0
       ELSE UNCHANGED <<notice, noticeAge>>
    /\ Notes
    /\ lag' = 0
    /\ UNCHANGED <<millis, bAge, trialAge, endAge, pressed, screen, trial>>

(* performManualRollback(): no backup, not safe, or not bootable. *)
Refuse ==
    /\ pc = "request"
    /\ notice' = Later(millis, NoticeTime) /\ noticeAge' = 0
    /\ pc' = "validate"
    /\ UNCHANGED <<millis, lag, bAge, trialAge, endAge, pressed, hold,
                   blocked, screen, trial, seen>>

Revert == pc = "request" /\ Restart

-----------------------------------------------------------------------------
(* The rest of loop(). *)

TrialIsOver == trial # None /\ DeadlineReached(millis, trial)

(* serviceOtaBootValidation(): valid, or gone back from, or nothing to go  *)
(* back to; without control, loop() returns.                               *)
Validate ==
    /\ pc = "validate" /\ TrialIsOver
    /\ \/ /\ trial' = None /\ trialAge' = 0 /\ pc' = "look"
          /\ \/ UNCHANGED screen
             \/ stage' = "running" /\ stageAt' = millis
          /\ UNCHANGED <<millis, lag, bAge, noticeAge, endAge, pressed, hold,
                         blocked, notice, seen>>
       \/ Restart

ValidateNot ==
    /\ pc = "validate" /\ ~TrialIsOver
    /\ pc' = IF trial # None THEN "look" ELSE "work"
    /\ UNCHANGED <<clock, pressed, hold, blocked, notice, screen, trial, seen>>

(* USB commands, batches, polls. *)
Work ==
    /\ pc = "work" /\ pc' = "end"
    /\ UNCHANGED <<clock, pressed, hold, blocked, notice, screen, trial, seen>>

(* checkForUpdate() or installUpdate(): every way out names its end. *)
CheckBegins ==
    /\ pc = "work" /\ pc' = "check"
    /\ stage' = "running" /\ stageAt' = millis
    /\ checked' = TRUE
    /\ UNCHANGED <<clock, pressed, hold, blocked, notice, trial, seenFor,
                   stale, touched, slow, hidden>>

CheckEnds ==
    /\ pc = "check" /\ pc' = "end"
    /\ stage' = "ended" /\ stageAt' = millis /\ endAge' = 0
    /\ UNCHANGED <<millis, lag, bAge, noticeAge, trialAge, pressed, hold, blocked, notice, trial, seen>>

Installed == pc = "check" /\ Restart

ShownLongEnough == stage = "ended" /\ Elapsed(millis, stageAt) > StageTime

End ==
    /\ pc = "end" /\ pc' = "look"
    /\ stage' = IF ShownLongEnough THEN "" ELSE stage
    /\ hidden' = (hidden \/ (checked /\ stage = "ended" /\ endAge > StageTime))
    /\ UNCHANGED <<clock, pressed, hold, blocked, notice, stageAt, trial,
                   seenFor, stale, checked, touched, slow>>

Loop == \/ Look \/ Refuse \/ Revert \/ Validate \/ ValidateNot
        \/ Work \/ CheckBegins \/ CheckEnds \/ Installed \/ End

-----------------------------------------------------------------------------
(* Environment. *)

UpTo(bound, age) == IF age < bound THEN age + 1 ELSE age

Tick ==
    /\ lag < MaxBlock
    /\ millis' = Later(millis, 1) /\ lag' = lag + 1
    /\ bAge' = IF "B" \in pressed THEN UpTo(PressTime, bAge) ELSE 0
    /\ noticeAge' = IF notice # None THEN UpTo(NoticeTime, noticeAge) ELSE 0
    /\ trialAge' = IF trial # None THEN UpTo(TrialTime, trialAge) ELSE 0
    /\ endAge' = IF stage = "ended" THEN UpTo(StageTime + 1, endAge) ELSE 0
    /\ seenFor' = IF seenFor # None THEN UpTo(HoldTime, seenFor) ELSE None
    /\ slow' = (slow \/ (hold # None /\ lag' >= PressTime))
    /\ UNCHANGED <<pressed, pc, hold, blocked, notice, screen, trial, stale,
                   checked, touched, hidden>>

Press(button) ==
    /\ button \notin pressed
    /\ pressed' = pressed \cup {button}
    /\ touched' = (touched \/ (button = "B" /\ hold # None))
    /\ UNCHANGED <<clock, pc, hold, blocked, notice, screen, trial, seenFor,
                   stale, checked, slow, hidden>>

Release(button) ==
    /\ button \in pressed
    /\ button = "B" => bAge = PressTime
    /\ pressed' = pressed \ {button}
    /\ bAge' = IF button = "B" THEN 0 ELSE bAge
    /\ UNCHANGED <<millis, lag, noticeAge, trialAge, endAge, pc, hold, blocked,
                   notice, screen, trial, seen>>

Fingers == \E button \in Button : Press(button) \/ Release(button)

Next == Loop \/ Tick \/ Fingers

(* loop() goes on and time passes. *)
Spec == Init /\ [][Next]_vars /\ WF_vars(Loop) /\ WF_vars(Tick)

-----------------------------------------------------------------------------
(* Properties. *)

Requested == pc = "look" /\ pc' = "request"

(* A rollback is asked for only when every look for the last five seconds  *)
(* of true time saw A and C without B and no update on the display, and    *)
(* since all buttons were last seen released neither B was seen nor        *)
(* another request made.  An update that ran between two looks ends the    *)
(* hold, unless loop() was busy until its end had been shown.              *)
RollbackIsDeliberate ==
    [][Requested => /\ seenFor = HoldTime /\ ~stale
                    /\ ~checked \/ hidden]_vars

(* Pressing B at any point cancels, seen or not, as long as loop() comes   *)
(* round within the time of a press.                                       *)
PressOfBCancels ==
    [][Requested => ~touched \/ slow]_vars

(* Across every wrap of millis(), the comparisons of the firmware say what *)
(* is true of the ages: hold, notice, trial and stage end neither early    *)
(* nor late.                                                               *)
TimersAreTrue ==
    /\ hold # None => (ElapsedAtLeast(millis, hold, HoldTime)
                          <=> seenFor = HoldTime)
    /\ notice # None => (DeadlineReached(millis, notice)
                          <=> noticeAge = NoticeTime)
    /\ trial # None => (TrialIsOver <=> trialAge = TrialTime)
    /\ stage = "ended" => (ShownLongEnough <=> endAge > StageTime)

(* Who keeps holding A and C without B is answered, unless a trial or the  *)
(* stage of an update keeps coming: a request is made, or the gesture was  *)
(* locked already.                                                         *)
HoldIsAnswered ==
    <>[](Together /\ ~Busy) => []<>stale
=============================================================================
