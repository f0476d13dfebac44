---------------------------- MODULE PanelProofs ----------------------------
(***************************************************************************)
(* Theorems about what the operator does and sees at the device: the       *)
(* manual rollback (RollbackGesture.tla), the comparisons of times that    *)
(* its timers are built from (Millis.tla) and the display (Display.tla),   *)
(* for every word, every time, every bound on an iteration of loop() and   *)
(* every set of inverters that the firmware can have.                      *)
(***************************************************************************)
EXTENDS RollbackGesture, Display, FiniteSetTheorems, TLAPS

-----------------------------------------------------------------------------
(* Times in a word that wraps. *)

(* The remainder of a number less than a word out of range. *)
LEMMA OneTurn ==
    ASSUME NEW n \in Int
    PROVE  /\ -Word <= n /\ n < 0 => n % Word = n + Word
           /\ 0 <= n /\ n < Word => n % Word = n
           /\ Word <= n /\ n < 2 * Word => n % Word = n - Word
           /\ n % Word \in Moment
<1>1. ASSUME -Word <= n, n < 0 PROVE n % Word = n + Word
  BY <1>1, WordAssumption, SMTT(20)
<1>2. ASSUME 0 <= n, n < Word PROVE n % Word = n
  BY <1>2, WordAssumption, SMTT(20)
<1>3. ASSUME Word <= n, n < 2 * Word PROVE n % Word = n - Word
  BY <1>3, WordAssumption, SMTT(20)
<1>4. n % Word \in Moment
  BY WordAssumption, SMTT(20) DEF Moment
<1> QED
  BY <1>1, <1>2, <1>3, <1>4, Zenon

(* A tick of the clock is a tick of every elapsed time, up to the wrap. *)
LEMMA ElapsedTicks ==
    ASSUME NEW now \in Moment, NEW since \in Moment
    PROVE  /\ Elapsed(now, since) \in Moment
           /\ Later(now, 1) \in Moment
           /\ Elapsed(now, now) = 0
           /\ Elapsed(now, since) < Word - 1
                  => Elapsed(Later(now, 1), since) = Elapsed(now, since) + 1
           /\ Elapsed(now, since) = Word - 1
                  => Elapsed(Later(now, 1), since) = 0
<1> DEFINE next == IF now < Word - 1 THEN now + 1 ELSE 0
<1>1. Word \in Nat \ {0}
  BY WordAssumption
<1>2. now \in 0..(Word - 1) /\ since \in 0..(Word - 1)
  BY DEF Moment
<1>3. Later(now, 1) = next /\ next \in 0..(Word - 1)
  <2>1. now + 1 \in Int /\ 0 <= now + 1 /\ now + 1 <= Word
    BY <1>1, <1>2
  <2>2. (now + 1) % Word = next
    BY <1>1, <1>2, <2>1, OneTurn
  <2> QED
    BY <1>1, <1>2, <2>2 DEF Later
<1>4. ASSUME NEW m \in 0..(Word - 1)
      PROVE  Elapsed(m, since) = IF m < since THEN m - since + Word ELSE m - since
  <2>1. m - since \in Int /\ -Word <= m - since /\ m - since < Word
    BY <1>1, <1>2
  <2> QED
    BY <1>1, <1>2, <2>1, OneTurn DEF Elapsed
<1>5. Elapsed(now, now) = 0
  <2>1. now - now = 0
    BY <1>2
  <2>2. 0 % Word = 0
    BY <1>1, OneTurn
  <2> QED
    BY <2>1, <2>2 DEF Elapsed
<1>6. Elapsed(next, since) = IF next < since THEN next - since + Word ELSE next - since
  BY <1>3, <1>4
<1>7. Elapsed(now, since) = IF now < since THEN now - since + Word ELSE now - since
  BY <1>2, <1>4
<1>8. Elapsed(now, since) \in Moment
  BY <1>1, <1>2, <1>7 DEF Moment
<1>9. Elapsed(now, since) < Word - 1 => Elapsed(next, since) = Elapsed(now, since) + 1
  BY <1>1, <1>2, <1>6, <1>7
<1>10. Elapsed(now, since) = Word - 1 => Elapsed(next, since) = 0
  BY <1>1, <1>2, <1>6, <1>7
<1>11. Later(now, 1) \in Moment
  BY <1>3 DEF Moment
<1> HIDE DEF next
<1> QED
  BY <1>3, <1>5, <1>8, <1>9, <1>10, <1>11

(* A deadline is set so far ahead that its elapsed time is about to wrap.  *)
LEMMA DeadlineSet ==
    ASSUME NEW now \in Moment, NEW interval \in Nat \ {0}, interval < Word
    PROVE  /\ Later(now, interval) \in Moment
           /\ Elapsed(now, Later(now, interval)) = Word - interval
<1> DEFINE due == IF now + interval < Word THEN now + interval ELSE now + interval - Word
<1>1. Word \in Nat \ {0} /\ now \in 0..(Word - 1)
  BY WordAssumption DEF Moment
<1>2. Later(now, interval) = due
  BY <1>1, OneTurn DEF Later
<1>3. due \in 0..(Word - 1)
  BY <1>1
<1>4. now - due \in Int /\ -Word <= now - due /\ now - due < Word
  BY <1>1
<1>5. (now - due) % Word = IF now - due < 0 THEN now - due + Word ELSE now - due
  BY <1>4, OneTurn, <1>1
<1>6. Elapsed(now, due) = Word - interval
  BY <1>1, <1>5 DEF Elapsed
<1> QED
  BY <1>2, <1>3, <1>6 DEF Moment

(* elapsedAtLeast() is exact for every time below one turn of millis(),    *)
(* wherever in the turn it starts (ControlPolicy.h 130-133 and the         *)
(* assertions about it in ControlPolicyCompileTests.cpp).                  *)
THEOREM ElapsedIsExact ==
    ASSUME NEW start \in Moment, NEW time \in Moment, NEW interval \in Nat
    PROVE  ElapsedAtLeast(Later(start, time), start, interval) <=> time >= interval
<1> DEFINE now == IF start + time < Word THEN start + time ELSE start + time - Word
<1>1. Word \in Nat \ {0} /\ start \in 0..(Word - 1) /\ time \in 0..(Word - 1)
  BY WordAssumption DEF Moment
<1>2. Later(start, time) = now
  BY <1>1, OneTurn DEF Later
<1>3. (now - start) % Word = IF now - start < 0 THEN now - start + Word ELSE now - start
  BY <1>1, OneTurn
<1>4. Elapsed(now, start) = time
  BY <1>1, <1>3 DEF Elapsed
<1> HIDE DEF now
<1> QED
  BY <1>2, <1>4 DEF ElapsedAtLeast

(* deadlineReached() is exact for a deadline at most half a turn ahead,    *)
(* until half a turn after it (ControlPolicy.h 135-139).                   *)
THEOREM DeadlineIsExact ==
    ASSUME NEW start \in Moment, NEW time \in Moment, NEW interval \in Moment,
           2 * interval <= Word, 2 * (time - interval) < Word
    PROVE  DeadlineReached(Later(start, time), Later(start, interval))
              <=> time >= interval
<1> DEFINE now == IF start + time < Word THEN start + time ELSE start + time - Word
           due == IF start + interval < Word THEN start + interval
                                             ELSE start + interval - Word
<1>1. /\ Word \in Nat \ {0} /\ start \in 0..(Word - 1)
      /\ time \in 0..(Word - 1) /\ interval \in 0..(Word - 1)
  BY WordAssumption DEF Moment
<1>2. Later(start, time) = now /\ Later(start, interval) = due
  BY <1>1, OneTurn DEF Later
<1>3. (now - due) % Word = IF now - due < 0 THEN now - due + Word ELSE now - due
  <2>1. now - due \in Int /\ -Word <= now - due /\ now - due < Word
    BY <1>1
  <2> QED
    BY <1>1, <2>1, OneTurn
<1>4. Elapsed(now, due) = IF time < interval THEN time - interval + Word ELSE time - interval
  BY <1>1, <1>3 DEF Elapsed
<1>5. 2 * Elapsed(now, due) < Word <=> time >= interval
  BY <1>1, <1>4
<1> HIDE DEF now, due
<1> QED
  BY <1>2, <1>5 DEF DeadlineReached

-----------------------------------------------------------------------------
(* The inductive invariant. *)

(* A hold is as old as the looks that saw it, and at the last of them it   *)
(* was not yet old enough.                                                 *)
HoldInv ==
    /\ hold # None =>
          LET age == Elapsed(millis, hold)
          IN  /\ age < HoldTime + lag
              /\ seenFor = IF age < HoldTime THEN age ELSE HoldTime
    /\ hold = None /\ ~blocked => seenFor = None

(* A deadline that has passed was still ahead at the last look. *)
Due(deadline, age, time, bound) ==
    IF age < time THEN Elapsed(millis, deadline) = Word - (time - age)
                  ELSE Elapsed(millis, deadline) < bound

NoticeInv == notice # None => Due(notice, noticeAge, NoticeTime, lag)

TrialInv ==
    trial # None =>
        /\ Due(trial, trialAge, TrialTime, IF pc = "look" THEN lag ELSE MaxBlock + lag)
        /\ stage = "" /\ pc \in {"look", "validate"}

StageInv ==
    stage = "ended" =>
        LET age == Elapsed(millis, stageAt)
        IN  /\ age <= StageTime + lag + (IF pc = "look" THEN 0 ELSE MaxBlock)
            /\ endAge = IF age <= StageTime THEN age ELSE StageTime + 1

RequestInv ==
    /\ stale = blocked
    /\ checked /\ stage = "" => hidden

(* B cannot be let go between two looks of an iteration that is not slow. *)
CancelInv ==
    /\ "B" \notin pressed => bAge = 0
    /\ hold = None => ~touched /\ ~slow
    /\ hold # None /\ ~slow =>
          lag < PressTime /\ (touched => "B" \in pressed /\ bAge <= lag)

IInv == /\ TypeOK /\ HoldInv /\ NoticeInv /\ TrialInv
        /\ StageInv /\ RequestInv /\ CancelInv

-----------------------------------------------------------------------------
(* The inductive invariant is one. *)

LEMMA Times ==
    /\ Word \in Nat \ {0} /\ MaxBlock \in Nat
    /\ HoldTime \in Nat \ {0} /\ NoticeTime \in Nat \ {0} /\ StageTime \in Nat \ {0}
    /\ TrialTime \in Nat \ {0} /\ PressTime \in Nat \ {0}
    /\ HoldTime + MaxBlock < Word /\ StageTime + 2 * MaxBlock < Word
    /\ 2 * NoticeTime <= Word /\ 2 * TrialTime <= Word /\ 4 * MaxBlock <= Word
  BY WordAssumption, GestureAssumption

LEMMA Zeros ==
    /\ 0 \in Moment /\ 0 \in 0..MaxBlock /\ 0 \in 0..PressTime
    /\ 0 \in 0..NoticeTime /\ 0 \in 0..TrialTime /\ 0 \in 0..(StageTime + 1)
    /\ 0 \in 0..HoldTime
  BY Times DEF Moment

LEMMA InitInv == Init => IInv
<1> SUFFICES ASSUME Init PROVE IInv
  OBVIOUS
<1>1. TypeOK
  BY Zeros DEF Init, TypeOK, Phase
<1>2. HoldInv /\ NoticeInv /\ TrialInv /\ StageInv /\ RequestInv /\ CancelInv
  BY DEF Init, HoldInv, NoticeInv, TrialInv, StageInv, RequestInv, CancelInv, None
<1> QED
  BY <1>1, <1>2 DEF IInv

(* A reset forgets everything but what the buttons do. *)
LEMMA RestartStep == ASSUME IInv, Restart PROVE IInv'
<1>1. TypeOK'
  <2>1. 0 \in Moment /\ TrialTime \in Moment
    BY Times DEF Moment
  <2>2. UNCHANGED <<pressed, bAge>>
    BY DEF Restart
  <2>3. trial' \in Moment \cup {None} /\ stage' \in {"", "running"}
    BY <2>1 DEF Restart
  <2> QED
    BY <2>2, <2>3, Zeros DEF IInv, TypeOK, Restart, Phase
<1>2. TrialInv'
  <2> SUFFICES ASSUME trial' # None PROVE TrialInv'
    BY DEF TrialInv
  <2>1. /\ trial' = TrialTime /\ stage' = "" /\ pc' = "look"
        /\ millis' = 0 /\ trialAge' = 0
    BY DEF Restart
  <2>2. 0 - TrialTime < 0 /\ -Word <= 0 - TrialTime /\ 0 - TrialTime \in Int
    BY Times
  <2>3. Elapsed(0, TrialTime) = Word - TrialTime
    BY <2>2, Times, OneTurn DEF Elapsed
  <2>4. Elapsed(0, TrialTime) = Word - (TrialTime - 0) /\ 0 < TrialTime
    BY <2>3, Times
  <2> QED
    BY <2>1, <2>4 DEF TrialInv, Due, Elapsed
<1>3. HoldInv' /\ NoticeInv' /\ StageInv' /\ RequestInv' /\ CancelInv'
  BY DEF Restart, IInv, HoldInv, NoticeInv, StageInv, RequestInv, CancelInv, None
<1> QED
  BY <1>1, <1>2, <1>3 DEF IInv

(* A deadline that is looked at is reached as soon as its time is over. *)
LEMMA DueIsTrue ==
    ASSUME NEW deadline \in Moment, NEW time \in Nat \ {0}, NEW age \in 0..time,
           NEW bound \in 0..(2 * MaxBlock), 2 * time <= Word,
           millis \in Moment, Due(deadline, age, time, bound)
    PROVE  DeadlineReached(millis, deadline) <=> age = time
<1>1. Elapsed(millis, deadline) \in Moment
  BY ElapsedTicks
<1>2. CASE age < time
  BY <1>1, <1>2, Times DEF Due, DeadlineReached, Moment
<1>3. CASE age = time
  BY <1>1, <1>3, Times DEF Due, DeadlineReached, Moment
<1> QED
  BY <1>2, <1>3

LEMMA DueTicks ==
    ASSUME NEW deadline \in Moment, NEW time \in Nat \ {0}, NEW age \in 0..time,
           NEW bound \in 0..(2 * MaxBlock), time < Word,
           millis \in Moment, millis' = Later(millis, 1),
           Due(deadline, age, time, bound)
    PROVE  IF UpTo(time, age) < time
           THEN Elapsed(millis', deadline) = Word - (time - UpTo(time, age))
           ELSE Elapsed(millis', deadline) < bound + 1
<1> DEFINE e == Elapsed(millis, deadline)
<1>1. /\ e \in 0..(Word - 1)
      /\ e < Word - 1 => Elapsed(millis', deadline) = e + 1
      /\ e = Word - 1 => Elapsed(millis', deadline) = 0
  BY ElapsedTicks DEF Moment
<1>2. CASE age < time
  <2>1. e = Word - (time - age) /\ UpTo(time, age) = age + 1
    BY <1>2 DEF Due, UpTo
  <2> HIDE DEF e
  <2> QED
    BY <1>1, <1>2, <2>1, Times
<1>3. CASE age = time
  <2>1. e < bound /\ UpTo(time, age) = time
    BY <1>3 DEF Due, UpTo
  <2> HIDE DEF e
  <2> QED
    BY <1>1, <2>1, Times
<1> QED
  BY <1>2, <1>3

LEMMA Types ==
    ASSUME TypeOK
    PROVE  /\ millis \in Moment /\ lag \in 0..MaxBlock /\ stageAt \in Moment
           /\ hold \in Moment \cup {None} /\ notice \in Moment \cup {None}
           /\ trial \in Moment \cup {None}
           /\ seenFor \in 0..HoldTime \cup {None} /\ bAge \in 0..PressTime
           /\ noticeAge \in 0..NoticeTime /\ trialAge \in 0..TrialTime
           /\ endAge \in 0..(StageTime + 1)
  BY DEF TypeOK

(* A look at the buttons. *)
LEMMA LookStep == ASSUME IInv, Look PROVE IInv'
<1> DEFINE good == Together /\ ~Busy
           begins == good /\ seenFor = None
<1>1. /\ TypeOK /\ HoldInv /\ NoticeInv /\ TrialInv /\ StageInv
      /\ RequestInv /\ CancelInv /\ pc = "look"
  BY DEF IInv, Look
<1>2. /\ lag' = 0
      /\ UNCHANGED <<millis, bAge, trialAge, endAge, pressed, stage, stageAt, trial>>
  BY DEF Look, screen
<1>3. /\ seenFor' = IF ~good THEN None ELSE IF begins THEN 0 ELSE seenFor
      /\ checked' = (checked /\ good /\ ~begins)
      /\ hidden' = (hidden /\ good /\ ~begins)
      /\ touched' = (touched /\ hold' # None)
      /\ slow' = (slow /\ hold' # None)
      /\ stale' = ("B" \in pressed \/ pc' = "request" \/ (stale /\ pressed # {}))
  BY DEF Look, Notes
<1>4. BLocks \/ Locked \/ NoHold \/ HoldBegins \/ HoldGrows
  BY DEF Look
<1> HIDE DEF good, begins
<1>a. /\ hold' \in Moment \cup {None} /\ blocked' \in BOOLEAN
      /\ pc' \in {"validate", "request"}
      /\ hold' # None => ~blocked'
      /\ pc' = "request" => blocked' /\ trial = None
      /\ stale' = blocked'
  <2>1. /\ hold \in Moment \cup {None} /\ blocked \in BOOLEAN /\ millis \in Moment
        /\ stale = blocked /\ (hold # None => ~blocked)
    BY <1>1 DEF TypeOK, RequestInv
  <2>2. CASE BLocks
    BY <2>1, <2>2, <1>3 DEF BLocks
  <2>3. CASE Locked
    BY <2>1, <2>3, <1>3 DEF Locked
  <2>4. CASE NoHold
    BY <2>1, <2>4, <1>3 DEF NoHold
  <2>5. CASE HoldBegins
    BY <2>1, <2>5, <1>3 DEF HoldBegins, Together
  <2>6. CASE HoldGrows
    BY <2>1, <2>6, <1>3 DEF HoldGrows, Together, Busy
  <2> QED
    BY <1>4, <2>2, <2>3, <2>4, <2>5, <2>6
<1>b. /\ hold' = None /\ ~blocked' => seenFor' = None
      /\ hold' # None =>
            /\ Together
            /\ \/ hold = None /\ hold' = millis /\ seenFor' = 0
               \/ /\ hold # None /\ hold' = hold /\ seenFor' = seenFor
                  /\ Elapsed(millis, hold) < HoldTime
  <2>1. /\ hold # None => ~blocked
        /\ hold = None /\ ~blocked => seenFor = None
        /\ hold # None => seenFor # None
    <3>1. /\ hold # None => ~blocked
          /\ hold = None /\ ~blocked => seenFor = None
      BY <1>1 DEF TypeOK, HoldInv
    <3>2. ASSUME hold # None PROVE seenFor # None
      <4>1. hold \in Moment /\ millis \in Moment
        BY <1>1, <3>2 DEF TypeOK
      <4>2. Elapsed(millis, hold) \in 0..(Word - 1)
        BY <4>1, ElapsedTicks DEF Moment
      <4>3. seenFor \in Nat
        BY <1>1, <3>2, <4>2, Times DEF HoldInv
      <4> QED
        BY <4>3 DEF None
    <3> QED
      BY <3>1, <3>2
  <2>2. CASE BLocks
    BY <2>2 DEF BLocks
  <2>3. CASE Locked
    BY <2>1, <2>3, <1>3 DEF Locked, Together, good
  <2>4. CASE NoHold
    BY <2>4, <1>3 DEF NoHold, good
  <2>5. CASE HoldBegins
    <3>1. millis # None
      BY <1>1, Types, Times DEF Moment, None
    <3> QED
      BY <2>1, <2>5, <3>1, <1>3 DEF HoldBegins, good, begins
  <2>6. CASE HoldGrows
    <3>1. CASE ElapsedAtLeast(millis, hold, HoldTime)
      BY <2>6, <3>1 DEF HoldGrows
    <3>2. CASE ~ElapsedAtLeast(millis, hold, HoldTime)
      <4>1. Elapsed(millis, hold) < HoldTime
        <5>1. hold \in Moment /\ millis \in Moment
          BY <1>1, <2>6 DEF HoldGrows, TypeOK
        <5> QED
          BY <5>1, <3>2, Times, ElapsedTicks DEF ElapsedAtLeast, Moment
      <4> QED
        BY <2>1, <2>6, <3>2, <4>1, <1>3 DEF HoldGrows, good, begins
    <3> QED
      BY <3>1, <3>2
  <2> QED
    BY <1>4, <2>2, <2>3, <2>4, <2>5, <2>6
<1>c. \/ notice' = None /\ noticeAge' = 0
      \/ /\ notice' = notice /\ noticeAge' = noticeAge
         /\ notice # None => ~DeadlineReached(millis, notice)
  BY DEF Look
<1>6. TypeOK'
  <2>1. notice' \in Moment \cup {None} /\ noticeAge' \in 0..NoticeTime
    BY <1>1, <1>c, Zeros DEF TypeOK
  <2>2. seenFor' \in 0..HoldTime \cup {None}
    BY <1>1, <1>3, Zeros DEF TypeOK
  <2>3. /\ stale' \in BOOLEAN /\ checked' \in BOOLEAN /\ hidden' \in BOOLEAN
        /\ touched' \in BOOLEAN /\ slow' \in BOOLEAN
    BY <1>3, <1>a
  <2> QED
    BY <1>1, <1>2, <1>a, <2>1, <2>2, <2>3, Zeros DEF TypeOK, Phase
<1>7. HoldInv'
  <2>1. CASE hold' = None
    BY <1>b, <2>1 DEF HoldInv
  <2>2. CASE hold' # None /\ hold = None
    <3>1. hold' = millis /\ millis' = millis /\ seenFor' = 0 /\ lag' = 0
      BY <1>2, <1>b, <2>2
    <3>2. Elapsed(millis, millis) = 0
      BY <1>1, ElapsedTicks DEF TypeOK
    <3>3. Elapsed(millis, hold)' = 0
      BY <3>1, <3>2 DEF Elapsed
    <3> QED
      BY <2>2, <3>1, <3>3, Times DEF HoldInv
  <2>3. CASE hold' # None /\ hold # None
    <3>1. /\ hold' = hold /\ seenFor' = seenFor /\ Elapsed(millis, hold) < HoldTime
          /\ millis' = millis
      BY <1>2, <1>b, <2>3, <1>1 DEF TypeOK, Moment
    <3>2. Elapsed(millis, hold) \in Moment
      BY <1>1, <2>3, ElapsedTicks DEF TypeOK
    <3>3. Elapsed(millis, hold)' = Elapsed(millis, hold)
      BY <3>1 DEF Elapsed
    <3> QED
      BY <1>1, <1>2, <2>3, <3>1, <3>2, <3>3, Times DEF HoldInv, Moment
  <2> QED
    BY <2>1, <2>2, <2>3
<1>8. NoticeInv'
  <2> SUFFICES ASSUME notice' # None PROVE NoticeInv'
    BY DEF NoticeInv
  <2>1. /\ notice' = notice /\ noticeAge' = noticeAge /\ ~DeadlineReached(millis, notice)
        /\ notice # None
    BY <1>c
  <2>a. /\ notice \in Moment /\ noticeAge \in 0..NoticeTime
        /\ Due(notice, noticeAge, NoticeTime, lag)
    BY <1>1, <2>1 DEF TypeOK, NoticeInv
  <2>b. lag \in 0..(2 * MaxBlock)
    BY <1>1, Types, Times
  <2>2. noticeAge < NoticeTime
    <3>1. DeadlineReached(millis, notice) <=> noticeAge = NoticeTime
      BY <1>1, <2>a, <2>b, DueIsTrue, Times DEF TypeOK
    <3> QED
      BY <2>1, <2>a, <3>1, Times
  <2> QED
    BY <1>2, <2>1, <2>a, <2>2 DEF NoticeInv, Due, Elapsed
<1>9. TrialInv'
  <2> SUFFICES ASSUME trial' # None PROVE TrialInv'
    BY DEF TrialInv
  <2>1. Due(trial, trialAge, TrialTime, lag) /\ stage = "" /\ pc' = "validate"
    BY <1>1, <1>2, <1>a DEF TrialInv
  <2>2. trial \in Moment /\ lag \in 0..MaxBlock /\ trialAge \in 0..TrialTime
    BY <1>1, <1>2 DEF TypeOK
  <2>3. Elapsed(millis, trial) \in Moment
    BY <1>1, <2>2, ElapsedTicks DEF TypeOK
  <2>4. Due(trial, trialAge, TrialTime, MaxBlock + 0)
    <3>1. CASE trialAge < TrialTime
      BY <2>1, <3>1 DEF Due
    <3>2. CASE ~(trialAge < TrialTime)
      <4>1. Elapsed(millis, trial) < lag
        BY <2>1, <3>2 DEF Due
      <4>2. Elapsed(millis, trial) < MaxBlock + 0
        BY <4>1, <2>2, <2>3, Times DEF Moment
      <4> QED
        BY <4>2, <3>2 DEF Due
    <3> QED
      BY <3>1, <3>2
  <2> QED
    BY <1>2, <2>1, <2>4 DEF TrialInv, Due, Elapsed
<1>10. StageInv'
  <2> SUFFICES ASSUME stage = "ended" PROVE StageInv'
    BY <1>2 DEF StageInv
  <2>1. Elapsed(millis, stageAt) \in Moment /\ lag \in 0..MaxBlock
    BY <1>1, ElapsedTicks DEF TypeOK
  <2>2. Elapsed(millis, stageAt) <= StageTime + lag + 0
    BY <1>1 DEF StageInv
  <2>3. Elapsed(millis, stageAt) <= StageTime + 0 + MaxBlock /\ pc' # "look"
    BY <1>a, <2>1, <2>2, Times DEF Moment
  <2>4. Elapsed(millis', stageAt') = Elapsed(millis, stageAt)
    BY <1>2
  <2> QED
    BY <1>1, <1>2, <2>3, <2>4 DEF StageInv
<1>11. RequestInv'
  BY <1>1, <1>2, <1>3, <1>a DEF RequestInv
<1>12. CancelInv'
  <2>1. "B" \notin pressed' => bAge' = 0
    BY <1>1, <1>2 DEF CancelInv
  <2>2. hold' = None => ~touched' /\ ~slow'
    BY <1>3
  <2>3. ASSUME hold' # None, ~slow' PROVE ~touched'
    BY <1>1, <1>3, <1>b, <2>3 DEF CancelInv, Together
  <2>4. lag' < PressTime
    BY <1>2, Times
  <2> QED
    BY <2>1, <2>2, <2>3, <2>4 DEF CancelInv
<1> QED
  BY <1>6, <1>7, <1>8, <1>9, <1>10, <1>11, <1>12 DEF IInv

(* A tick of the clock. *)
LEMMA TickStep == ASSUME IInv, Tick PROVE IInv'
<1>1. /\ TypeOK /\ HoldInv /\ NoticeInv /\ TrialInv /\ StageInv
      /\ RequestInv /\ CancelInv
  BY DEF IInv
<1>2. /\ lag < MaxBlock /\ lag' = lag + 1 /\ millis' = Later(millis, 1)
      /\ UNCHANGED <<pressed, pc, hold, blocked, notice, stage, stageAt, trial, stale,
                     checked, touched, hidden>>
  BY DEF Tick, screen
<1>3. /\ bAge' = IF "B" \in pressed THEN UpTo(PressTime, bAge) ELSE 0
      /\ noticeAge' = IF notice # None THEN UpTo(NoticeTime, noticeAge) ELSE 0
      /\ trialAge' = IF trial # None THEN UpTo(TrialTime, trialAge) ELSE 0
      /\ endAge' = IF stage = "ended" THEN UpTo(StageTime + 1, endAge) ELSE 0
      /\ seenFor' = IF seenFor # None THEN UpTo(HoldTime, seenFor) ELSE None
      /\ slow' = (slow \/ (hold # None /\ lag' >= PressTime))
  BY DEF Tick
<1>a. \A bound \in Nat : \A age \in 0..bound : UpTo(bound, age) \in 0..bound
  BY DEF UpTo
<1>4. TypeOK'
  <2>1. millis' \in Moment
    BY <1>1, <1>2, Types, ElapsedTicks
  <2>2. lag' \in 0..MaxBlock
    BY <1>1, <1>2, Types, Times
  <2>3. bAge' \in 0..PressTime /\ noticeAge' \in 0..NoticeTime /\ trialAge' \in 0..TrialTime
    BY <1>1, <1>3, <1>a, Types, Times, Zeros
  <2>4. endAge' \in 0..(StageTime + 1) /\ seenFor' \in 0..HoldTime \cup {None}
    BY <1>1, <1>3, <1>a, Types, Times, Zeros
  <2>5. slow' \in BOOLEAN
    BY <1>1, <1>3 DEF TypeOK
  <2> QED
    BY <1>1, <1>2, <2>1, <2>2, <2>3, <2>4, <2>5 DEF TypeOK
<1>5. HoldInv'
  <2>1. hold' = None /\ ~blocked' => seenFor' = None
    BY <1>1, <1>2, <1>3 DEF HoldInv
  <2>2. ASSUME hold # None
        PROVE  /\ Elapsed(millis', hold) < HoldTime + lag'
               /\ seenFor' = IF Elapsed(millis', hold) < HoldTime
                             THEN Elapsed(millis', hold) ELSE HoldTime
    <3> DEFINE e == Elapsed(millis, hold)
    <3>1. hold \in Moment /\ millis \in Moment /\ lag \in 0..MaxBlock
      BY <1>1, <2>2, Types
    <3>2. e \in 0..(Word - 1) /\ (e < Word - 1 => Elapsed(millis', hold) = e + 1)
      BY <1>2, <3>1, ElapsedTicks DEF Moment
    <3>3. e < HoldTime + lag /\ seenFor = IF e < HoldTime THEN e ELSE HoldTime
      BY <1>1, <2>2 DEF HoldInv
    <3> HIDE DEF e
    <3>4. Elapsed(millis', hold) = e + 1
      BY <1>2, <3>1, <3>2, <3>3, Times
    <3>5. seenFor' = UpTo(HoldTime, seenFor)
      BY <1>3, <3>2, <3>3, Times DEF None
    <3>6. seenFor' = IF e + 1 < HoldTime THEN e + 1 ELSE HoldTime
      BY <3>2, <3>3, <3>5, Times DEF UpTo
    <3> QED
      BY <1>2, <3>1, <3>2, <3>3, <3>4, <3>6, Times
  <2> QED
    BY <1>2, <2>1, <2>2 DEF HoldInv, Elapsed
<1>6. NoticeInv'
  <2> SUFFICES ASSUME notice # None PROVE NoticeInv'
    BY <1>2 DEF NoticeInv
  <2>1. /\ notice \in Moment /\ noticeAge \in 0..NoticeTime /\ millis \in Moment
        /\ Due(notice, noticeAge, NoticeTime, lag)
    BY <1>1, Types DEF NoticeInv
  <2>2. lag \in 0..(2 * MaxBlock) /\ NoticeTime < Word
    BY <1>1, Types, Times
  <2>3. IF UpTo(NoticeTime, noticeAge) < NoticeTime
        THEN Elapsed(millis', notice) = Word - (NoticeTime - UpTo(NoticeTime, noticeAge))
        ELSE Elapsed(millis', notice) < lag + 1
    BY <1>2, <2>1, <2>2, DueTicks, Times
  <2> QED
    BY <1>2, <1>3, <2>3 DEF NoticeInv, Due, Elapsed
<1>7. TrialInv'
  <2> SUFFICES ASSUME trial # None PROVE TrialInv'
    BY <1>2 DEF TrialInv
  <2> DEFINE bound == IF pc = "look" THEN lag ELSE MaxBlock + lag
  <2>1. /\ trial \in Moment /\ trialAge \in 0..TrialTime /\ millis \in Moment
        /\ Due(trial, trialAge, TrialTime, bound)
    BY <1>1, Types DEF TrialInv
  <2>2. bound \in 0..(2 * MaxBlock) /\ TrialTime < Word
    BY <1>1, Types, Times
  <2>3. (IF pc' = "look" THEN lag' ELSE MaxBlock + lag') = bound + 1
    BY <1>1, <1>2, Types, Times
  <2> HIDE DEF bound
  <2>4. IF UpTo(TrialTime, trialAge) < TrialTime
        THEN Elapsed(millis', trial) = Word - (TrialTime - UpTo(TrialTime, trialAge))
        ELSE Elapsed(millis', trial) < bound + 1
    BY <1>2, <2>1, <2>2, DueTicks, Times
  <2> QED
    BY <1>1, <1>2, <1>3, <2>3, <2>4 DEF TrialInv, Due, Elapsed
<1>8. StageInv'
  <2> SUFFICES ASSUME stage = "ended" PROVE StageInv'
    BY <1>2 DEF StageInv
  <2> DEFINE e == Elapsed(millis, stageAt)
             more == IF pc = "look" THEN 0 ELSE MaxBlock
  <2>1. e \in 0..(Word - 1) /\ (e < Word - 1 => Elapsed(millis', stageAt) = e + 1)
    BY <1>1, <1>2, Types, ElapsedTicks DEF Moment
  <2>2. /\ e <= StageTime + lag + more
        /\ endAge = IF e <= StageTime THEN e ELSE StageTime + 1
    BY <1>1 DEF StageInv
  <2>3. more \in 0..MaxBlock /\ lag \in 0..MaxBlock
    BY <1>1, Types, Times
  <2>4. more' = more
    BY <1>2
  <2> HIDE DEF e, more
  <2>5. Elapsed(millis', stageAt) = e + 1 /\ e + 1 <= StageTime + lag' + more
    BY <1>2, <2>1, <2>2, <2>3, Times
  <2>6. endAge' = IF e + 1 <= StageTime THEN e + 1 ELSE StageTime + 1
    BY <1>3, <2>1, <2>2, Times DEF UpTo
  <2> QED
    BY <1>2, <2>4, <2>5, <2>6 DEF StageInv, Elapsed, more
<1>9. RequestInv'
  BY <1>1, <1>2 DEF RequestInv
<1>10. CancelInv'
  <2>1. "B" \notin pressed' => bAge' = 0
    BY <1>2, <1>3
  <2>2. hold' = None => ~touched' /\ ~slow'
    BY <1>1, <1>2, <1>3 DEF CancelInv
  <2>3. ASSUME hold' # None, ~slow'
        PROVE  lag' < PressTime /\ (touched' => "B" \in pressed' /\ bAge' <= lag')
    <3>1. hold # None /\ ~slow /\ ~(lag' >= PressTime)
      BY <1>2, <1>3, <2>3
    <3>2. lag' < PressTime
      BY <1>1, <1>2, <3>1, Types, Times
    <3>3. ASSUME touched' PROVE "B" \in pressed' /\ bAge' <= lag'
      <4>1. "B" \in pressed /\ bAge <= lag
        BY <1>1, <1>2, <3>1, <3>3 DEF CancelInv
      <4>2. bAge' = UpTo(PressTime, bAge)
        BY <1>3, <4>1
      <4> QED
        BY <1>1, <1>2, <4>1, <4>2, Types, Times DEF UpTo
    <3> QED
      BY <3>2, <3>3
  <2> QED
    BY <2>1, <2>2, <2>3 DEF CancelInv
<1> QED
  BY <1>4, <1>5, <1>6, <1>7, <1>8, <1>9, <1>10 DEF IInv

(* The invariants speak of these variables and of nothing else. *)
holdVars == <<millis, lag, hold, blocked, seenFor>>
noticeVars == <<millis, lag, notice, noticeAge>>
cancelVars == <<lag, hold, touched, slow, pressed, bAge>>

LEMMA HoldFrame == HoldInv /\ UNCHANGED holdVars => HoldInv'
  BY DEF holdVars, HoldInv, Elapsed

LEMMA NoticeFrame == NoticeInv /\ UNCHANGED noticeVars => NoticeInv'
  BY DEF noticeVars, NoticeInv, Due, Elapsed

LEMMA CancelFrame == CancelInv /\ UNCHANGED cancelVars => CancelInv'
  BY DEF cancelVars, CancelInv

(* While a trial is pending, loop() only looks and validates. *)
LEMMA NoTrial == ASSUME TrialInv, pc \notin {"look", "validate"} PROVE trial = None
  BY DEF TrialInv

LEMMA RefuseStep == ASSUME IInv, Refuse PROVE IInv'
<1>1. /\ TypeOK /\ HoldInv /\ TrialInv /\ StageInv /\ RequestInv /\ CancelInv
  BY DEF IInv
<1>2. /\ pc = "request" /\ pc' = "validate"
      /\ notice' = Later(millis, NoticeTime) /\ noticeAge' = 0
      /\ UNCHANGED <<millis, lag, bAge, trialAge, endAge, pressed, hold, blocked, stage,
                     stageAt, trial, seenFor, stale, checked, touched, slow, hidden>>
  BY DEF Refuse, screen, seen
<1>3. /\ Later(millis, NoticeTime) \in Moment
      /\ Elapsed(millis, Later(millis, NoticeTime)) = Word - NoticeTime
  BY <1>1, Types, DeadlineSet, Times
<1>4. TypeOK'
  BY <1>1, <1>2, <1>3, Zeros DEF TypeOK, Phase
<1>5. NoticeInv'
  <2>1. Elapsed(millis', notice') = Word - (NoticeTime - 0) /\ 0 < NoticeTime
    BY <1>2, <1>3, Times
  <2> QED
    BY <1>2, <2>1 DEF NoticeInv, Due
<1>6. HoldInv' /\ CancelInv'
  BY <1>1, <1>2, HoldFrame, CancelFrame DEF holdVars, cancelVars
<1>7. TrialInv'
  BY <1>1, <1>2, NoTrial DEF TrialInv
<1>8. StageInv' /\ RequestInv'
  BY <1>1, <1>2 DEF StageInv, RequestInv, Elapsed
<1> QED
  BY <1>4, <1>5, <1>6, <1>7, <1>8 DEF IInv

(* The trial is over, or not. *)
LEMMA ValidateStep ==
    ASSUME IInv, Validate \/ ValidateNot PROVE IInv'
<1>1. /\ TypeOK /\ HoldInv /\ NoticeInv /\ TrialInv /\ StageInv
      /\ RequestInv /\ CancelInv
  BY DEF IInv
<1>2. CASE Restart
  BY <1>2, RestartStep
<1>3. CASE Validate /\ ~Restart
  <2>1. /\ trial # None /\ pc = "validate" /\ pc' = "look"
        /\ trial' = None /\ trialAge' = 0
        /\ \/ stage' = stage /\ stageAt' = stageAt
           \/ stage' = "running" /\ stageAt' = millis
        /\ UNCHANGED <<millis, lag, bAge, noticeAge, endAge, pressed, hold, blocked,
                       notice, seenFor, stale, checked, touched, slow, hidden>>
    BY <1>3 DEF Validate, TrialIsOver, seen, screen
  <2>2. stage = ""
    BY <1>1, <2>1 DEF TrialInv
  <2>3. TypeOK'
    BY <1>1, <2>1, Zeros DEF TypeOK, Phase
  <2>4. HoldInv' /\ NoticeInv' /\ CancelInv'
    BY <1>1, <2>1, HoldFrame, NoticeFrame, CancelFrame
    DEF holdVars, noticeVars, cancelVars
  <2>5. TrialInv' /\ StageInv' /\ RequestInv'
    BY <1>1, <2>1, <2>2 DEF TrialInv, StageInv, RequestInv
  <2> QED
    BY <2>3, <2>4, <2>5 DEF IInv
<1>4. CASE ValidateNot
  <2>1. /\ pc = "validate" /\ pc' = IF trial # None THEN "look" ELSE "work"
        /\ ~TrialIsOver
        /\ UNCHANGED <<millis, lag, bAge, noticeAge, trialAge, endAge, pressed, hold,
                       blocked, notice, stage, stageAt, trial, seenFor, stale, checked,
                       touched, slow, hidden>>
    BY <1>4 DEF ValidateNot, clock, seen, screen
  <2>2. TypeOK'
    BY <1>1, <2>1 DEF TypeOK, Phase
  <2>3. HoldInv' /\ NoticeInv' /\ CancelInv'
    BY <1>1, <2>1, HoldFrame, NoticeFrame, CancelFrame
    DEF holdVars, noticeVars, cancelVars
  <2>4. TrialInv'
    <3> SUFFICES ASSUME trial # None PROVE TrialInv'
      BY <2>1 DEF TrialInv
    <3>1. /\ trial \in Moment /\ trialAge \in 0..TrialTime /\ millis \in Moment
          /\ Due(trial, trialAge, TrialTime, MaxBlock + lag) /\ stage = ""
      BY <1>1, <2>1, Types DEF TrialInv
    <3>2. MaxBlock + lag \in 0..(2 * MaxBlock)
      BY <1>1, Types, Times
    <3>3. DeadlineReached(millis, trial) <=> trialAge = TrialTime
      BY <3>1, <3>2, DueIsTrue, Times
    <3>4. trialAge < TrialTime
      <4>1. trialAge # TrialTime
        BY <2>1, <3>3 DEF TrialIsOver
      <4>2. trialAge \in 0..TrialTime /\ TrialTime \in Nat
        BY <3>1, Times
      <4> QED
        BY <4>1, <4>2
    <3> QED
      BY <2>1, <3>1, <3>4 DEF TrialInv, Due, Elapsed
  <2>5. StageInv'
    <3>1. CASE trial # None
      BY <1>1, <2>1, <3>1 DEF TrialInv, StageInv
    <3>2. CASE trial = None
      BY <1>1, <2>1, <3>2 DEF StageInv, Elapsed
    <3> QED
      BY <3>1, <3>2
  <2>6. RequestInv'
    BY <1>1, <2>1 DEF RequestInv
  <2> QED
    BY <2>2, <2>3, <2>4, <2>5, <2>6 DEF IInv
<1> QED
  BY <1>2, <1>3, <1>4

(* The rest of loop(). *)
LEMMA RestStep ==
    ASSUME IInv, Work \/ CheckBegins \/ CheckEnds \/ End PROVE IInv'
<1>1. /\ TypeOK /\ HoldInv /\ NoticeInv /\ TrialInv /\ StageInv
      /\ RequestInv /\ CancelInv
  BY DEF IInv
<1>2. /\ UNCHANGED <<millis, lag, bAge, noticeAge, trialAge, pressed, hold, blocked,
                     notice, trial, seenFor, stale, touched, slow>>
      /\ pc \in {"work", "check", "end"} /\ pc' \in {"check", "end", "look"}
  BY DEF Work, CheckBegins, CheckEnds, End, clock, seen, screen
<1>3. trial = None
  BY <1>1, <1>2, NoTrial
<1>4. HoldInv' /\ NoticeInv' /\ CancelInv' /\ TrialInv'
  BY <1>1, <1>2, <1>3, HoldFrame, NoticeFrame, CancelFrame
  DEF holdVars, noticeVars, cancelVars, TrialInv
<1>5. CASE Work
  <2>1. UNCHANGED <<stage, stageAt, endAge, checked, hidden>> /\ pc = "work" /\ pc' = "end"
    BY <1>5 DEF Work, clock, seen, screen
  <2>2. TypeOK'
    BY <1>1, <1>2, <2>1 DEF TypeOK, Phase
  <2>3. StageInv' /\ RequestInv'
    BY <1>1, <1>2, <2>1 DEF StageInv, RequestInv, Elapsed
  <2> QED
    BY <1>4, <2>2, <2>3 DEF IInv
<1>6. CASE CheckBegins
  <2>1. /\ stage' = "running" /\ stageAt' = millis /\ checked' = TRUE
        /\ hidden' = hidden /\ endAge' = endAge
    BY <1>6 DEF CheckBegins, clock
  <2>2. TypeOK'
    BY <1>1, <1>2, <2>1 DEF TypeOK, Phase
  <2>3. StageInv' /\ RequestInv'
    BY <1>1, <1>2, <2>1 DEF StageInv, RequestInv
  <2> QED
    BY <1>4, <2>2, <2>3 DEF IInv
<1>7. CASE CheckEnds
  <2>1. /\ stage' = "ended" /\ stageAt' = millis /\ endAge' = 0 /\ pc' = "end"
        /\ checked' = checked /\ hidden' = hidden
    BY <1>7 DEF CheckEnds, seen
  <2>2. TypeOK'
    BY <1>1, <1>2, <2>1, Zeros DEF TypeOK, Phase
  <2>3. Elapsed(millis', stageAt') = 0 /\ lag \in 0..MaxBlock
    BY <1>1, <1>2, <2>1, Types, ElapsedTicks
  <2>4. StageInv'
    <3>1. 0 <= StageTime + lag + MaxBlock /\ 0 <= StageTime
      BY <2>3, Times
    <3> QED
      BY <1>2, <2>1, <2>3, <3>1 DEF StageInv
  <2>5. RequestInv'
    BY <1>1, <1>2, <2>1 DEF RequestInv
  <2> QED
    BY <1>4, <2>2, <2>4, <2>5 DEF IInv
<1>8. CASE End
  <2>1. /\ pc = "end" /\ pc' = "look" /\ stageAt' = stageAt /\ endAge' = endAge
        /\ stage' = IF ShownLongEnough THEN "" ELSE stage
        /\ hidden' = (hidden \/ (checked /\ stage = "ended" /\ endAge > StageTime))
        /\ checked' = checked
    BY <1>8 DEF End, clock
  <2>2. TypeOK'
    BY <1>1, <1>2, <2>1 DEF TypeOK, Phase
  <2>3. Elapsed(millis, stageAt) \in 0..(Word - 1) /\ lag \in 0..MaxBlock
    BY <1>1, Types, ElapsedTicks DEF Moment
  <2>4. StageInv'
    <3> SUFFICES ASSUME stage' = "ended" PROVE StageInv'
      BY DEF StageInv
    <3>1. stage = "ended" /\ ~(Elapsed(millis, stageAt) > StageTime)
      BY <2>1 DEF ShownLongEnough
    <3>2. Elapsed(millis, stageAt) <= StageTime + lag + 0
      BY <2>3, <3>1, Times
    <3> QED
      BY <1>1, <1>2, <2>1, <3>1, <3>2 DEF StageInv, Elapsed
  <2>5. RequestInv'
    <3>1. ASSUME checked, ShownLongEnough PROVE hidden'
      <4>1. stage = "ended" /\ Elapsed(millis, stageAt) > StageTime
        BY <3>1 DEF ShownLongEnough
      <4>2. endAge = StageTime + 1
        BY <1>1, <2>3, <4>1, Times DEF StageInv
      <4> QED
        <5>1. endAge > StageTime
          BY <4>2, Times
        <5> QED
          BY <2>1, <3>1, <4>1, <5>1, Zenon
    <3> QED
      BY <1>1, <1>2, <2>1, <3>1 DEF RequestInv
  <2> QED
    BY <1>4, <2>2, <2>4, <2>5 DEF IInv
<1> QED
  BY <1>5, <1>6, <1>7, <1>8

(* Buttons are pressed and released. *)
LEMMA FingerStep ==
    ASSUME IInv, NEW button \in Button, Press(button) \/ Release(button) PROVE IInv'
<1>1. /\ TypeOK /\ HoldInv /\ NoticeInv /\ TrialInv /\ StageInv
      /\ RequestInv /\ CancelInv
  BY DEF IInv
<1>2. UNCHANGED <<millis, lag, noticeAge, trialAge, endAge, pc, hold, blocked, notice,
                  stage, stageAt, trial, seenFor, stale, checked, slow, hidden>>
  BY DEF Press, Release, clock, screen, seen
<1>3. HoldInv' /\ NoticeInv'
  BY <1>1, <1>2, HoldFrame, NoticeFrame DEF holdVars, noticeVars
<1>4. TrialInv' /\ StageInv' /\ RequestInv'
  BY <1>1, <1>2 DEF TrialInv, StageInv, RequestInv, Due, Elapsed
<1>5. CASE Press(button)
  <2>1. /\ button \notin pressed /\ pressed' = pressed \cup {button} /\ bAge' = bAge
        /\ touched' = (touched \/ (button = "B" /\ hold # None))
    BY <1>5 DEF Press, clock
  <2>2. TypeOK'
    BY <1>1, <1>2, <2>1 DEF TypeOK
  <2>3. "B" \notin pressed' => bAge' = 0
    BY <1>1, <2>1 DEF CancelInv
  <2>4. hold' = None => ~touched' /\ ~slow'
    BY <1>1, <1>2, <2>1 DEF CancelInv
  <2>5. ASSUME hold' # None, ~slow'
        PROVE  lag' < PressTime /\ (touched' => "B" \in pressed' /\ bAge' <= lag')
    <3>1. lag' < PressTime /\ (touched => "B" \in pressed /\ bAge <= lag)
      BY <1>1, <1>2, <2>5 DEF CancelInv
    <3>2. button = "B" => bAge = 0 /\ 0 <= lag
      BY <1>1, <2>1, Types DEF CancelInv
    <3> QED
      BY <1>2, <2>1, <3>1, <3>2
  <2> QED
    BY <1>3, <1>4, <2>2, <2>3, <2>4, <2>5 DEF IInv, CancelInv
<1>6. CASE Release(button)
  <2>1. /\ button \in pressed /\ pressed' = pressed \ {button}
        /\ bAge' = (IF button = "B" THEN 0 ELSE bAge) /\ touched' = touched
        /\ button = "B" => bAge = PressTime
    BY <1>6 DEF Release, seen
  <2>2. TypeOK'
    BY <1>1, <1>2, <2>1, Zeros DEF TypeOK
  <2>3. "B" \notin pressed' => bAge' = 0
    BY <1>1, <2>1 DEF CancelInv
  <2>4. hold' = None => ~touched' /\ ~slow'
    BY <1>1, <1>2, <2>1 DEF CancelInv
  <2>5. ASSUME hold' # None, ~slow'
        PROVE  lag' < PressTime /\ (touched' => "B" \in pressed' /\ bAge' <= lag')
    <3>1. lag < PressTime /\ (touched => "B" \in pressed /\ bAge <= lag)
      BY <1>1, <1>2, <2>5 DEF CancelInv
    <3>2. touched => button # "B"
      BY <1>1, <2>1, <3>1, Types, Times
    <3> QED
      BY <1>2, <2>1, <3>1, <3>2
  <2> QED
    BY <1>3, <1>4, <2>2, <2>3, <2>4, <2>5 DEF IInv, CancelInv
<1> QED
  BY <1>5, <1>6

LEMMA NextStep == IInv /\ [Next]_vars => IInv'
<1> SUFFICES ASSUME IInv, [Next]_vars PROVE IInv'
  OBVIOUS
<1>1. CASE Look
  BY <1>1, LookStep
<1>2. CASE Refuse
  BY <1>2, RefuseStep
<1>3. CASE Revert \/ Installed
  BY <1>3, RestartStep DEF Revert, Installed
<1>4. CASE Validate \/ ValidateNot
  BY <1>4, ValidateStep
<1>5. CASE Work \/ CheckBegins \/ CheckEnds \/ End
  BY <1>5, RestStep
<1>6. CASE Tick
  BY <1>6, TickStep
<1>7. CASE Fingers
  BY <1>7, FingerStep DEF Fingers
<1>8. CASE UNCHANGED vars
  BY <1>8 DEF vars, clock, screen, seen, IInv, TypeOK, HoldInv, NoticeInv, TrialInv,
     StageInv, RequestInv, CancelInv, Due, Elapsed
<1> QED
  BY <1>1, <1>2, <1>3, <1>4, <1>5, <1>6, <1>7, <1>8 DEF Next, Loop

LEMMA Invariance == Spec => []IInv
  BY InitInv, NextStep, PTL DEF Spec

-----------------------------------------------------------------------------
(* What follows. *)

(* Every reachable state is well typed: no hold goes on while the gesture  *)
(* is locked, and a request locks it.                                      *)
THEOREM TypeInvariant == Spec => []TypeOK
<1>1. IInv => TypeOK
  BY DEF IInv
<1> QED
  BY <1>1, Invariance, PTL

(* Hold, notice, trial and stage end neither early nor late, however often *)
(* millis() wraps, for every word and every bound on an iteration that the *)
(* times leave room for.                                                   *)
THEOREM TimersAreTrueAlways == Spec => []TimersAreTrue
<1>1. ASSUME IInv PROVE TimersAreTrue
  <2>1. /\ TypeOK /\ HoldInv /\ NoticeInv /\ TrialInv /\ StageInv
    BY <1>1 DEF IInv
  <2>2. ASSUME hold # None
        PROVE  ElapsedAtLeast(millis, hold, HoldTime) <=> seenFor = HoldTime
    <3>1. Elapsed(millis, hold) \in 0..(Word - 1)
      BY <2>1, <2>2, Types, ElapsedTicks DEF Moment
    <3>2. seenFor = IF Elapsed(millis, hold) < HoldTime
                    THEN Elapsed(millis, hold) ELSE HoldTime
      BY <2>1, <2>2 DEF HoldInv
    <3> QED
      BY <3>1, <3>2, Times DEF ElapsedAtLeast
  <2>3. ASSUME notice # None
        PROVE  DeadlineReached(millis, notice) <=> noticeAge = NoticeTime
    <3>1. /\ notice \in Moment /\ noticeAge \in 0..NoticeTime /\ millis \in Moment
          /\ Due(notice, noticeAge, NoticeTime, lag)
      BY <2>1, <2>3, Types DEF NoticeInv
    <3>2. lag \in 0..(2 * MaxBlock)
      BY <2>1, Types, Times
    <3> QED
      BY <3>1, <3>2, DueIsTrue, Times
  <2>4. ASSUME trial # None
        PROVE  DeadlineReached(millis, trial) <=> trialAge = TrialTime
    <3> DEFINE bound == IF pc = "look" THEN lag ELSE MaxBlock + lag
    <3>1. /\ trial \in Moment /\ trialAge \in 0..TrialTime /\ millis \in Moment
          /\ Due(trial, trialAge, TrialTime, bound)
      BY <2>1, <2>4, Types DEF TrialInv
    <3>2. bound \in 0..(2 * MaxBlock)
      BY <2>1, Types, Times
    <3> HIDE DEF bound
    <3> QED
      BY <3>1, <3>2, DueIsTrue, Times
  <2>5. ASSUME stage = "ended" PROVE ShownLongEnough <=> endAge > StageTime
    <3>1. Elapsed(millis, stageAt) \in 0..(Word - 1)
      BY <2>1, Types, ElapsedTicks DEF Moment
    <3>2. endAge = IF Elapsed(millis, stageAt) <= StageTime
                   THEN Elapsed(millis, stageAt) ELSE StageTime + 1
      BY <2>1, <2>5 DEF StageInv
    <3>3. Elapsed(millis, stageAt) > StageTime <=> endAge > StageTime
      BY <3>1, <3>2, Times
    <3> QED
      BY <2>5, <3>3 DEF ShownLongEnough
  <2> QED
    BY <2>2, <2>3, <2>4, <2>5 DEF TimersAreTrue, TrialIsOver
<1> QED
  BY <1>1, Invariance, PTL

(* A request is made by a look that finds an old enough hold. *)
LEMMA RequestStep ==
    ASSUME IInv, [Next]_vars, Requested
    PROVE  Look /\ ~Busy /\ "B" \notin pressed /\ ~blocked /\ hold # None
           /\ ElapsedAtLeast(millis, hold, HoldTime)
<1>1. pc = "look" /\ pc' = "request"
  BY DEF Requested
<1>2. Look
  BY <1>1 DEF Next, Loop, Refuse, Revert, Restart, Validate, ValidateNot, Work,
     CheckBegins, CheckEnds, Installed, End, Tick, Fingers, Press, Release, vars
<1>3. HoldGrows
  BY <1>1, <1>2 DEF Look, BLocks, Locked, NoHold, HoldBegins
<1> QED
  BY <1>1, <1>2, <1>3 DEF HoldGrows, Together

(* The manual rollback is asked for only deliberately.                     *)
THEOREM RollbackIsDeliberateAlways == Spec => RollbackIsDeliberate
<1>1. ASSUME IInv, [Next]_vars, Requested
      PROVE  seenFor = HoldTime /\ ~stale /\ (~checked \/ hidden)
  <2>1. /\ ~Busy /\ ~blocked /\ hold # None
        /\ ElapsedAtLeast(millis, hold, HoldTime)
    BY <1>1, RequestStep
  <2>2. TypeOK /\ HoldInv /\ RequestInv
    BY <1>1 DEF IInv
  <2>3. Elapsed(millis, hold) \in 0..(Word - 1)
    BY <2>1, <2>2, Types, ElapsedTicks DEF Moment
  <2>4. seenFor = HoldTime
    BY <2>1, <2>2, <2>3, Times DEF HoldInv, ElapsedAtLeast
  <2>5. ~stale /\ (~checked \/ hidden)
    BY <2>1, <2>2 DEF RequestInv, Busy
  <2> QED
    BY <2>4, <2>5
<1>2. IInv /\ [Next]_vars =>
          [Requested => /\ seenFor = HoldTime /\ ~stale
                        /\ ~checked \/ hidden]_vars
  BY <1>1
<1> QED
  BY <1>2, Invariance, PTL DEF Spec, RollbackIsDeliberate

(* Pressing B cancels it, as long as loop() comes round in time.           *)
THEOREM PressOfBCancelsAlways == Spec => PressOfBCancels
<1>1. ASSUME IInv, [Next]_vars, Requested PROVE ~touched \/ slow
  <2>1. hold # None /\ "B" \notin pressed
    BY <1>1, RequestStep
  <2> QED
    BY <1>1, <2>1 DEF IInv, CancelInv
<1>2. IInv /\ [Next]_vars => [Requested => ~touched \/ slow]_vars
  BY <1>1
<1> QED
  BY <1>2, Invariance, PTL DEF Spec, PressOfBCancels

-----------------------------------------------------------------------------
(* The display. *)

LEMMA TilesAreFinite ==
    ASSUME NEW S \in SUBSET Tiles
    PROVE  IsFiniteSet(S) /\ Cardinality(S) \in 0..6
<1>1. TileCount \in 0..6
  BY DisplayAssumption
<1>2. IsFiniteSet(1..TileCount) /\ Cardinality(1..TileCount) = TileCount
  <2>1. TileCount \in Int /\ 1 \in Int
    BY <1>1
  <2>2. /\ IsFiniteSet(1..TileCount)
        /\ Cardinality(1..TileCount) = IF 1 > TileCount THEN 0 ELSE TileCount - 1 + 1
    BY <2>1, FS_Interval
  <2> QED
    BY <1>1, <2>2
<1>3. IsFiniteSet(S) /\ Cardinality(S) <= TileCount
  BY <1>2, FS_Subset DEF Tiles
<1>4. Cardinality(S) \in Nat
  BY <1>3, FS_CardinalityType
<1> QED
  BY <1>1, <1>3, <1>4

(* Enabled inverters are numbered without a gap, in their order: no two    *)
(* share a place (updateDisplay()).                                        *)
LEMMA PlaceIsFree ==
    ASSUME shownTiles \in SUBSET Tiles, NEW i \in shownTiles, NEW k \in shownTiles
    PROVE  /\ Place(i) \in 0..(Cardinality(shownTiles) - 1)
           /\ i < k => Place(i) < Place(k)
<1> DEFINE Before(j) == {n \in shownTiles : n < j}
<1>1. TileCount \in Nat /\ i \in Int /\ k \in Int /\ \A n \in shownTiles : n \in Int
  BY DisplayAssumption DEF Tiles
<1>2. IsFiniteSet(shownTiles) /\ Cardinality(shownTiles) \in Nat
  BY TilesAreFinite
<1>3. IsFiniteSet(shownTiles \ {i}) /\ Cardinality(shownTiles \ {i}) = Cardinality(shownTiles) - 1
  BY <1>2, FS_RemoveElement
<1>4. Before(i) \in SUBSET (shownTiles \ {i})
  BY <1>1
<1>5. IsFiniteSet(Before(i)) /\ Cardinality(Before(i)) <= Cardinality(shownTiles \ {i})
  BY <1>3, <1>4, FS_Subset
<1>6. Cardinality(Before(i)) \in Nat
  BY <1>5, FS_CardinalityType
<1>7. ASSUME i < k PROVE Cardinality(Before(i)) < Cardinality(Before(k))
  <2>1. Before(k) \in SUBSET shownTiles /\ i \in Before(k)
    BY <1>7
  <2>2. IsFiniteSet(Before(k))
    BY <2>1, <1>2, FS_Subset
  <2>3. IsFiniteSet(Before(k) \ {i}) /\ Cardinality(Before(k) \ {i}) = Cardinality(Before(k)) - 1
    BY <2>1, <2>2, FS_RemoveElement
  <2>4. Before(i) \in SUBSET (Before(k) \ {i})
    <3> SUFFICES ASSUME NEW n \in Before(i) PROVE n \in Before(k) \ {i}
      OBVIOUS
    <3>1. n \in Int /\ n < i /\ n \in shownTiles
      BY <1>1
    <3>2. n # i /\ n < k
      BY <1>1, <1>7, <3>1
    <3> QED
      BY <3>1, <3>2
  <2>5. Cardinality(Before(i)) <= Cardinality(Before(k) \ {i})
    BY <2>3, <2>4, FS_Subset
  <2>6. Cardinality(Before(k)) \in Nat
    BY <2>2, FS_CardinalityType
  <2> QED
    BY <1>6, <2>3, <2>5, <2>6
<1>8. Place(i) = Cardinality(Before(i)) /\ Place(k) = Cardinality(Before(k))
  BY DEF Place
<1> HIDE DEF Before
<1> QED
  BY <1>2, <1>3, <1>5, <1>6, <1>7, <1>8

(* The box of the place p among count tiles, as TileBox computes it. *)
BoxAt(p, count) ==
    LET columns == DisplayGridColumns(count)
        width == (GridWidth - Gap * (columns - 1)) \div columns
        height == (GridHeight - Gap * (DisplayGridRows(count) - 1))
                      \div DisplayGridRows(count)
    IN  [left |-> GridLeft + (p % columns) * (width + Gap),
         top |-> GridTop + (p \div columns) * (height + Gap),
         width |-> width, height |-> height]

Fits(box) ==
    /\ box.width >= 58 /\ box.height >= 40
    /\ box.left + box.width <= GridLeft + GridWidth
    /\ box.top + box.height <= GridTop + GridHeight

(* The grid of one to six places, row by row, fits between header and      *)
(* footer.                                                                 *)
LEMMA GridFits ==
    ASSUME NEW count \in 1..6, NEW p \in 0..(count - 1), NEW q \in 0..(count - 1)
    PROVE  Fits(BoxAt(p, count)) /\ (p # q => Apart(BoxAt(p, count), BoxAt(q, count)))
<1>0. count = 1 \/ count = 2 \/ count = 3 \/ count = 4 \/ count = 5 \/ count = 6
  OBVIOUS
<1> USE DEF BoxAt, Fits, Apart, DisplayGridColumns, DisplayGridRows, Gap,
            GridLeft, GridTop, GridWidth, GridHeight
<1>1. CASE count = 1
  BY <1>1
<1>2. CASE count = 2
  BY <1>2
<1>3. CASE count = 3
  BY <1>3
<1>4. CASE count = 4
  BY <1>4
<1>5. CASE count = 5
  BY <1>5
<1>6. CASE count = 6
  BY <1>6
<1> HIDE DEF BoxAt, Fits, Apart
<1> QED
  BY <1>0, <1>1, <1>2, <1>3, <1>4, <1>5, <1>6

LEMMA ShownStep ==
    ASSUME shownTiles \in SUBSET Tiles, [DisplayNext]_displayVars
    PROVE  shownTiles' \in SUBSET Tiles
<1>1. CASE \E i \in Tiles : Enable(i)
  BY <1>1 DEF Enable
<1>2. CASE UNCHANGED shownTiles
  BY <1>2
<1> QED
  BY <1>1, <1>2 DEF DisplayNext, Frame, Surroundings, TurnPage, Answer, Miss, Command,
     Commit, ToggleSafe, displayVars, control

LEMMA Fit == ASSUME shownTiles \in SUBSET Tiles PROVE TilesFit
<1> DEFINE count == Cardinality(shownTiles)
<1>1. count \in 0..6 /\ IsFiniteSet(shownTiles)
  BY TilesAreFinite
<1>2. ASSUME NEW i \in shownTiles, NEW k \in shownTiles, i # k
      PROVE  Place(i) # Place(k)
  <2>1. i \in Int /\ k \in Int
    BY DisplayAssumption DEF Tiles
  <2>2. Place(i) \in Int /\ Place(k) \in Int
    BY <1>1, PlaceIsFree
  <2> QED
    BY <1>2, <2>1, <2>2, PlaceIsFree
<1>3. ASSUME NEW i \in shownTiles PROVE TileBox(i) = BoxAt(Place(i), count)
  BY DEF TileBox, BoxAt
<1>4. ASSUME NEW i \in shownTiles
      PROVE  Place(i) \in 0..(count - 1) /\ count \in 1..6
  BY <1>1, PlaceIsFree
<1> HIDE DEF count
<1> SUFFICES ASSUME NEW i \in shownTiles
             PROVE  /\ Fits(TileBox(i))
                    /\ \A k \in shownTiles \ {i} : Apart(TileBox(i), TileBox(k))
  BY DEF TilesFit, Fits
<1>5. Fits(TileBox(i))
  BY <1>3, <1>4, GridFits
<1>6. ASSUME NEW k \in shownTiles \ {i} PROVE Apart(TileBox(i), TileBox(k))
  BY <1>2, <1>3, <1>4, GridFits
<1> QED
  BY <1>5, <1>6

(* Whichever inverters are enabled, their tiles lie apart and between      *)
(* header and footer, and each has room for its text (updateDisplay()).    *)
THEOREM TilesFitAlways == DisplaySpec => []TilesFit
<1>1. DisplayInit => shownTiles \in SUBSET Tiles
  BY DisplayAssumption DEF DisplayInit, Tiles
<1>2. shownTiles \in SUBSET Tiles /\ [DisplayNext]_displayVars
          => (shownTiles \in SUBSET Tiles)'
  BY ShownStep
<1>3. shownTiles \in SUBSET Tiles => TilesFit
  BY Fit
<1> QED
  BY <1>1, <1>2, <1>3, PTL DEF DisplaySpec

(* The watts of a tile come nearer to those of the inverter with every     *)
(* frame and never beyond: the animation cannot stop short or swing        *)
(* (approachDisplayedWatts() over unsigned integers).                      *)
THEOREM WattsComeNearer ==
    ASSUME NEW current \in Nat, NEW target \in Nat
    PROVE  LET next == ApproachDisplayedWatts(current, target)
           IN  /\ next \in Nat
               /\ current = target => next = target
               /\ current < target => current < next /\ next <= target
               /\ target < current => next < current /\ target <= next
<1>1. ASSUME NEW d \in Nat
      PROVE  /\ DisplayedWattStep(d) \in Nat /\ DisplayedWattStep(d) <= d
             /\ d > 0 => DisplayedWattStep(d) > 0
  BY DEF DisplayedWattStep
<1>2. CASE current < target
  <2>1. target - current \in Nat /\ target - current > 0
    BY <1>2
  <2> QED
    BY <1>1, <1>2, <2>1 DEF ApproachDisplayedWatts
<1>3. CASE current >= target
  <2>1. current - target \in Nat
    BY <1>3
  <2> QED
    BY <1>1, <1>3, <2>1 DEF ApproachDisplayedWatts
<1> QED
  BY <1>2, <1>3
=============================================================================
