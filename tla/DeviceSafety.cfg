SPECIFICATION DeviceSpec
CONSTANTS
  Word = 8
  HoldTime = 3
  NoticeTime = 2
  StageTime = 1
  TrialTime = 3
  PressTime = 2
  MaxBlock = 2
  Capacity = 2
  MaxRecords = 6
  MaxFaults = 2
  TileCount = 6
  Configured <- SomeTiles
  Readings = {5, 200}
  Permitting = {100}
  Changes = 2
  DayLength = 24
  WindowLength = 4
  Backoff <- Quarters
  Starts <- SomeDates
  Schedules = {0, 4, 22}
  DefaultTime = 4
  ShiftLength = 4
  MaxDays = 2
  MaxEvents = 2
INVARIANTS
  TypeOK
  TimersAreTrue
  KeepsLatest
  GrowthIsExcused
  TilesFit
  WindowIsUsedOnce
  EveryWindowIsUsed
  AnsweredIsStored
PROPERTIES
  RollbackIsDeliberate
  PressOfBCancels
  HoldIsAnswered
  DisplaySettles
