SPECIFICATION FairSpec
CONSTANTS
  Images <- Releases
  Faulty <- Bad
  Factory = 1
  MaxDay = 1
  Scenarios <- FaultAndPowerLoss
INVARIANTS
  TypeOK
  RestartIsSafe
  ControlIsProven
  OneTrial
  RejectedStaysOut
PROPERTIES
  ManualRollbackIsProven
  OneInstallPerWindow
  ControlComesBack
