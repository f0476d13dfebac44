SPECIFICATION Spec
CONSTANTS
  Quantity = 1
  RegisterMax = 8
  Watts = {4, 10}
  Curves <- TwoCurves
  FeedMasks <- TwoFeedMasks
  InitialPower = {0, 2, 6}
  Nameplate = 6
  Levels <- FewLevels
  InitialConfigs <- Migrated
  Commands = {"commit", "limit"}
  Faults = {}
  MaxFaults = 0
INVARIANTS
  ControlledGetsPower
