SPECIFICATION Spec
CONSTANTS
  Quantity = 1
  RegisterMax = 8
  Watts = {4, 10}
  Curves <- TwoCurves
  FeedMasks <- TwoFeedMasks
  InitialPower = {0, 2, 6}
  Nameplate = 6
  Levels <- FewLevels
  InitialConfigs <- Migrated
  Commands = {"max", "id", "limit", "rsecfg", "commit", "dryrun"}
  Faults = {"save", "bus"}
  MaxFaults = 2
INVARIANTS
  TypeOK
  CurveWithinCeiling
PROPERTIES
  CommitEndsRatedOrRestored
