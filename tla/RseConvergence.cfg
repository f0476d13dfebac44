SPECIFICATION LiveSpec
CONSTANTS
  N = 2
  Quantity = 1
  RegisterMax = 8
  InitialSettings <- TwoInverters
  Watts = {6}
  Curves <- EnteredCurves
  FeedMasks <- EnteredMasks
  Profiles = {"StrictOneHot4", "EweHold4", "FnnEza3"}
  Patterns <- ReleaseReduceOpen
  ForeignWatts = {4}
  Mixes <- LiveMixes
INVARIANTS
  FullPowerThroughUpdate
PROPERTIES
  NewestLevelReachesAll
  DeviationIsReported
