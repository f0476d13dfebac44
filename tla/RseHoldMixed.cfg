SPECIFICATION FairSpec
CONSTANTS
  N = 2
  Quantity = 1
  RegisterMax = 8
  InitialSettings <- TwoInverters
  Watts = {6}
  Curves <- EnteredCurves
  FeedMasks <- EnteredMasks
  Profiles = {"EweHold4"}
  Patterns <- ReleaseReduceOpen
  ForeignWatts = {4}
  Mixes <- ContactMix
PROPERTIES
  NoLastingMixedOutputs
