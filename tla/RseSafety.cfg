SPECIFICATION SafetySpec
CONSTANTS
  N = 2
  Quantity = 1
  RegisterMax = 8
  InitialSettings <- TwoInverters
  Watts = {6}
  Curves <- EnteredCurves
  FeedMasks <- EnteredMasks
  Profiles = {"StrictOneHot4", "Westnetz4"}
  Patterns <- ReleaseReduceOpen
  ForeignWatts = {4}
  Mixes <- SafetyMixes
INVARIANTS
  TypeOK
  TestNeverRelaxes
  ActiveIsPhysical
  HealthyIsTruthful
  SettledOtaGateIsTruthful
PROPERTIES
  TestEndsInPhysicalControl
