SPECIFICATION Spec
CONSTANTS
  factory = factory
  site = site
  Settings = {factory, site}
  DefaultSettings = factory
  Profiles = {"StrictOneHot4"}
  Modulus = 4
  Firmwares = {4, 5}
  InitialSchemas = {4}
  Faults = {"power"}
  MaxFaults = 0
PROPERTIES
  RollbackKeepsSettings
