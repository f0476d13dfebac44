SPECIFICATION Spec
CONSTANTS
  factory = factory
  site = site
  Settings = {factory, site}
  DefaultSettings = factory
  Profiles = {"StrictOneHot4", "Westnetz4"}
  Modulus = 4
  Firmwares = {4, 5}
  InitialSchemas = {0, 2, 3, 4, 5}
  Faults = {"power", "open", "put"}
  MaxFaults = 2
INVARIANTS
  TypeOK
  AutomaticRollbackKeepsConfig
PROPERTIES
  SaveIsAtomic
