SPECIFICATION SafetySpec
CONSTANTS
  Slaves = {2, 3}
  Values = {"low", "high"}
  InitialPower <- AllLow
  MaxFaults = 1
  Requests <- ReadsAndWrite
  QueueDepth = 2
  CacheEntries = 2
  QueueMaxAge = 1
  ForwardTimeout = 1
  ResponseTimeout = 1
  CacheTtl = 1
  ControlCacheTtl = 2
  Retries = 2
  Patience = 3
  MaxRequests = 3
  MaxUses = 1
INVARIANTS
  TypeOK
  NeverALateReply
  RepliesAreCurrent
PROPERTIES
  OneTransactionAtATime
  VerifiedWasHeld
