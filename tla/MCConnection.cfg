SPECIFICATION Spec
CONSTANTS
  r1 = r1
  r2 = r2
  NoRequest = NoRequest
  Requests <- TwoRequests
  MaxRetries = 3
  MaxFailures = 1
  Addresses <- Either
  Profiles <- Either
  DiscoveryOutcomes <- Anything
INVARIANTS
  TypeOK
  UpdateExcludesQueries
  SafeUpdate
  LimitWatched
  LocksReleased
PROPERTIES
  PoolOwnedByWriter
  EveryCallReturns
