SPECIFICATION Spec
CONSTANTS
  r1 = r1
  r2 = r2
  NoRequest = NoRequest
  Requests <- TwoRequests
  MaxRetries = 2
  MaxFailures = 1
  Addresses <- NoAddress
  Profiles <- WithConsul
  DiscoveryOutcomes <- Found
INVARIANTS
  QueriesXorUpdate
