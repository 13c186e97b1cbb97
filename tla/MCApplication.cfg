SPECIFICATION Spec
CONSTANTS
  w1 = w1
  w2 = w2
  ivan = ivan
  Workers <- TwoWorkers
  WebRequests <- SomeRequests
  HasAccount = TRUE
  HasConsul = TRUE
  Destinations <- BothWays
  Services <- OneService
  MaxConfigAttempts = 1
  Failures <- SomeFailures
INVARIANTS
  TypeOK
  UseSafe
  AuthenticationExact
  NoRegistrationLeft
PROPERTIES
  StartupEnds
