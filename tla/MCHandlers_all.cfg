SPECIFICATION Spec
CONSTANTS
  r1 = r1
  r2 = r2
  k1 = k1
  k2 = k2
  Original = Original
  Absent = Absent
  Requests <- TwoRequests
  Keys <- TwoKeys
  Downstream = TRUE
  Works <- AllWorks
  Failures <- AllFailures
INVARIANTS
  TypeOK
  AcknowledgedApplied
  AcknowledgedAnnounced
PROPERTIES
  RequestsAnswered
