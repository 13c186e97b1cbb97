SPECIFICATION QuerySpec
CONSTANTS
  r1 = r1
  r2 = r2
  r3 = r3
  k1 = k1
  k2 = k2
  k3 = k3
  k4 = k4
  anna = anna
  bob = bob
  carol = carol
  identity = identity
  moved = moved
  mesh = mesh
  walk = walk
  frame1 = frame1
  v1 = v1
  v2 = v2
  NoDevice = NoDevice
  Absent = Absent
  Requests <- TwoRequests
  q1 = q1
  Queries <- OneQuery
  Filters <- SomeFilters
  Calls <- QueriedCalls
  Keys <- ThreeKeys
  Stored <- OneKey
  InitialDoc <- Doc
  Devices <- SomeDevices
  Transforms <- SomeTransforms
  Identity = identity
  Assets = {mesh}
  ActionNames = {walk}
  FrameIds = {frame1}
  Values = {v1, v2}
  MaxRetries = 2
  Failures <- AllFailures
SYMMETRY Twins
INVARIANTS
  EffectsOnce
  AcknowledgedPushes
  ActionsComplete
  FramesReadable
  HeldObjectsListed
