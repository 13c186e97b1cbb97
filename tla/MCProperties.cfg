SPECIFICATION Spec
CONSTANTS
  r1 = r1
  r2 = r2
  k1 = k1
  k2 = k2
  k3 = k3
  k4 = k4
  street = street
  park = park
  walk = walk
  intro = intro
  outro = outro
  NoScene = NoScene
  NoText = NoText
  Absent = Absent
  NoHandle = NoHandle
  Zero = 0
  Numbers = {0, 1, 2, 3, 4, 5, 6, 7, 8, 9}
  Requests <- TwoRequests
  Calls <- AllCalls
  Keys <- FourKeys
  Stored <- TwoKeys
  InitialBody <- Start
  Scenes = {street, park}
  ActionNames = {walk}
  FrameIds = {1}
  Texts = {intro, outro}
  MaxRetries = 2
  Failures <- AllFailures
INVARIANTS
  TypeOK
  ReadsOneRequest
  StoredWhole
  AnswersTrue
  QueryComplete
PROPERTIES
  CallsReturn
