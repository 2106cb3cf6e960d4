SPECIFICATION Spec
CONSTANTS
  c1 = c1
  c2 = c2
  s1 = s1
  s2 = s2
  Connections = {c1}
  SessionIds = {s1}
  Objects = {o1}
  Orderly = {c1}
  Requests <- PausingRequests
  NewIds <- OneClientIds
  Faults = {}
  NoId = NoId
  NoObject = NoObject
  NoConnection = NoConnection
  Frame = Frame
  NoFrame = NoFrame
  Capacity = 2
  FileFrames = 2
INVARIANT
  ServerSurvives
CHECK_DEADLOCK FALSE
