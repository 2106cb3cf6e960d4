SPECIFICATION Spec
CONSTANTS
  c1 = c1
  c2 = c2
  s1 = s1
  s2 = s2
  Connections = {c1, c2}
  SessionIds = {s1, s2}
  Objects = {o1, o2}
  Orderly = {c1, c2}
  Requests <- TwoClientRequests
  NewIds <- TwoClientIds
  Faults = {}
  NoId = NoId
  NoObject = NoObject
  NoConnection = NoConnection
  Frame = Frame
  NoFrame = NoFrame
  Capacity = 2
  FileFrames = 2
PROPERTY
  PlayCanStartTheStream
CHECK_DEADLOCK FALSE
