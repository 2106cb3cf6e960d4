SPECIFICATION Spec
CONSTANTS
  c1 = c1
  c2 = c2
  s1 = s1
  s2 = s2
  Connections = {c1, c2}
  SessionIds = {s1}
  Objects = {o1, o2, o3}
  Orderly = {c1, c2}
  Requests <- SharedRequests
  NewIds <- SharedIds
  Faults = {"bind", "open"}
  NoId = NoId
  NoObject = NoObject
  NoConnection = NoConnection
  Frame = Frame
  NoFrame = NoFrame
  Capacity = 2
  FileFrames = 0
INVARIANTS
  SessionsLiveWhileReferenced
  NoSenderOutlivesItsSession
  SessionIsDestroyedOnce
CHECK_DEADLOCK FALSE
