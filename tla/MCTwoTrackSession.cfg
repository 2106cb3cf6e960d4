CONSTANTS
  SessionIds = {s1, s2}
  NoSession = NoSession
  Frame = Frame
  NoFrame = NoFrame
  Capacity = 2
  FileFrames = 2
  Faults <- MCFaults
  Pairs <- MCPairs
SPECIFICATION FairSpec
CHECK_DEADLOCK FALSE
INVARIANTS
  TracksAreReleased
  OnlyRepeatedRequestsReplaceThreads
  PortsAreExclusive
VIEW MCView
PROPERTY LeavingCompletes
