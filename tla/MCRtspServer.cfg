CONSTANTS
  Conns = {c1, c2, c3}
  Workers = {w1, w2}
  Fds <- MCFds
  Nobody = Nobody
SPECIFICATION FairSpec
INVARIANTS
  SleepersLeaveNoTask
  MappedHandlersAreInUse
  NoUseAfterDestruction
  OnlyTheSecondCloseHurts
PROPERTY QueuedConnectionIsServed
