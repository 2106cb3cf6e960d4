CONSTANTS
  a = a
  b = b
  c = c
  Sources <- MCSources
  MaxStarts = 2
SPECIFICATION FairSpec
CHECK_DEADLOCK FALSE
INVARIANTS
  HandlerOutlivesItsThreads
  ReportIsWhole
PROPERTIES
  NoReportAfterStop
  StopReturns
