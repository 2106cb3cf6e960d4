CONSTANTS
  BlockSize = 12
  Files <- MCFiles
  AacFiles <- MCAacFiles
SPECIFICATION SpecReaders
CHECK_DEADLOCK FALSE
INVARIANTS
  FramesAreUnits
  OnlyTheLastBlockIsLost
  AudioFramesAreContents
