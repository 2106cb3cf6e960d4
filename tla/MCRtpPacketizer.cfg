CONSTANTS
  MaxPacketSize = 1024
  HeaderSize = 12
  SequenceNumbers = 4
  Words = 4
  Increment = 1
  NalUnits <- MCNalUnits
  AacFrames <- MCAacFrames
SPECIFICATION Spec
INVARIANTS
  PacketsAreTheUnit
  BeginAndEndAreMarked
  VideoPacketsFit
  SequenceNumbersAreConsecutive
  OneTimestampPerUnit
  AuHeaderTellsTheSize
