SPECIFICATION FairSpec
CONSTANTS
  Consumers = {s1, s2}
  Frames = {f1, f2}
  NoFrame = NoFrame
  Capacity = 3
INVARIANTS
  TypeOK
  SleepingSendersHaveNothingToDo
PROPERTIES
  OnlyMembershipStrandsTheProducer
  NoSenderStarves
  ImplementsFrameFifos
