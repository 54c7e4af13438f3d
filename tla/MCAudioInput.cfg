SPECIFICATION Spec
CHECK_DEADLOCK FALSE
CONSTANTS
  NoSample = NoSample
  MaxFrames <- MCMaxFrames
  Sample <- MCSample
  BurstSizes <- MCBurstSizes
  ReadSizes <- MCReadSizes
  Block <- MCBlock
  Capacity <- MCCapacity
  Word <- MCWord
INVARIANTS
  TypeOK
  NoCopyRace
  ReadNeverShort
  FramesConserved
  ActiveUnlessLost
PROPERTY
  RefinesSampleFifo
