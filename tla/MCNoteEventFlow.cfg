SPECIFICATION Spec
CONSTANTS
  NoEvent = NoEvent
  MaxEvents <- MCMaxEvents
  Event <- MCEvent
  Capacity <- MCCapacity
  Word <- MCWord
  Batch <- MCBatch
  ChannelCap <- MCChannelCap
INVARIANTS
  TypeOK
  Conservation
PROPERTY
  Delivered
