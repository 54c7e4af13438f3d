SPECIFICATION QueueSpec
CONSTANTS
  e1 = e1
  e2 = e2
  NoEvent = NoEvent
  Event <- MCEvent
  Capacity <- MCCapacity
  Word <- MCWord
INVARIANTS
  QueueTypeOK
  NoSlotRace
PROPERTY
  RefinesFifo
