SPECIFICATION Spec
CONSTANTS
  TempoPoints <- MCTempoPoints
  DefaultBpm <- MCDefaultBpm
  RefBpm <- MCRefBpm
  EarlyWidth <- MCEarlyWidth
  LateWidth <- MCLateWidth
  PerfectBand <- MCPerfectBand
  Pitch <- MCPitch
  Chunks <- MCChunks
  PackNotes <- MCPackNotes
  Songs <- MCSongs
  Instants <- MCInstants
  MaxPlayed <- MCMaxPlayed
  FrameDeltas <- MCFrameDeltas
  MaxFrame <- MCMaxFrame
CHECK_DEADLOCK FALSE
INVARIANTS
  TypeOK
  ComboIsStreak
  RequiresHold
  OverlayIsFinal
PROPERTY
  ScorerUsedAsAgreed
