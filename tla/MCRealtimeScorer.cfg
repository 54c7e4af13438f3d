SPECIFICATION ScorerSpec
CONSTANTS
  TempoPoints <- MCTempoPoints
  RefBpm <- MCRefBpm
  EarlyWidth <- MCEarlyWidth
  LateWidth <- MCLateWidth
  PerfectBand <- MCPerfectBand
  Pitch <- MCPitch
  Songs <- MCSongs
  Instants <- MCInstants
  MaxPlayed <- MCMaxPlayed
INVARIANTS
  ScorerTypeOK
  FrozenIsFinal
PROPERTIES
  SettledAtOwnClose
  VerdictsOnlyImprove
