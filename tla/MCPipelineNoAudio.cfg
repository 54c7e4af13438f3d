SPECIFICATION Spec
CHECK_DEADLOCK FALSE
CONSTANTS
  None = None
  Torn = Torn
  clean = clean
  doubtful = doubtful
  broken = broken
  untied = untied
  Source = {clean, doubtful, broken, untied}
  Levels <- MCLevels
  Fails <- MCFails
  Warns <- MCWarns
  Versions = {1}
  Envs = {"staging"}
  StemCount = 2
  Runs <- MCRuns
  MaxCommands = 5
INVARIANT
  NoAudioIsJsonOnly
