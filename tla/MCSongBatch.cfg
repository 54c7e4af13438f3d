SPECIFICATION Spec
CHECK_DEADLOCK FALSE
CONSTANTS
  s1 = s1
  s2 = s2
  untied = untied
  odd = odd
  lost = lost
  None = None
  w1 = w1
  w2 = w2
  Ids = {"x", "y", "z"}
  Source = {s1, s2, untied, odd, lost}
  Earlier = {s2}
  Workers = {w1, w2}
  Refused <- MCRefused
  Broken <- MCBroken
  Manifests <- MCManifests
INVARIANTS
  OkMeansBuilt
  OutcomeIsOwn
PROPERTIES
  BatchEnds
