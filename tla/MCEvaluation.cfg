SPECIFICATION EvaluationSpec
CHECK_DEADLOCK FALSE
CONSTANTS
  onset_tol = 2
  offset_percent = 20
  offset_min = 2
  chord_cluster_tol = 1
  chord_window = 2
  midi_tolerance = 2
  min_note = 3
  tau_min = 2
  threshold = 2
  Unvoiced = Unvoiced
  NaN = NaN
  Settings <- MCSettings
  Retakes <- MCRetakes
INVARIANTS
  OracleIsPerfect
  EstimateIsCurrent
  NotesAreRuns
  MetricsAgree
