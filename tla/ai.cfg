\* Two workers with skewed clocks, late heartbeats, rebalances, errors, a crash or shutdown.
SPECIFICATION Spec
CONSTANTS
  Recordings = {r1}
  Workers = {w1, w2}
  NoRecording = NoRecording
  Lease = 3
  Stalls = TRUE
  MaxSkew = 1
  MaxAttempts = 2
  MaxSent = 2
  MaxStops = 1
  MaxKeys = 20
  MaxShown = 10
SYMMETRY WorkerSymmetry
INVARIANTS
  ReadyHasContent
  AnnouncedHasContent
  ExclusiveAnalysis
  FramesSpread
PROPERTIES
  LegalTransitions
