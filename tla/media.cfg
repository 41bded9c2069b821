\* Stalled heartbeats, a skewed clock, crashes, shutdowns, rebalances, errors and
\* duplicate deliveries: safety and progress.
SPECIFICATION FairSpec
CONSTANTS
  Recordings = {r1}
  Workers = {w1, w2}
  NoWorker = NoWorker
  NoRecording = NoRecording
  Lease = 3
  MaxLag = 3
  MaxSkew = 1
  MaxAttempts = 2
  MaxSent = 2
  MaxStops = 1
INVARIANTS
  ClaimIffProcessing
  LostOnlyAfterStall
  FramesEventIffReady
PROPERTIES
  OwnerSettles
  LifecycleSpec
  Settles
  Drains
