\* ADR 0025 promises recovery after one crash.
SPECIFICATION FairSpec
CONSTANTS
  Recordings = {r1}
  Workers = {w1, w2}
  NoWorker = NoWorker
  NoRecording = NoRecording
  Lease = 2
  MaxLag = 2
  MaxSkew = 0
  MaxAttempts = 2
  MaxSent = 1
  MaxStops = 1
PROPERTIES
  RecoversOnItsOwn
