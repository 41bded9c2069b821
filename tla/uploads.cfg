\* Two racing requests, two collectors, the media worker, late PUTs, a fault.
\* The supply of recording ids is finite: all may be deleted.
CHECK_DEADLOCK FALSE
SPECIFICATION FairSpec
CONSTANTS
  Recordings = {r1}
  Requests = {q1, q2}
  Sweepers = {s1, s2}
  NoRecording = NoRecording
  Batch = 1
  MaxEvents = 2
  MaxFaults = 1
INVARIANTS
  SourceKept
  CompletionQueuedOnce
  OrphansExcused
PROPERTIES
  LifecycleSpec
  AbandonedSwept
