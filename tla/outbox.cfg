\* Two relays, batches smaller than the backlog, two faults of any kind.
SPECIFICATION FairSpec
CONSTANTS
  Relays = {p1, p2}
  NoRelay = NoRelay
  MaxRows = 3
  Batch = 2
  MaxFaults = 2
\* All rows may be published.
CHECK_DEADLOCK FALSE
INVARIANTS
  DuplicatesBounded
PROPERTIES
  ImplementsChannel
  EventuallyPublished
