\* Two processes, crashes, a rebalance, a table outage, poison and bad payloads.
SPECIFICATION FairSpec
CONSTANTS
  Consumers = {c1, c2}
  NoConsumer = NoConsumer
  Length = 3
  Mistyped = {1}
  Garbled = {2}
  MaxAttempts = 2
  MaxStops = 1
  MaxMoves = 1
  MaxBlips = 1
\* All messages may be consumed.
CHECK_DEADLOCK FALSE
INVARIANTS
  NothingSkipped
  InOrder
  NoEarlyDeadLetter
  RetriesBounded
PROPERTY AllSettled
