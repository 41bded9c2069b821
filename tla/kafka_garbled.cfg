\* One process that is always restarted, nothing else goes wrong.
SPECIFICATION FairSpec
CONSTANTS
  Consumers = {c1}
  NoConsumer = NoConsumer
  Length = 2
  Mistyped = {}
  Garbled = {0}
  MaxAttempts = 2
  MaxStops = 0
  MaxMoves = 0
  MaxBlips = 0
PROPERTY GarbledDeadLettered
