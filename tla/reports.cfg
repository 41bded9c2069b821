\* Two readers, two writes and a deletion, with either cache.
SPECIFICATION Spec
CONSTANTS
  Requests = {q1, q2}
  None = None
  TTL = 2
  MaxHold = 1
  MaxWrites = 2
SYMMETRY RequestSymmetry
INVARIANTS
  QuietMeansFresh
  StaleForAReason
