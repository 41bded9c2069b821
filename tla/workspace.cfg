\* Two users, two requests in flight, one share link.
SPECIFICATION Spec
CONSTANTS
  Users = {u1, u2}
  Requests = {q1, q2}
  Links = {l1}
  None = None
  MaxTTL = 2
  DefaultTTL = 1
  UrlTTL = 1
  MaxHold = 1
SYMMETRY Symmetry
INVARIANTS
  OwnerlessOnlyByRace
  ProjectBytesExcused
  PublicBytesExpire
PROPERTIES
  EachAckItsOwnEffect
