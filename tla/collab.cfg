\* Two pages of two users, one comment, channels of two events.
SPECIFICATION CollabSpec
CONSTANTS
  Pages = {p1, p2}
  Comments = {c1}
  Null = Null
  Buffer = 2
SYMMETRY Symmetry
INVARIANTS
  CommentsShown
  PresenceSettles
