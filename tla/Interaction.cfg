CONSTANTS
  Users = {u1, u2}
  Requests = {r1, r2}
  Targets = {t1}
  None = None
  MaxRow = 2
SPECIFICATION Spec
SYMMETRY Symmetry
INVARIANTS
  LikesBounded
  ReactorsCouldSee
PROPERTIES
  ImplementsReactions
  CommentsByAuthor
CHECK_DEADLOCK FALSE
