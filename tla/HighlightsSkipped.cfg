CHECK_DEADLOCK FALSE
CONSTANTS
  Lists = {"highlightsByLikes"}
  MaxId = 3
  MaxKey = 1
  Limit = 1
  Shifts = {0}
  None = None
SPECIFICATION Spec
INVARIANTS
  Complete
