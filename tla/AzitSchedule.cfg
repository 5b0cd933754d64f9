CONSTANTS
  Users = {u1, u2}
  Requests = {r1, r2}
  None = None
  MaxAzit = 2
  MaxMember = 2
  MaxSchedule = 1
  MaxTime = 2
  Capacities = {2}
  Settable = {"PENDING", "DECLINE", "CANCELLED", "JOIN"}
SPECIFICATION Spec
SYMMETRY Symmetry
INVARIANTS
  TypeOK
  SameAzit
  CreatorKept
PROPERTIES
  EditedByCreator
