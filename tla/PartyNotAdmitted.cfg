\* Azit ids run out, and with no azit left nobody can act.
CHECK_DEADLOCK FALSE
CONSTANTS
  Users = {u1, u2}
  Requests = {r1}
  None = None
  MaxAzit = 1
  MaxMember = 2
  MaxPost = 1
  MaxApp = 1
  MaxRestart = 1
SPECIFICATION Spec
SYMMETRY Symmetry
INVARIANTS
  AcceptedAdmitted
