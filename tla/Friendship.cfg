CONSTANTS
  Users = {u1, u2}
  Requests = {r1, r2, r3}
  None = None
  MaxRow = 3
SPECIFICATION Spec
SYMMETRY Symmetry
INVARIANTS
  TypeOK
  BoundedDuplicates
  ListsAgree
PROPERTIES
  FriendshipAgreed
