CONSTANTS
  Users = {u1}
  Requests = {r1, r2}
  Names = {n1, n2}
  None = None
  MaxAzit = 1
  MaxMember = 1
  MaxFile = 0
SPECIFICATION Spec
PROPERTIES
  NameKeptIfNull
