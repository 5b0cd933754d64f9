\* Two requests race over one azit and its icon (Azits has two azits, without a race);
\* three member rows allow a host and two further rows of the other user.
CONSTANTS
  Users = {u1, u2}
  Requests = {r1, r2}
  Names = {n1}
  None = None
  MaxAzit = 1
  MaxMember = 3
  MaxFile = 1
SPECIFICATION Spec
SYMMETRY Symmetry
INVARIANTS
  TypeOK
  OneHost
PROPERTIES
  ImplementsTable
  RemovalAuthorized
