SPECIFICATION Spec
CONSTANTS
  Clients = {c1, c2}
  Ids = {i1}
  u1 = u1
  u2 = u2
  Scopes <- PortalScopes
  Addresses = {a1, a2}
  MaxRevision = 2
  MaxGeneration = 2
  NULL = NULL
SYMMETRY Symmetry
INVARIANTS
  MemoryBehindFile
  DeletedStaysDeleted
  PreparedBinds
  PasswordsToTheirAccount
PROPERTIES
  LogoutOfLastLogin
