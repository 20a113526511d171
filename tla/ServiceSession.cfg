SPECIFICATION Spec
CONSTANTS
  Service = identity
  Services = {identity, learn}
  Users = {u1, u2}
  Tickets = {k1, k2, k3}
  NULL = NULL
SYMMETRY Symmetry
INVARIANTS
  ClaimedOnce
  CredentialsBound
PROPERTIES
  ClaimWithinSession
