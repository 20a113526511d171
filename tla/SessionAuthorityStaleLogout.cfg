SPECIFICATION Spec
CONSTANTS
  Runtimes = {r1, r2}
  Users = {u1}
  MaxGen = 2
  SdkRuntime = TRUE
  NULL = NULL
PROPERTIES
  NewerCredentialKept
