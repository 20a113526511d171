SPECIFICATION FairSpec
CONSTANTS
  Runtimes = {r1, r2}
  Users = {u1}
  MaxGen = 1
  SdkRuntime = FALSE
  NULL = NULL
PROPERTIES
  LockReleased
  LogoutEnds
