SPECIFICATION Spec
CONSTANTS
  Runtimes = {r1}
  Users = {u1}
  MaxGen = 2
  SdkRuntime = TRUE
  NULL = NULL
PROPERTIES
  LogoutSuppressesFiles
