SPECIFICATION Spec
CONSTANTS
  Runtimes = {r1, r2}
  Users = {u1, u2}
  MaxGen = 1
  SdkRuntime = TRUE
  NULL = NULL
SYMMETRY Symmetry
INVARIANTS
  IInv
  LeaseBindsAccount
  FilesOfLiveAccount
  OptOutHolds
PROPERTIES
  RecoveryNeedsOptIn
