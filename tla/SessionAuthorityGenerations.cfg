SPECIFICATION Spec
CONSTANTS
  Runtimes = {r1, r2}
  Users = {u1}
  MaxGen = 2
  SdkRuntime = FALSE
  NULL = NULL
SYMMETRY Symmetry
INVARIANTS
  SnapshotOfLiveGeneration
  CleanLogoutIsFinal
PROPERTIES
  LeaseNeverRefreshed
  ImplementsRevocation
