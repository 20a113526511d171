SPECIFICATION Spec
CONSTANTS
  Targets = {"learn"}
  MaxDepth = 1
INVARIANTS
  TimeNeverReplays
