SPECIFICATION FairSpec
CONSTANTS
  Targets = {"learn", "registrar"}
  MaxDepth = 1
INVARIANTS
  NoHandoffLoop
PROPERTIES
  ScheduledProbeRuns
