SPECIFICATION Spec
CONSTANTS
  Targets = {"info", "library"}
  MaxDepth = 1
INVARIANTS
  IInv
  OneAttempt
  NoBlindRetry
  LoginIsTerminal
  NoDispatchOverChallenge
PROPERTIES
  ChallengeKept
  ImplementsSignIn
