SPECIFICATION Spec
CONSTANTS
  MaxLogins = 3
  MaxChallenges = 2
  NULL = NULL
INVARIANTS
  NoBlindReplay
  CodesForThisLogin
  OneInteraction
  RegisteredOnce
  ContinuesItsLogin
PROPERTIES
  NoRecoveryOverInteraction
  ImplementsSignIn
