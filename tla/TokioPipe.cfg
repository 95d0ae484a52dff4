SPECIFICATION FairSpec
CONSTANTS
  Count = 2
  Size = 4
  Limits = {0, 1, 2, 7}
  MaxUsize = 7
  OverflowChecks = FALSE
  FailKinds = {"NetworkDown", "ConnectionReset"}
  FailErrors = {"TemporarilyOffline", "InvalidState"}
  MaxBytes = 7
  MaxHeld = 3
INVARIANTS
  NothingLost
  EndTruthful
  Registered
  ErrorSurvives
PROPERTY PipeDrains
