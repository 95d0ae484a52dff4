SPECIFICATION Spec
CONSTANTS
  Count = 1
  Size = 4
  Limits = {0, 1, 7}
  MaxUsize = 7
  OverflowChecks = TRUE
  FailKinds = {"NetworkDown", "ConnectionReset"}
  FailErrors = {"TemporarilyOffline", "InvalidState"}
  MaxBytes = 4
  MaxHeld = 1
INVARIANT AnyLimitAnswered
