SPECIFICATION FairSpec
CONSTANTS
  Callers = {a, b}
  FailureThreshold = 2
  RecoveryTimeout = 2
  MaxRetries = 2
  MaxRaised = 5
INVARIANTS TypeOK ClosedBelowThreshold OneProbe
PROPERTIES ProbesSpaced Recovers
