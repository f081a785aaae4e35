CONSTANTS
  MinDelay = 1
  MaxDelay = 5
  Faults <- MCRenewalFaults
  MaxAttempt = 3
SPECIFICATION Spec
INVARIANTS
  StopEndsTasks
