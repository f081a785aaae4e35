CONSTANTS
  MinDelay = 1
  MaxDelay = 5
  Faults <- MCTokenFaults
  MaxAttempt = 3
SPECIFICATION FairSpec
INVARIANTS
  TypeOK
  HealthEarned
  PublishedIsCurrent
  OnePing
  StopLeavesNothing
  DelayCoversFailures
PROPERTIES
  SilenceEnds
  SubscriptionSettles
  StopEnds
  TellsSocketView
