CONSTANTS
  Caller = {c1, c2}
  ShortThreshold = 1
  MinRetry = 1
  MaxRetry = 2
  DefaultRetry = 1
SPECIFICATION FairSpec
INVARIANTS
  TypeOK
  SingleFlight
  RetryCarriesNewToken
  ReauthNeedsDeniedLogin
  FailureFollowsLogin
PROPERTIES
  PauseIsKept
  CallsEnd
