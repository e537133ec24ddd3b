SPECIFICATION FairSpec
CONSTANTS
  runpod = runpod
  lambda_labs = lambda_labs
  coreweave = coreweave
  Providers = {runpod, lambda_labs, coreweave}
  Local = {lambda_labs, coreweave}
  Interval = 2
  TTL = 6
  FetchLimit = 10
  MaxAge = 13
INVARIANTS
  TypeOK
  ServedFactsAreFresh
  ReadyBeforeListening
  HealthyDataAgeIsBounded
PROPERTIES
  FactsNeverGoBack
  HealthyFeedIsServedAgain
  EventuallyListens
