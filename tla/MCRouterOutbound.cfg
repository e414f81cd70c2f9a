SPECIFICATION FairSpec
CONSTANTS
  Calls = {c1, c2}
  Ids = {i1, i2}
  Tokens = {t1}
  Readers = {r1}
  MaxProgress = 2
  MaxConcurrentInFlightRequests = 2
  Descriptors <- MixedDescriptors
  SolicitedOnly = TRUE
  NoCall = NoCall
  NoId = NoId
  NoToken = NoToken
CHECK_DEADLOCK FALSE
INVARIANTS
  ResponseReachesItsRequest
  TokenIndexExact
PROPERTIES
  ImplementsPendingReplies
  TimedRequestResolves
  DestructionCompletes
