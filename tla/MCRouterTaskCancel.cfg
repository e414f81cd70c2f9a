SPECIFICATION FairSpec
CONSTANTS
  Calls = {c1}
  Ids = {i1}
  Tokens = {}
  Readers = {r1}
  MaxProgress = 0
  MaxConcurrentInFlightRequests = 1
  Descriptors <- MixedDescriptors
  SolicitedOnly = TRUE
  NoCall = NoCall
  NoId = NoId
  NoToken = NoToken
CHECK_DEADLOCK FALSE
INVARIANT LateTaskIsCancelled
