SPECIFICATION Spec
CONSTANTS
  Requests = {d1, d2}
  Senders = {s1}
  Ids = {i1, i2}
  Tokens = {t1}
  Workers = {w1, w2}
  Emitters = {e1}
  MaxProgress = 2
  MaxConcurrentInFlightRequests = 2
  Descriptors <- MixedDescriptors
  NoRequest = NoRequest
  NoId = NoId
  NoToken = NoToken
SYMMETRY InboundSymmetry
CHECK_DEADLOCK FALSE
INVARIANTS
  IdHandledOnce
  WaitingIsOwed
  LateProgressOnce
