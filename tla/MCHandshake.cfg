SPECIFICATION FairSpec
CONSTANTS
  Inits = {i1, i2}
  Pings = {p1}
  Features = {f1}
  Timed = {i1}
  ClientVersions <- EarlyAndMiddle
  ServerVersions <- MiddleAndLate
  Proposals <- EarlyAndMiddle
  MaxPushes = 1
  NoCall = NoCall
  NoVersion <- NoVersionValue
CHECK_DEADLOCK FALSE
INVARIANTS
  VersionsAgree
  InitializedWhenReady
  AdoptsOnlyRefusals
PROPERTIES
  InitializingEnds
