SPECIFICATION RunnerFairSpec
CONSTANTS
  Sessions = {s1, s2}
  Servers = {v1, v2, v3}
  None = None
  MaxBacklog = 2
  MaxStarts = 2
  WakeReaches = TRUE
CHECK_DEADLOCK FALSE
INVARIANTS
  OnlyLiveServersHandle
  ServersMatchSessions
PROPERTIES
  StopReturns
