SPECIFICATION ClientFairSpec
CONSTANTS
  Senders = {t1}
  Sessions = {s1, s2}
  None = None
  MaxAttempts = 1
  MaxSends = 3
  MaxMessages = 2
  MaxStarts = 2
CHECK_DEADLOCK FALSE
INVARIANTS
  HandedInOrder
  StoppedMeansQuiet
PROPERTIES
  StopEnds
