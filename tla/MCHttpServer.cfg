SPECIFICATION Spec
CONSTANTS
  s1 = s1
  read = read
  write = write
  Sessions = {s1}
  Scopes = {read, write}
  NoSession = NoSession
  BadSession = BadSession
  Workers = {w1, w2}
  Requests <- AllRequests
  OptionSets <- BothOptions
  HandlerResults <- Results
  AgingStreams = {1}
  AppVersions = {"supported"}
  AppStates = {"expired", "active"}
  CursorSpan = 8
  MaxMessages = 2
  MaxWork = 2
SYMMETRY WorkersAlike
INVARIANTS
  AcceptedOnce
  AnswersStayInSession
  LegacyReplayHasNoGap
  DeletedStaysDeleted
PROPERTIES
  ImplementsEventLog
