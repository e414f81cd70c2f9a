SPECIFICATION FairSpec
CONSTANTS
    Negotiated <- MCNegotiated
    Registered <- MCRegistered
    Calls = {"c1"}
    Requests <- MCRequests
    FormResults <- MCFormResults
    Workers = {"w1"}
    Timeouts = {TRUE, FALSE}
    CallbackMayStop = TRUE
    HandlerMayAsk = TRUE
    Manners = {"kill"}
    PipeLines = 1
    Conversations <- MCConversations
    MaxCompletions = 1
INVARIANTS CompletionReachesHandler NoCallbackAfterStop
PROPERTIES StopReturns AnswersAreCalledBack
CHECK_DEADLOCK FALSE
