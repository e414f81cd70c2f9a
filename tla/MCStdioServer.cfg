SPECIFICATION FairSpec
CONSTANTS
    Capabilities <- MCCapabilities
    PageSize = 2
    Tools <- MCTools
    Resources <- MCResources
    Prompts <- MCPrompts
    Completion = "tooMany"
    MaxValues = 100
    InitialRegistry <- MCInitialRegistry
    Edits <- MCEdits
    Calls <- MCCalls
    Levels = {"info"}
    EmitTaskStatusNotifications = FALSE
    AskTimeouts = TRUE
    PipeLines = 1
    MaxCalls = 2
    MaxHostCalls = 1
INVARIANTS SubscriptionsAgree StaleListingIsAnnounced
CHECK_DEADLOCK FALSE
PROPERTIES LoopReadsOn
