SPECIFICATION FairSpec
CONSTANTS
    DiscoveryRequests <- MCDiscoveryRequests
    Documents <- MCDocuments
    Locations <- MCLocations
    Resolutions <- MCResolutions
    MaxWaits = 2
    MaxCallbacks = 2
    Threads = {"t1", "t2"}
    Interactive = "t1"
    Scopes = {"a", "b", "c"}
    VerifierEntropyBytes = 32
    Grants = {{"a", "b"}, {"a", "b", "c"}}
    RegistrationConfigs <- MCRegistrationConfigs
    RegistrationAnswers <- MCRegistrationAnswers
    ForbiddenHeaders <- MCForbiddenHeaders
    TokenPolicy <- MCTokenPolicy
    MaxStepUpAttempts = 2
INVARIANTS DiscoveryBelongsTogether OneExpectedCodePerStart CredentialsStayHome
PROPERTIES StepUpKeepsScopes EveryCallEnds
