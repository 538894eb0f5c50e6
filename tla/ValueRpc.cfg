SPECIFICATION FairSpec
CONSTANTS
    Callers = {c1, c2}
    MaxOps = 2
    Deployments <- MCDeployments
INVARIANTS
    MatchingClientConnects
    ServedAsConfigured
    RefusedUntouched
    BreakerCountsOperations
    AttemptsHaveOwnTimeout
PROPERTIES
    CallsEnd
