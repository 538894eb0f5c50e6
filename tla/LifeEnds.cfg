SPECIFICATION FairSpec
CONSTANTS
    Servers = {s1, s2}
    Kinds = {"http"}
    Faults = {"crash"}
    OwnContexts = {FALSE}
    Events = {"appShutdown"}
    Signals = {"TERM"}
    MaxSignals = 1
    MaxGen = 1
PROPERTIES
    ShutdownCompletes
    TermEnds
    FailureStopsAll
