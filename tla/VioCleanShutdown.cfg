SPECIFICATION Spec
CONSTANTS
    Servers = {s1}
    Kinds = {"grpc"}
    Faults = {}
    OwnContexts = {FALSE}
    Events = {}
    Signals = {"TERM"}
    MaxSignals = 1
    MaxGen = 1
INVARIANTS
    CleanShutdownReturnsNil
