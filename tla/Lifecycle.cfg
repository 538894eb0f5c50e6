SPECIFICATION Spec
CONSTANTS
    Servers = {s1, s2}
    Kinds = {"http", "grpc", "vrpc"}
    Faults = {"bind", "register", "crash", "closeError"}
    OwnContexts = {TRUE, FALSE}
    Events = {"extend", "context", "closeContext"}
    Signals = {"TERM", "HUP"}
    MaxSignals = 1
    MaxGen = 2
SYMMETRY ServerSymmetry
INVARIANTS
    NoServeAfterClose
    OutcomeIsTruthful
    NoContainerLeft
    FailedBindNeverServed
    NoWaitGroupMisuse
PROPERTIES
    RestartFindsPortsFree
