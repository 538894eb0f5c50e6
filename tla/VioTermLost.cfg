SPECIFICATION FairSpec
CONSTANTS
    Servers = {s1}
    Kinds = {"http"}
    Faults = {}
    OwnContexts = {FALSE}
    Events = {}
    Signals = {"TERM", "HUP"}
    MaxSignals = 2
    MaxGen = 2
PROPERTIES
    TermShutsDown
CHECK_DEADLOCK FALSE
