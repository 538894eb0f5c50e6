SPECIFICATION ServersFairSpec
CONSTANTS
    Servers = {s1}
    Kinds = {"http", "grpc", "vrpc"}
    Faults = {"bind", "register", "crash", "acceptClosed", "closeError", "panic"}
INVARIANTS
    ShutdownFreesPort
    GrpcCutOnlyAfterTimeout
PROPERTIES
    StoppedAcceptsNothing
    ShutdownEnds
