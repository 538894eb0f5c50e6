SPECIFICATION ServersSpec
CONSTANTS
    Servers = {s1}
    Kinds = {"http"}
    Faults = {}
INVARIANTS
    HttpRequestsFinish
