SPECIFICATION Spec
CONSTANTS
    Clients = {alice}
    Limit = 2
    Interval = 2
INVARIANTS
    SlidingWindow
