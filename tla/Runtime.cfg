SPECIFICATION FairSpec
CONSTANTS
    Callers = {signal, bean, handler}
    Derived = {group, cleaner}
    NoCaller = NoCaller
INVARIANTS
    TypeOK
    InactiveKnowsReason
    DerivedNeverPanics
    ReturnedMeansDown
PROPERTIES
    CallsReturn
    LatchSpec
