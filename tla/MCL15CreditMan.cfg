SPECIFICATION MCSpec
CONSTANTS
    t0 = t0
    NoMshr = NoMshr
    NumSlots = 3
    NumDataSlots = 2
    Threads <- OneThread
    PcxOps <- LiveOps
    FlushNeedsSpareCredit = TRUE
INVARIANTS
    CreditConservation
    DataConservation
    EvictionHasCredit
PROPERTIES
    PcxServed
