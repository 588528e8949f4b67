SPECIFICATION Spec
CONSTANTS
    t0 = t0
    NoMshr = NoMshr
    NumSlots = 3
    NumDataSlots = 2
    Threads <- OneThread
    PcxOps <- LiveOps
    FlushNeedsSpareCredit = FALSE
INVARIANTS
    NoOverflow
