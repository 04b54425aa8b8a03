CONSTANTS
    Proc = {p1, p2}
    MaxTroubles = 2
SPECIFICATION Spec
SYMMETRY ProcSymmetry
INVARIANTS
    TypeOK
    NoLeakedLock
    OneRunnerUnlessRaced
PROPERTIES
    TickAvoidsRefresh
