SPECIFICATION Spec
CONSTANTS
    Call = {c1, c2, c3}
    Kinds = {"gate", "ticket", "projection", "publish", "followup", "closeout"}
    Key = {k1, k2}
    Exec = {e1, e2}
    None = None
SYMMETRY Symmetric
CHECK_DEADLOCK FALSE
INVARIANTS
    TypeOK
    OneExecutionPerKey
    AnsweredIsKept
    RefsKept
    BlockedStays
PROPERTIES
    RegistryRefined
    ClosesOnEvidence
