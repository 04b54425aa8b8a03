\* Every call may have been answered: CHECK_DEADLOCK FALSE.
CONSTANT
    Call = {c1, c2, c3, c4, c5}
SPECIFICATION Spec
SYMMETRY CallSymmetry
CHECK_DEADLOCK FALSE
INVARIANTS
    TypeOK
    ArtifactHasFile
    TerminalFieldsAgree
    FileHoldsAnswer
PROPERTY
    NothingTakenBack
