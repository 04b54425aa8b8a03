CONSTANT
    Call = {c1, c2, c3}
SPECIFICATION Spec
CHECK_DEADLOCK FALSE
PROPERTY CompletedIsImmutable
