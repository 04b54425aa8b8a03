CONSTANTS
    Runner = {agent, user}
    Agent = agent
    NumTasks = 2
    Content = {empty, first, second, late, invalid}
    NoRecords = empty
    Invalid = invalid
    Late = {late}
    Batch = 1
    MaxZero = 2
    Caps <- MCCaps
SPECIFICATION FairSpec
INVARIANTS
    TypeOK
    ResultsBacked
    TerminalOnEvidence
    CapRespected
PROPERTIES
    CheckpointsKept
    Terminates
CHECK_DEADLOCK FALSE
