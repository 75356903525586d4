CONSTANTS
    MaxFetches <- MCMaxFetches
    NoData = NoData
SPECIFICATION Spec
INVARIANT ErrorRecoverable
CHECK_DEADLOCK FALSE
