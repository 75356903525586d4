CONSTANTS
    b1 = b1
    b2 = b2
    Ids <- MCIds
    Values <- MCValues
    Empty <- MCEmpty
    InitDb <- MCInitDb
    MaxOps <- MCMaxOps
    Absent = Absent
    NoBroker = NoBroker
    NoReq = NoReq
SPECIFICATION Spec
INVARIANTS
    SaveKeepsDialogOpen
    NoBlankBroker
PROPERTIES
    ListLoadingEnds
CHECK_DEADLOCK FALSE
