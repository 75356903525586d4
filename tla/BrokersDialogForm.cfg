CONSTANTS
    b1 = b1
    b2 = b2
    Ids <- MCIds
    Values <- MCValues
    Empty <- MCEmpty
    InitDb <- MCInitDb
    MaxOps <- MCMaxOps
    Absent = Absent
    NoBroker = NoBroker
    NoReq = NoReq
SPECIFICATION Spec
PROPERTY
    DialogOpensClean
CHECK_DEADLOCK FALSE
