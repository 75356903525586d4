CONSTANTS
    MaxFetches <- MCMaxFetches
    NoData = NoData
SPECIFICATION Spec
INVARIANT LatestResponseShown
CHECK_DEADLOCK FALSE
