CONSTANTS
    Searches <- MCSearches
    Statuses <- MCStatuses
    TotalPages <- MCTotalPages
    MaxPages <- MCMaxPages
    MaxFetches <- MCMaxFetches
    MaxKeys <- MCMaxKeys
    NoData = NoData
SPECIFICATION Spec
INVARIANT PageInRange
CHECK_DEADLOCK FALSE
