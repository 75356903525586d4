CONSTANTS
    Searches <- MCSearches
    Statuses <- MCStatuses
    TotalPages <- MCTotalPages
    MaxPages <- MCMaxPages
    MaxFetches <- MCMaxFetches
    MaxKeys <- MCMaxKeys
    NoData = NoData
SPECIFICATION Spec
INVARIANTS
    TypeOK
PROPERTIES
    FirstPageOnNewFilter
    SearchApplied
CHECK_DEADLOCK FALSE
