CONSTANTS
    Statuses <- MCStatuses
    MaxFetches <- MCMaxFetches
    NoData = NoData
SPECIFICATION Spec
INVARIANTS
    VisitsSettledShowsOutcome
PROPERTIES
    VisitsViewRefinement
CHECK_DEADLOCK FALSE
