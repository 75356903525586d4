CONSTANTS
    MaxFetches <- MCMaxFetches
    NoData = NoData
SPECIFICATION Spec
INVARIANTS
    NoStuckSpinner
    SettledShowsOutcome
PROPERTIES
    LoadingEnds
    AnalyticsViewRefinement
CHECK_DEADLOCK FALSE
