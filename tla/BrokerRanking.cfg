CONSTANTS
    EmptyPeriods <- MCEmptyPeriods
    MaxFetches <- MCMaxFetches
    NoData = NoData
SPECIFICATION Spec
PROPERTIES
    RankingLoadingEnds
CHECK_DEADLOCK FALSE
