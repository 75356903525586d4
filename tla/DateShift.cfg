CONSTANTS
    TopN <- MCTopN
    Counts <- MCCounts
    Days <- MCDays
    Times <- MCTimes
    MaxItems <- MCMaxItems
    Stages <- MCStages
    NoRate = NoRate
    NotARate = NotARate
    UtcOffset <- MCUtcOffset
SPECIFICATION Spec
INVARIANT
    DatesShownAsReceived
