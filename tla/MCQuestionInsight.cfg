SPECIFICATION Spec
CONSTANTS
    MaxMessages = 5
    Finalizers = {1, 2}
    Mixes <- AllMixes
INVARIANTS TypeOK OneUnresolvedBundle BundleMatchesRows StatementCopiesNeeded ConfirmedWasShown LatestInsightIsCurrent
PROPERTIES ClosedReopensForward ConfirmedNeverLost
CHECK_DEADLOCK FALSE
