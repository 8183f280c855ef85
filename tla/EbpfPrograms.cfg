SPECIFICATION FairSpec
CONSTANTS
    Points <- SomePoints
    Optional <- SomeOptional
    Requested <- All
INVARIANTS FailedLoadUndone ActiveTraced GaugeMatches ClosedReleases
PROPERTY RetryLoads
