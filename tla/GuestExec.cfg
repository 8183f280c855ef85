SPECIFICATION FairSpec
CONSTANTS
    QGATimeout = 4
    ExecWait = 2
INVARIANTS BudgetSuffices ClosedIsTold
PROPERTY ScrapeEnds
