CONSTANTS
    N = 2
    Requests = {c1, c2}
    Loop = Loop
SPECIFICATION FairSpec
INVARIANT TypeOK
PROPERTIES
    ReportsAreComplete
    NoRegressionAfterWarmup
    Converges
