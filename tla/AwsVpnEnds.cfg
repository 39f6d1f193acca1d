SPECIFICATION FairSpec
CONSTANTS
    Deploys = {d1}
    HandOffs = {}
    TearDowns = {t1}
    Expiries = {e1}
    Environments <- MCEnds
    Lifetimes <- MCHours
    Forever = Forever
    Earlier = Earlier
    None = None
    MaxReloads = 0
CHECK_DEADLOCK FALSE
PROPERTIES
    TimedDestroyWasDue
    DueRunsSettle
    DecidedRunsEnd
    HealthyTearDownGoesOn
