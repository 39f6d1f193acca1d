SPECIFICATION Spec
CONSTANTS
    Deploys = {}
    HandOffs = {h1}
    TearDowns = {t1}
    Expiries = {}
    Environments <- MCHealthy
    Lifetimes <- MCNone
    Forever = Forever
    Earlier = Earlier
    None = None
    MaxReloads = 0
CHECK_DEADLOCK FALSE
PROPERTIES
    TornDownIsTrue
