SPECIFICATION Spec
CONSTANTS
    Deploys = {d1}
    HandOffs = {}
    TearDowns = {}
    Expiries = {e1}
    Environments <- MCTwoHours
    Lifetimes <- MCHours
    Forever = Forever
    Earlier = Earlier
    None = None
    MaxReloads = 0
CHECK_DEADLOCK FALSE
PROPERTIES
    TimedOnlyWhenPassed
