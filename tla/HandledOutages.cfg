SPECIFICATION FairSpec
CONSTANTS
    Subjects = {s1, s2}
    Loops = {l1, l2}
    Drills = {d1}
    None = None
    Environments <- MCWorlds
    MaxBreaks = 1
    MaxReloads = 1
CHECK_DEADLOCK FALSE
INVARIANTS
    IInv
    OneIncidentPerOutage
PROPERTIES
    OutageIsHandled
    DrillLeavesNothing
