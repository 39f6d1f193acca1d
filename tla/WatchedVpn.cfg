SPECIFICATION FairSpec
CONSTANTS
    Requests = {q1, q2}
    Checks = {c1, c2}
    People = {p1}
    Environments <- MCWorlds
CHECK_DEADLOCK FALSE
INVARIANTS
    IInv
    OneOpenCard
    HiddenOnlyTogether
    OneRunPerWish
PROPERTIES
    DriftIsTold
