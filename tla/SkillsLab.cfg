SPECIFICATION Spec
CONSTANTS
    Pushes = {p1, p2}
    Restores = {r1, r2}
    Foreign = {f1, f2}
    Proposals <- MCProposals
    Jobs = {j1, j2, j3}
    Cleanups = {c1, c2}
    ListLimit = 2
    NacmAttempts = 2
    Environments <- MCEnvironments
SYMMETRY MCSymmetry
INVARIANTS
    RestoredIsClean
    ReportsAreTrue
CHECK_DEADLOCK FALSE
