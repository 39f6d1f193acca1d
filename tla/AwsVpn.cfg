SPECIFICATION Spec
CONSTANTS
    Deploys = {d1}
    HandOffs = {h1}
    TearDowns = {t1, t2}
    Expiries = {}
    Environments <- MCPersons
    Lifetimes <- MCNone
    Forever = Forever
    Earlier = Earlier
    None = None
    MaxReloads = 1
SYMMETRY MCSymmetry
CHECK_DEADLOCK FALSE
INVARIANTS
    IInv
    DeadBlockHasACause
    TouchedUnderImplement
    FinishedRunsSettleTheirChange
PROPERTIES
    HandedOffIsSaved
    ChangesLive
