SPECIFICATION FairSpec
CONSTANTS
    OnDemand = {r1}
    Monthly = {m1}
    Pushes = {p1, p2}
    Environments <- MCWorlds
    None = None
    Old = Old
    MaxReloads = 1
CHECK_DEADLOCK FALSE
INVARIANTS
    IInv
    DisagreementHasACause
    UnchangedIsTrue
    SavedPushIsKept
PROPERTIES
    RotatedIsTrue
    TunnelComesBack
