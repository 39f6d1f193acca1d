SPECIFICATION Spec
CONSTANTS
    None = None
    Environments <- MCEnvironments
    Routers <- MCRouters
    MaxCommands = 4
    MaxEdits = 2
INVARIANTS
    PushedLabIsWhole
    ScratchMeetsNobody
CHECK_DEADLOCK FALSE
