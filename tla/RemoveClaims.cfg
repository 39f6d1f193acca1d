SPECIFICATION Spec
CONSTANTS
    AddJobs = {a1}
    RemoveJobs = {r1}
    Names = {users}
    Requests <- MCByHand
    FirstVid = 11
    LastVid = 11
    MaxReloads = 0
    None = None
    Unnamed = Unnamed
CHECK_DEADLOCK FALSE
INVARIANTS
    SwitchChangedIsTrue
