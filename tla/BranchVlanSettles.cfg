SPECIFICATION FairSpec
CONSTANTS
    AddJobs = {a1}
    RemoveJobs = {r1}
    Names = {users}
    Requests <- MCAll
    FirstVid = 11
    LastVid = 11
    MaxReloads = 1
    None = None
    Unnamed = Unnamed
CHECK_DEADLOCK FALSE
INVARIANTS
    IInv
    ChangeCoversPush
PROPERTIES
    ChangesLive
    ApprovedAddSettles
    ApprovedRemoveSettles
