SPECIFICATION Spec
CONSTANTS
    AddJobs = {a1, a2}
    RemoveJobs = {r1}
    Names = {users, voice}
    Requests <- MCActions
    FirstVid = 11
    LastVid = 11
    MaxReloads = 0
    None = None
    Unnamed = Unnamed
SYMMETRY MCSymmetry
CHECK_DEADLOCK FALSE
INVARIANTS
    TypeOK
    OrphansHaveACause
    ActiveIsConfigured
    InstanceIsOfItsName
PROPERTIES
    AcceptedNotRolledBack
    ActiveDeletedAfterDevice
