SPECIFICATION Spec
CONSTANTS
    Player = {host, p1}
    Host = host
    Null = Null
    HostTaps = 2
    RegularTaps = 3
INVARIANTS
    RoleIsRegistered
    LeaversLeaveNothing
    RoleInv
    CleanInv
PROPERTIES
    CopiesStayTogether
    ImplementsStages
CHECK_DEADLOCK FALSE
