SPECIFICATION Spec
CONSTANTS
    Player = {host, p1}
    Host = host
    Null = Null
    HostTaps = 3
    RegularTaps = 2
INVARIANTS
    TypeOK
    StartIsComplete
    NobodyPlaysBeforeStart
    TimerNeedsStart
    CountsFromOneRoster
    LastOneOutCleansUp
    SegueOnlyFromLobby
    CountsInv
    RoleInv
    WipeInv
    StagesInv
PROPERTY
    WipeEndsStartedGame
CHECK_DEADLOCK FALSE
