SPECIFICATION Spec
CONSTANTS
    Player = {host, p1}
    Host = host
    Null = Null
    HostTaps = 3
    RegularTaps = 2
INVARIANT OwnNameAmongWinners
CHECK_DEADLOCK FALSE
