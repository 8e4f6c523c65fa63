SPECIFICATION Spec
CONSTANTS
    Player = {host, p1}
    Host = host
    Null = Null
    HostTaps = 2
    RegularTaps = 1
INVARIANT CountsMatchTeams
CHECK_DEADLOCK FALSE
