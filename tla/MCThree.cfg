SPECIFICATION Spec
CONSTANTS
    Player = {host, p1, p2}
    Host = host
    Null = Null
    HostTaps = 2
    RegularTaps = 1
SYMMETRY RegularSymmetry
INVARIANTS
    NobodyPlaysBeforeStart
    LastOneOutCleansUp
CHECK_DEADLOCK FALSE
