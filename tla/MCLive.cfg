SPECIFICATION FairSpec
CONSTANTS
    Player = {host, p1}
    Host = host
    Null = Null
    HostTaps = 2
    RegularTaps = 2
PROPERTIES
    StartReachesEveryone
    TimerIsSet
    LobbiesConverge
CHECK_DEADLOCK FALSE
