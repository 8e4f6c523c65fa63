SPECIFICATION FairSpec
CONSTANTS
    Player = {host, p1}
    Host = host
    Null = Null
    HostTaps = 2
    RegularTaps = 1
PROPERTY PartyIsWiped
CHECK_DEADLOCK FALSE
