SPECIFICATION FairSpec
CONSTANTS
    a = a
    b = b
    Callers <- MCCallers
    Ports <- MCPorts
    Port0 = 1
    StartPorts <- MCNoPorts
    StartSys <- MCAlways
    Scenes <- MCLive
    MaxCalls = 2
    MaxConns = 1
INVARIANTS
    ConnectionsFollowContext
    
PROPERTY
    CallsReturn
CHECK_DEADLOCK FALSE
