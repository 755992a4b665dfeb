SPECIFICATION FairSpec
CONSTANTS
    a = a
    b = b
    Callers <- MCCallers
    Ports <- MCPorts
    Port0 = 1
    StartPorts <- MCNoPorts
    StartSys <- MCBoolean
    Scenes <- MCHang
    MaxCalls = 2
    MaxConns = 0
PROPERTY
    CallsReturn
CHECK_DEADLOCK FALSE
