SPECIFICATION Spec
CONSTANTS
    a = a
    b = b
    Callers <- MCCallers
    Ports <- MCPorts
    Port0 = 1
    StartPorts <- MCNoPorts
    StartSys <- MCBoolean
    Scenes <- MCScenes
    MaxCalls = 3
    MaxConns = 1
INVARIANTS
    TypeOK
    OneAcceptLoop
    FlagIsTruth
SYMMETRY Symmetric
CHECK_DEADLOCK FALSE
