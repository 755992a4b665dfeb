SPECIFICATION Spec
CONSTANTS
    u1 = u1
    u2 = u2
    Captured <- MCThree
    Imported <- MCNone
    Users <- MCNone
    Ops <- MCNone
    Ceiling = 1
    MaxSessions = 1
    MaxCrashes = 0
PROPERTY
    PrunesOnlyExcess
CHECK_DEADLOCK FALSE
