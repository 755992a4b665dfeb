SPECIFICATION Spec
CONSTANTS
    u1 = u1
    u2 = u2
    Captured <- MCTwo
    Imported <- MCHar
    Users <- MCTwoUsers
    Ops <- MCCounted
    Ceiling = 3
    MaxSessions = 3
    MaxCrashes = 1
SYMMETRY Symmetric
INVARIANT
    CountsAreRows
CHECK_DEADLOCK FALSE
