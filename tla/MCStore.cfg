SPECIFICATION Spec
CONSTANTS
    u1 = u1
    u2 = u2
    Captured <- MCThree
    Imported <- MCHar
    Users <- MCOneUser
    Ops <- MCAll
    Ceiling = 1
    Last = 3
    MaxSessions = 2
    MaxCrashes = 1
CONSTRAINT
    OneScene
INVARIANTS
    TypeOK
    NoOrphans
    RushEndsWithinCeiling
PROPERTY
    FavoritesSurvive
CHECK_DEADLOCK FALSE
