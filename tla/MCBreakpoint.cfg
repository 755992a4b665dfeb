SPECIFICATION FairSpec
CONSTANTS
    e1 = e1
    e2 = e2
    c1 = c1
    Ids <- MCIds
    Conns <- MCOneConn
    ConnOf <- MCSameConn
    RuleSets <- MCRuleSets
INVARIANTS
    TypeOK
    ResumeNeverWedges
    EntryIsUndecided
    VerdictRespected
PROPERTIES
    DecisionsAreFinal
    ImplementsContract
    PausesEnd
CHECK_DEADLOCK FALSE
