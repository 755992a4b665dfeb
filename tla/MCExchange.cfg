SPECIFICATION FairSpec
CONSTANTS
    e1 = e1
    e2 = e2
    h1 = h1
    h2 = h2
    c1 = c1
    Ids <- MCIds
    Hosts <- MCHosts
    Conns <- MCConns
    HostOf <- MCHostOf
    ConnOf <- MCConnOf
    Filters <- MCFilters
    Mappings <- MCMappings
    Redirects <- MCRedirects
    MaxFrames = 1
INVARIANTS
    TypeOK
    CaptureIsWhole
    NothingLeavesUntold
    OnlyLocalRepliesAreLost
PROPERTIES
    AnsweredOnce
    ForwardingEnds
CHECK_DEADLOCK FALSE
