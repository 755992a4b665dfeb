SPECIFICATION PagesSpec
CONSTANTS
    Foreign <- NoExchanges
    Earlier <- MCEarlier
    Captured <- MCCaptured
    Streams <- MCStreams
    Limits <- MCLimits
    Limit0 = 2
    Threshold = 1
    MaxFrames = 1
    Bounds <- MCBounds
    Rules <- MCRules
    Template = 2
    Defaults <- MCDefaults
    Scenes <- MCDialogs
    MaxSaves = 2
    MaxOthers = 1
    AutoStartup = {TRUE, FALSE}
    MaxClicks = 2
    MaxFlows = 2
    Captures <- MCCaptures
    Texts <- MCTexts
    MaxRows = 2
    MaxEnvs = 3
    MaxOpenings = 2
    MaxSends = 1
    Exchanges <- MCExchanges
    Files <- MCFileSets
    Collapses = {TRUE}
    MaxEdits = 1
    Bunches <- MCBunches
    Patterns <- MCPatterns
    MaxTyped = 2
    MaxDigests = 2
    MaxSockets = 2
    MaxListed = 1
    Answers = {"graphql"}
    MaxFields = 1
    Recorded = {1, 2}
    MaxSessions = 3
    MaxAsks = 4
    Shapes <- MCShapes
    MaxTraffic = 2
    MaxFiles = 1
    Calls <- MCCalls
    MaxEffects = 3
    MaxLinesSent = 1
    MaxLines = 1
INVARIANTS
    PagesTypeOK
    ListIsUpToDate
    PagesAreTrue
    ComposerIsTrue
PROPERTIES
    ListsAreTrue
    SettingsAreTrue
CHECK_DEADLOCK FALSE
