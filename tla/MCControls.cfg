SPECIFICATION ControlsSpec
CONSTANTS
    Pauses <- MCPauses
    Headed <- MCPauses
    Platforms = {"wails", "browser"}
    ApiCalls = {"start", "toggleFavorite"}
    Topics = {"wrapped", "named"}
    MaxBreaks = 2
    MaxMounts = 2
    Devices = {"d1"}
    Targets <- MCTargets
    MaxRuns = 2
    MaxCalls = 2
    MaxPolls = 1
    MaxFlips = 2
    Serials = {"d1", "d2"}
    Phones = {"p1", "p2"}
    MaxPlugs = 1
    MaxPicks = 3
    MaxFetches = 2
INVARIANTS
    ControlsTypeOK
    AdapterIsExact
PROPERTIES
    DeskKeepsContract
    UserIsInControl
    ShownComesTrue
    NothingStaysBusy
CHECK_DEADLOCK FALSE
