SPECIFICATION Spec
CONSTANTS
    a1 = a1
    a2 = a2
    Pids = {p1, p2}
    Apps = {a1, a2}
    Preinstalled = {a1, a2}
    Launcher = Launcher
    None = None
    MaxRule = 2
    main = main
    render = render
    Names = {main, render}
    Crews <- MCCrews
    Pattern = Pattern
    RuleFor <- MCRuleFor
    Starts <- MCStarts
    Configs <- MCConfigs
    WaylayTables <- MCWaylay
INVARIANTS
    TypeOK
    RecordsWatched
    SwitchAccounted
    ForegroundBound
SYMMETRY ProcessSymmetry
CHECK_DEADLOCK FALSE
