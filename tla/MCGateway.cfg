\* Two handlers, two keys: one call a minute each, two together, one a day.
CONSTANTS
    h1 = h1  h2 = h2  k1 = k1  k2 = k2
    Handlers = {h1, h2}
    Keys = {k1, k2}
    Instance = Instance
    Idle = Idle
    PerMin = 1
    InstancePerMin = 2
    PerDay = 1
    Minute = 1
    Day = 2
    Endpoints = {"query", "oracle"}
    Configs <- MCConfigs
    MaxTime = 2
    MaxCalls = 4
SYMMETRY CallerSymmetry
SPECIFICATION Spec
INVARIANTS TypeOK BoundedOvershoot  
PROPERTIES RefusalsJustified
CHECK_DEADLOCK FALSE
