\* The engine is disabled while the tick switches the fleet to it.
SPECIFICATION Spec
CONSTANTS
    h1 = h1
    tick = tick
    s1 = s1
    noproc = noproc
    a1 = a1
    x1 = x1
    d1 = d1
    none = none
    Handlers = {h1}
    Tick = tick
    Requests = {"settings", "engine", "external", "pool"}
    Slots = {s1}
    NoProc = noproc
    Payouts = {a1}
    ExtPools = {x1}
    Addresses = {d1}
    NoPool = none
    BackoffInitial = 1
    BackoffMax = 1
    HostMoves = FALSE
    Restarts = FALSE
    SavesFail = FALSE
INVARIANTS DisabledReleasesFleet
