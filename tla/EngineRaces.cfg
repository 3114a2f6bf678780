\* Switches, restores and changes of pool and payout in any order, with restarts.
SPECIFICATION Spec
CONSTANTS
    h1 = h1
    tick = tick
    s1 = s1
    noproc = noproc
    a1 = a1
    a2 = a2
    x1 = x1
    x2 = x2
    d1 = d1
    none = none
    Handlers = {h1}
    Tick = tick
    Requests = {"engine", "external", "pool", "settings"}
    Slots = {s1}
    NoProc = noproc
    Payouts = {a1, a2}
    ExtPools = {x1, x2}
    Addresses = {d1}
    NoPool = none
    BackoffInitial = 1
    BackoffMax = 1
    HostMoves = FALSE
    Restarts = TRUE
    SavesFail = FALSE
INVARIANTS PaysCurrentAddress ExtNotEngine
PROPERTIES SwitchBack
SYMMETRY Alike
