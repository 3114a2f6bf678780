\* The gateway processes under changes of settings, crashes, late exits and
\* failing saves, on a machine whose address comes and goes.
SPECIFICATION Spec
CONSTANTS
    h1 = h1
    tick = tick
    s1 = s1
    s2 = s2
    noproc = noproc
    a1 = a1
    d1 = d1
    none = none
    Handlers = {h1}
    Tick = tick
    Requests = {"settings"}
    Slots = {s1, s2}
    NoProc = noproc
    Payouts = {a1}
    ExtPools = {}
    Addresses = {d1}
    NoPool = none
    BackoffInitial = 1
    BackoffMax = 2
    HostMoves = TRUE
    Restarts = FALSE
    SavesFail = TRUE
INVARIANTS NoOrphan BackoffBounded
PROPERTIES GatewayFollows
