\* Requests, a scan and polls in any order, and persists that overlap.
SPECIFICATION Spec
CONSTANTS
    m1 = m1
    m2 = m2
    absent = absent
    noname = noname
    p1 = p1
    nopool = nopool
    u1 = u1
    s1 = s1
    Hosts = {m1, m2}
    Absent = absent
    Names = {noname}
    NoName = noname
    Pools = {p1}
    NoPool = nopool
    ConfigPool = p1
    Handlers = {u1}
    Scanners = {s1}
    Polled = {m1}
    OfflineAfter = 2
    SavesFail = TRUE
    Restarts = TRUE
INVARIANTS AlertsTellTheState ScanAccounts StoredIsCurrent
PROPERTIES OutageReported
