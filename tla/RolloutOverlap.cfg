\* Two rollouts on two miners, one after the other or overlapping.
SPECIFICATION Spec
CONSTANTS
    r1 = r1
    r2 = r2
    NoRollout = NoRollout
    Rollouts = {r1, r2}
    Hosts = {1, 2}
    MaxDevices = 2
    RepeatedHosts = FALSE
    ConcurrentStarts = TRUE
INVARIANTS BadImageCostsOneMiner OkMeansRebooted
SYMMETRY Callers
VIEW Relevant
