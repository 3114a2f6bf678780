\* Two calls on two miners, in any order and with any outcome.
SPECIFICATION Spec
CONSTANTS
    c1 = c1
    c2 = c2
    None = None
    Calls = {c1, c2}
    h1 = h1
    h2 = h2
    Hosts = {h1, h2}
    Tunings <- MCTunings
    Urls = {"a", "b"}
    Asics = {"BM1366", "BM1370"}
    PresetIDs = {"eco", "standard"}
    Standard = "standard"
    Swaps = TRUE
    FirstAsic = "BM1366"
    FirstPool <- MCFirst
    Tuned = {h1}
    Pools <- MCPools
    Lists <- MCLists
INVARIANTS ReportsTrue PairsMatch NothingPending
SYMMETRY Symmetry
