SPECIFICATION Spec
CONSTANTS
    Clients = {c1, c2}
    Lively = {c1}
    Cap = 2
    Keep = 2
    Adders = {"poll", "monitor", "auth"}
    Keys <- MCKeys
    HistLen = 2
    MaxSamples = 3
    None = None
    Handlers = {h1, h2}
    Passwords = {p1, p2}
    NoPassword = NoPassword
    Tokens = {t1, t2}
    MaxBest = 2
    Budget <- MCBudget
INVARIANTS TypeOK FeedKeepsNewest AlertsAccounted MonitorFaithful CandidateOnce AuthSound
PROPERTIES StreamLives
