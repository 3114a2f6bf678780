\* Two jobs of each mix of kinds, power cuts and restarts at any time.
SPECIFICATION Spec
CONSTANTS
    MaxJobs = 2
    MaxVersion = 1
    Gone = Gone
    Empty = Empty
    Keys <- MCKeys
    Vals <- MCVals
    Submissions <- MCSubmissions
    Rejected <- MCRejected
    Refused <- MCRefused
    FirstConf <- MCFirst
    Units <- MCUnits
    Mixes <- MCMixes
INVARIANTS JobsHonest NodeSurvives InstalledWhole
PROPERTIES JobsWhole JobsSpec QueueDrains
\* All jobs are over and nothing is left to do.
CHECK_DEADLOCK FALSE
