\* One rollout over up to three entries on three miners, repeated hosts included.
SPECIFICATION Spec
CONSTANTS
    r1 = r1
    NoRollout = NoRollout
    Rollouts = {r1}
    Hosts = {1, 2, 3}
    MaxDevices = 3
    RepeatedHosts = TRUE
    ConcurrentStarts = FALSE
INVARIANTS CanaryGate TruthfulReport
PROPERTIES NoUploadAfterCancel RolloutEnds StagedSpec
