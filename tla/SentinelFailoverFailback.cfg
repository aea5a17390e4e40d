CONSTANTS
    Sentinels = {s1, s2, s3}
    Starters = {s1, s2}
    Instances = {m0, a, b}
    M0 = m0
    None = None
    quorum = 1
    Overlap = FALSE
    Failback = TRUE
    MaxEpoch = 2
    MaxEvents = 1
SPECIFICATION Spec
SYMMETRY Symmetry
INVARIANT SameEpochSameMaster
CHECK_DEADLOCK FALSE
