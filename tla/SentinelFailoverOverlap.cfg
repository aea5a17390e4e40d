CONSTANTS
    Sentinels = {s1, s2, s3}
    Starters = {s1, s2}
    Instances = {m0, a, b}
    M0 = m0
    None = None
    quorum = 1
    Overlap = TRUE
    Failback = FALSE
    MaxEpoch = 2
    MaxEvents = 1
SPECIFICATION Spec
SYMMETRY Symmetry
INVARIANT LeaderHasMajority
CHECK_DEADLOCK FALSE
