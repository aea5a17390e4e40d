CONSTANTS
    Sentinels = {s1, s2, s3}
    Starters = {s1, s2}
    Instances = {m0, a, b}
    M0 = m0
    None = None
    quorum = 1
    Overlap = FALSE
    Failback = FALSE
    MaxEpoch = 2
    MaxEvents = 1
SPECIFICATION Spec
SYMMETRY Symmetry
INVARIANTS
    TypeOK
    OneVotePerEpoch
    LeaderHasMajority
    SameEpochSameMaster
PROPERTY
    ConfigNeverGoesBack
CHECK_DEADLOCK FALSE
