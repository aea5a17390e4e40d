CONSTANTS
    Masters = {m1, m2, m3}
    Slaves = {s1, s2}
    LateVotes = FALSE
    WriteBeforeSave = TRUE
    MaxEpoch = 1
    MaxFaults = 1
SPECIFICATION Spec
SYMMETRY Symmetry
INVARIANT OneVotePerEpoch
CHECK_DEADLOCK FALSE
