CONSTANTS
    Masters = {m1, m2}
    Slaves = {s1, s2}
    LateVotes = TRUE
    WriteBeforeSave = FALSE
    MaxEpoch = 2
    MaxFaults = 0
SPECIFICATION Spec
SYMMETRY Symmetry
INVARIANT WinnerHasMajority
CHECK_DEADLOCK FALSE
