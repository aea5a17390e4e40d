CONSTANTS
    Masters = {m1, m2}
    Slaves = {s1, s2}
    LateVotes = FALSE
    WriteBeforeSave = FALSE
    MaxEpoch = 2
    MaxFaults = 1
SPECIFICATION Spec
SYMMETRY Symmetry
INVARIANTS
    TypeOK
    WinnersHaveDistinctEpochs
    WinnerHasMajority
    OneVotePerEpoch
    VoteIsDurable
CHECK_DEADLOCK FALSE
