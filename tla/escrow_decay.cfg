SPECIFICATION Spec
CONSTANTS
    u1 = u1
    u2 = u2
    None = None
    Users = {u1, u2}
    Amounts = {5}
    Durations = {2, 4}
    MaxAmount = 10
    Week = 2
    MaxLock = 4
    Bps = 10
    FeeBps = 4
    RewardShareBps = 6
    Deployed = 1
    MaxTime = 3
    MaxTokens = 2
SYMMETRY MCSymmetry
INVARIANT VotesAreDecay
CHECK_DEADLOCK FALSE
