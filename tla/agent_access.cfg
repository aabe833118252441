SPECIFICATION Spec
CONSTANTS
    a = a
    b = b
    o1 = o1
    None = None
    Owners = {a, b}
    Operators = {o1}
    Expiries = {0, 1}
    Limits <- MCLimits
    Batches <- MCBatches
    MaxTime = 2
    MaxEpoch = 1
    MaxEvents = 5
    Requests = {1, 2}
    Challenges = {1}
    ChallengeTtl = 1
    RequestTtl = 0
    NonceTtl = 1
    ConnectionTtl = 1
    SessionTtl = 1
    OwnerSessionTtl = 1
INVARIANTS SpentWithinWindow ChallengeOnce ServedWhileEntitled
PROPERTIES PresentOwnerGranted
SYMMETRY MCSymmetry
CHECK_DEADLOCK FALSE
