SPECIFICATION Spec
CONSTANTS
    a = a
    b = b
    None = None
    Executor = Executor
    Accounts = {a, b}
    Tokens = {1, 2}
    Traded = {1}
    InitialHolder <- MCInitialHolder
    Recipients = {Executor, a}
    Overrides = {2}
    Powers <- MCPowers
    Deposits = {2}
    MaxFunded = 4
    MaxEpoch = 2
    MaxManifests = 2
INVARIANTS BudgetsReserved Solvent AllocationsPayable PaidIsAllocation SelfRepayOwnerCurrent AllocationExact ProofsExact
PROPERTIES ActiveRootFixed ManifestsAdvance QueuedEpochActivates
