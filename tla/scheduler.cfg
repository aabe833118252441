SPECIFICATION Spec
CONSTANTS
    i1 = i1
    i2 = i2
    a1 = a1
    None = None
    Invocations = {i1, i2}
    Agents = {a1}
    Tasks = {1}
    To <- MCTo
    TaskLimit = 1
    Concurrency = 1
    FirstHead = 1
    MaxHead = 2
    Lookback = 1
    MaxBlocks = 1
    Reserves = 1
    MaxFailures = 1
INVARIANTS EventsComplete AggregateHasRows
PROPERTIES BlocksIndexed TasksClose
