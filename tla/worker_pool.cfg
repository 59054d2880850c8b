SPECIFICATION Spec
CONSTANTS
    WorkerCount = 2
    WorkLists <- MCWorkLists
    MaxWindow = 2
    MaxRuns = 2
    MaxDeaths = 2
INVARIANT SettledOnce
PROPERTY RunReturns
CHECK_DEADLOCK FALSE
