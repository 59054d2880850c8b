SPECIFICATION Spec
CONSTANTS
    c1 = c1
    c2 = c2
    c3 = c3
    Caller = {c1, c2, c3}
    Extractors = {c3}
    Cap = 2
    Estimates = {1, 2}
    MaxUsage = 2
    MaxAttempts = 2
    MaxCalls = 2
INVARIANT EveryAnswerMetered
CHECK_DEADLOCK FALSE
