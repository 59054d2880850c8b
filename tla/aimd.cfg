SPECIFICATION Spec
CONSTANTS
    c1 = c1  c2 = c2  c3 = c3
    Call = {c1, c2, c3}
    Bucket = {listing}
    MaxConcurrency = 2
    MinRate = 1
    InitRate = 2
    MaxRate = 4
    Additive = 3
    Factor = 2
    Threshold = 2
    Cooldown = 1
    Jitter = 1
    Period = 4
    Floors <- MCFloors
    RetryAfters = {0, 4}
    Longest = 4
    HelperReleases = FALSE
SYMMETRY Symmetry
INVARIANTS
    SlotsConserved
PROPERTIES
    NeverFasterThanFloor
    RetryAfterRespected
