SPECIFICATION Spec
CONSTANTS
    a = a  b = b  c = c
    rA = rA  rB = rB  rC = rC
    Raw = {rA, rB, rC}
    Url = {a, b, c}
    Host = {"site"}
    Domain = {"site"}
    NoUrl = NoUrl
    Parses = {rA, rB, rC}
    UrlOf <- MCUrlOf
    HostOf <- MCHostOf
    DomainsOf <- MCDomainsOf
    NamedHost = {"site"}
    PrivateHost = {}
    AllowedDomains = {"site"}
    DeniedDomains = {}
    AllowLoopback = TRUE
    MaxDepth = 1
    MaxPages = 2
    NoDepth = NoDepth
    Scale = 2
    HintLists <- MCHintLists
    MaxHints = 3
    MaxEvents = 5
PROPERTIES
    PopsBest
    EachUrlOnce
CHECK_DEADLOCK FALSE
