SPECIFICATION FairSpec
CONSTANTS
    a = a  b = b  c = c  d = d
    rA = rA  rA2 = rA2  rB = rB  rC = rC  rD = rD
    rBad = rBad  rOut = rOut  rDenied = rDenied  rPrivate = rPrivate
    Raw <- MCRaw
    Url <- MCUrl
    Host <- MCHost
    Domain <- MCDomain
    NoUrl = NoUrl
    Parses <- MCParses
    UrlOf <- MCUrlOf
    HostOf <- MCHostOf
    DomainsOf <- MCDomainsOf
    NamedHost = {"site", "ads.site", "other"}
    PrivateHost = {"10.0.0.1"}
    AllowedDomains = {"site", "10.0.0.1"}
    DeniedDomains = {"ads.site"}
    AllowLoopback = FALSE
    MaxDepth = 2
    MaxPages = 3
    NoDepth = NoDepth
    Content <- MCContent
    LinkLists <- MCLinkLists
    Extractable = {"hub", "leaf"}
    SeedPlans <- MCSeedPlans
    Modes = {"legacy", "s3", "s6"}
    ObeyRobots = TRUE
    NoItem = NoItem
INVARIANTS
    TypeOK
    EachUrlOneFate
    FetchWithinBudget
    BreadthFirst
    LogReconstructsFrontier
    StopReasonTruthful
    EvidenceReplayable
    AdmittedAtShortestDepth
PROPERTIES
    EachUrlOnce
    RunEnds
