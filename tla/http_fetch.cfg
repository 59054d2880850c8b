SPECIFICATION Spec
CONSTANTS
    Adapter = {f1, f2}
    r1 = r1
    r2 = r2
    Run = {r1, r2}
    Assignments <- MCAssignments
    Scenarios <- MCScenarios
    Url = {"a", "x", "q", "b", "h", "o"}
    Target <- MCTarget
    HasCredentials = {f1}
    OriginOf <- MCOriginOf
    PathOf <- MCPathOf
    SiteOf <- MCSiteOf
    FinalUrl <- MCFinalUrl
    HttpsUrl = {"a", "x", "q", "b", "o"}
    PrivateUrl = {"o"}
    Allowlist = {"A"}
    AllowPrivate = FALSE
    ConfigAllowlist <- MCConfigAllowlist
    ConfigAllowPrivate = {f1}
    SizeBudget = 1
    Disallowed = {"x"}
    Prohibited = {"q"}
    MaxRedirects = 1
    MaxAttempts = 2
    MaxCookies = 1
    MaxEntries = 1
    MaxEntryBytes = 1
    MaxTotalBytes = 1
    SetCookies <- MCSetCookies
    SizeOfVersion <- MCSize
    DateOfVersion <- MCDate
    Locations = {"a", "x", "q", "b", "h", "o", "missing", "unparseable"}
    Changing = {"a"}
    MaxNow = 1
INVARIANTS CredentialsStayHome CookiesStayInScope OnlyPermittedRequests EvidenceComplete HintIsOwn BodyIsCurrent
PROPERTIES StepsShrink
CHECK_DEADLOCK FALSE
