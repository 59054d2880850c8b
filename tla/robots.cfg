SPECIFICATION Spec
CONSTANTS
    t1 = t1
    t2 = t2
    t3 = t3
    p1 = p1
    p2 = p2
    Thread = {t1, t2, t3}
    Proc = {p1, p2}
    ProcOf <- SharedFiles
    Ttl = 2
    FailureTtl = 1
    RobotsUrl = {"home", "private"}
    Home = "home"
    Refused = {"private"}
    Served <- DenyMissingError
    MaxRedirects = 1
    MaxCrashes = 1
SYMMETRY SameProcess
 
PROPERTIES FetchOnce LockGivenBack
