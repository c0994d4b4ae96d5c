CONSTANTS
    s1 = s1
    n1 = n1
    n2 = n2
    Classes = {c1, c2}
    Own = c1
    Scopes = {s1, s2}
    Rules = {c1, c2}
    Clients = {r1, r2}
    MaxRequests = 2
    Flows = {1, 2}
    MaxUploads = 1
    MaxTime = 3
    MaxCalls = 3
    Computers = {c1, c2}
    Joins = {1, 2}
    Names = {1, 2}
    Databases = {"sqlite", "mysql"}
    MaxUses = 2
    MaxRemovals = 1
    MaxIssues = 2
    MaxEvents = 2
    MaxFaults = 1
SPECIFICATION FairSpec
CHECK_DEADLOCK FALSE
INVARIANTS
    JoinKept
    
    Settled
    CertsHeal
    PageAgrees
    LoopsCareful
PROPERTIES
    HostFollows
    Converges
    DefaultStays
    BoxStays
    DomainsStay
    CertificateStays
    PartsSettle
