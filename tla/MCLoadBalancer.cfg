CONSTANTS
    r1 = r1
    r2 = r2
    s1 = s1
    s2 = s2
    Handlers = {h1}
    Replicas = {r1, r2}
    Services = {s1, s2}
    ServiceOf <- MCServiceOf
    Discoverer = Discoverer
    NoService = NoService
    NoReplica = NoReplica

SPECIFICATION FairBalancerSpec

INVARIANTS
    BalancerTypeOK
    RefusalIsJustified

PROPERTIES
    StopsRefusing
    StopsRouting
