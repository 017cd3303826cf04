\* Every operation and callback, in any order.
SPECIFICATION Spec
CONSTANTS
    s1 = s1  s2 = s2  s3 = s3  b1 = b1  b2 = b2
    None = None
    Socks = {s1, s2}
    Bridges = {b1, b2}
    MaxFailures = 2
    Discoveries <- AllDiscoveries
    MaxPending = 1
    MaxPings = 1
    MaxAsked = 1
    Retries = TRUE
    Disconnects = TRUE
SYMMETRY SockSymmetry
INVARIANTS
    TypeOK
    NoForgottenSocket
    BackoffOnlyWithoutRelay
    TimersBelongToRelay
    UnstableLinkCounts
