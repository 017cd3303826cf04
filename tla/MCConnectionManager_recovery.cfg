\* A steady bridge after any history.
SPECIFICATION FairSpec
CONSTANTS
    s1 = s1  s2 = s2  s3 = s3  b1 = b1  b2 = b2
    None = None
    Socks = {s1, s2}
    Bridges = {b1}
    MaxFailures = 1
    Discoveries <- TheDiscoveries
    MaxPending = 1
    MaxPings = 1
    MaxAsked = 1
    Retries = FALSE
    Disconnects = FALSE
PROPERTIES
    RelayComesBack
