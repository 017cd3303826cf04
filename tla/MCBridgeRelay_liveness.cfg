\* Everything that waits ends.
SPECIFICATION FairSpec
CONSTANTS
    A = A  B = B  Probed = Probed
    s1 = s1  s2 = s2  s3 = s3
    r1 = r1  r2 = r2  c1 = c1  c2 = c2
    None = None
    Socks = {s1, s2}
    Ids = {A}
    HelperProbe = Probed
    Brand <- MCBrand
    UrlParams <- AllRanks
    Requests = {r1}
    Clients = {c1}
    ClientOf <- OneClient
    Targets = {A, "default"}
CHECK_DEADLOCK FALSE
PROPERTIES
    NewcomerDecided
    RequestSettles
    WedgedRelayIsClosed
    GracedIsClosed
