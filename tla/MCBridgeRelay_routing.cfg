\* Two profiles and the helper probe: routing, fan-out, two clients.
SPECIFICATION Spec
CONSTANTS
    A = A  B = B  Probed = Probed
    s1 = s1  s2 = s2  s3 = s3
    r1 = r1  r2 = r2  c1 = c1  c2 = c2
    None = None
    Socks = {s1, s2}
    Ids = {A, B, Probed}
    HelperProbe = Probed
    Brand <- MCBrand
    UrlParams <- TwoProfiles
    Requests = {r1, r2}
    Clients = {c1, c2}
    ClientOf <- TwoClients
    Targets <- RoutingTargets
CHECK_DEADLOCK FALSE
SYMMETRY SockSymmetry
INVARIANTS
    ProbesMatchRequests
PROPERTIES
    SettledIsFinal
