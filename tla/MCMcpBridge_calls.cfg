\* Two calls with one JSON-RPC id, two browsers that come and go.
SPECIFICATION FairSpec
CONSTANTS
    A = A  B = B  k1 = k1  k2 = k2  m1 = m1  m2 = m2  one = one
    None = None
    Calls = {k1, k2}
    Clients = {m1, m2}
    ClientOf <- MCClientOf
    ToolOf <- MCToolOf
    RpcId <- MCRpcId
    Browsers = {A, B}
    Brand <- MCBrand
    Targets <- MCTargets
    MaxRows = 2
INVARIANTS TypeOK MapHoldsWhatWaits RowsAreTrue
PROPERTIES KeepsPromise EveryCallIsAnswered
