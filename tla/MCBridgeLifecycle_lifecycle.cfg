\* Processes of one machine, one profile, the helper and the installer.
SPECIFICATION FairSpec
CONSTANTS
    None = None  Torn = Torn
    MaxPid = 3
    MaxAutoAttempts = 2
    MaxCalls = 2
    Pids <- MCPids
    Profiles = {x}
\* Once calm and served, nothing need happen any more.
CHECK_DEADLOCK FALSE
INVARIANTS LockIsHonest
PROPERTIES LockKeptWhileServing BridgeComesBack
