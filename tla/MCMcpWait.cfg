SPECIFICATION FairSpec
CONSTANTS
    c1 = c1
    c2 = c2
    peer = peer
    Clients = {c1, c2}
    Sources = {peer}
    Loads <- WaitLoads
    AllowLegacyClients = TRUE
    MaxConcurrent = 1
    Rate = 1
    Burst = 2
    IdleFloor = 0
    Timeout = 1
    Asked = 3
    MaxWait = 2
    DrainTime = 1
    Window = 2
    NoBucket = NoBucket
    Forever = Forever
INVARIANT McpWaitRunsFull
