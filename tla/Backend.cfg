CONSTANTS
    j1 = j1  j2 = j2  tok = tok  c1 = c1  c2 = c2  all = all  tickTok = tickTok
    blob = blob  said1 = said1  said2 = said2  w1 = w1  w2 = w2
    Jobs = {j1, j2}
    Tokens = {tok}
    Wallets = {w1}
    Clients = {c1, c2}
    Topics = {all, tickTok}
    Everything = all
    topicsOf <- MCTopicsOf
    prefixOf <- MCPrefixOf
    covers <- MCCovers
    tickTopic <- MCTickTopic
    Blobs = {blob, said1}
    TurnBlobs = {said1}
    rootOf <- MCRootOf
    sizeOf <- MCSizeOf
    None = None
    MaxClients = 2  MaxMissed = 1
    MaxEntries = 2  MaxBytes = 2
    MaxKeys = 2  HistoryLimit = 1  StoreLimit = 1
    MaxSweeps = 1  MaxRequests = 3  MaxFaults = 1
SPECIFICATION FairSpec
INVARIANTS TypeOK SlotIsRun IndexIsClients KeyKept CacheBounded
PROPERTY TickSettles
CHECK_DEADLOCK FALSE
