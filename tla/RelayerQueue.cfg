CONSTANTS
    u1 = u1
    Wallets <- MCOneUser
    MaxInflight = 2
    BatchMax = 1
    MaxRecords = 3
    MaxRelays = 1
    MaxCalls = 1
    MaxScans = 2
    MaxRestarts = 1
SPECIFICATION FairQueueSpec
INVARIANTS
    InflightBounded
    ConfirmedWasRelayed
PROPERTIES
    RelayedFreesSlot
CHECK_DEADLOCK FALSE
