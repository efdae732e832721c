CONSTANTS
    l1 = l1  note = note  kA = kA  kB = kB  resync = resync
    Logs = {l1, note}
    Kinds = {kA, kB}
    kindOf <- MCKindOf
    Resync = resync
    Cap = 1
    Foreign = {note}
    Window = 2
    SafeDepth = 1
    StartBlock = 0
    MaxHead = 4  MaxForks = 1  MaxDepth = 2
    MaxFailures = 1
SPECIFICATION FairIndexerSpec
INVARIANTS IndexerTypeOK SeenIsStored NoGap
PROPERTY CursorCatchesUp
CHECK_DEADLOCK FALSE
