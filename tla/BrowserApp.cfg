CONSTANTS
    me = me  them = them  o1 = o1  o2 = o2
    Kinds = {"transfer", "payment", "vault", "mint", "tick", "chat"}
    Ops = {o1, o2}
    Users = {me, them}
    Owner = me
    None = None
    MaxSent = 2
    MaxRows = 1
    MaxWork = 2
    MaxAttempts = 1
    t1 = t1  t2 = t2
    Threads = {t1, t2}
    CallLists <- MCCallLists
    MaxToolLoops = 2
    MaxQueue = 1
    MaxMessages = 2
SPECIFICATION FairSpec
INVARIANTS TypeOK RowsTellTheChain ProofsAreAccepted OneAtATime
           ThreadKeepsItsOwn CallsAnswered
PROPERTY RowSettles
CHECK_DEADLOCK FALSE
