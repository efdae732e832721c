CONSTANTS
    me = me  them = them  o1 = o1
    Kinds = {"transfer"}
    Ops = {o1}
    Users = {me, them}
    Owner = me
    None = None
    MaxSent = 2
    MaxRows = 1
    MaxWork = 4
    MaxAttempts = 2
    t1 = t1  t2 = t2  o2 = o2
    Threads = {t1, t2}
    CallLists <- MCCallLists
    MaxToolLoops = 2
    MaxQueue = 1
    MaxMessages = 2
SPECIFICATION Spec
INVARIANT SubmittedProofMatches
CHECK_DEADLOCK FALSE
