SPECIFICATION Spec
CONSTANTS
    a1 = a1  a2 = a2  x1 = x1  x2 = x2
    Agents <- MCAgents  Actions <- MCActions  ActionValue <- MCActionValue
    Roots <- MCRoots
    Limits = {2}  Expiries = {0, 1}  Deposits = {2}
    DayLength = 2  MaxTime = 4  MaxNative = 4
INVARIANTS TrackedIsSum TrackedIsThere OneShot DayLimit
CHECK_DEADLOCK FALSE
