CONSTANTS
    a1 = a1  u1 = u1  u2 = u2  t1 = t1  t2 = t2
    Agents = {a1}
    Users = {u1, u2}
    Delegations <- MCDelegations
    NoDelegation = NoDelegation
    Targets = {t1, t2}
    Values = {0, 1, 2}
    MaxTime = 6
SPECIFICATION Spec
INVARIANTS EndedStaysEnded WindowHonoured
CHECK_DEADLOCK FALSE
