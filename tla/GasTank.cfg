CONSTANTS
    u1 = u1
    u2 = u2
    Users <- MCUsers
    Amounts = {2}
    GasPrices = {1}
    GasMeasures = {0, 1, 2}
    GasGrants = {1}
    GrantCaps = {2}
    OpCaps = {2}
    DailyLimits = {0, 2}
    MaxWei = 4
    MaxDay = 2
    MaxNonce = 1
SPECIFICATION Spec
SYMMETRY UserSymmetry
INVARIANTS
    TotalIsSumOfTanks
    Solvent
    GrantsAreSpendOnly
    DailyCeiling
    AdmittedIsCovered
PROPERTIES
    ImplementsLedger
