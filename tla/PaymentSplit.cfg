SPECIFICATION OpsSpec
CONSTANTS
    u1 = u1  u2 = u2  a1 = a1  tA = tA  tB = tB
    NoUser = NoUser  NoToken = NoToken
    Users <- MCUsers  Agents <- MCAgents  Tokens <- MCTokens
    creatorOf <- MCCreatorOf  FirstToken = tA
    FirstFeeBps = 10000
    MaxHeld = 4  MaxShares = 4
    PayAmounts = {1, 2, 3, 4}
    LiquidityAmounts = {}  SwapAmounts = {}  BorrowAmounts = {}
    FeeChoices = {0, 2500, 5000}  RoyaltyChoices = {0, 2500, 7500, 10000}  CapChoices = {0, 2}
    RatioChoices = {0, 1}  SwapFeeChoices = {30}  FactorChoices = {}
INVARIANTS OutstandingIsSum SplitHonoursBoth
CHECK_DEADLOCK FALSE
