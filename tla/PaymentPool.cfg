SPECIFICATION OpsSpec
CONSTANTS
    u1 = u1  u2 = u2  a1 = a1  tA = tA  tB = tB
    NoUser = NoUser  NoToken = NoToken
    Users <- MCUsers  Agents <- MCAgents  Tokens <- MCTokens
    creatorOf <- MCCreatorOf  FirstToken = tA
    FirstFeeBps = 2500
    MaxHeld = 4  MaxShares = 4
    PayAmounts = {2}
    LiquidityAmounts = {1, 2}  SwapAmounts = {1}  BorrowAmounts = {1}
    FeeChoices = {}  RoyaltyChoices = {}  CapChoices = {}
    RatioChoices = {}  SwapFeeChoices = {}  FactorChoices = {8000}
INVARIANT ClaimsBacked
PROPERTY ProductPerShareKept
CHECK_DEADLOCK FALSE
