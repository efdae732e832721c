---------------------------- MODULE PaymentProcessor ----------------------------
(***************************************************************************)
(* AxiomPaymentProcessor: the pay lanes that split a payment between an    *)
(* agent's creator and the treasury, the creators' withdrawable earnings,  *)
(* and the two-token pool with lending that keeps its reserves in the same *)
(* token balances.  Every external call is one transaction, so one action. *)
(*                                                                         *)
(* Tokens are plain ERC-20s: what is sent arrives, and anyone may mint or  *)
(* send tokens to the contract (Mint), as with the testnet tokens.  Payers *)
(* have what they pay: their wallets are not kept.  Arithmetic is checked: *)
(* a subtraction that would go below zero reverts, which shows as a guard  *)
(* wherever no other guard already says so.                                *)
(***************************************************************************)
EXTENDS Integers, FiniteSets, Functions

CONSTANTS
    Users, Agents, Tokens,
    NoUser, NoToken,    \* address(0)
    creatorOf,          \* AxiomAgentNFT.creatorOf, frozen at mint
    FirstToken,         \* the payment token given to initialize
    FirstFeeBps,        \* the protocol fee given to initialize
    MaxHeld,            \* bound: tokens of a kind the contract ever holds
    MaxShares,          \* bound: liquidity shares
    PayAmounts, LiquidityAmounts, SwapAmounts, BorrowAmounts,   \* inputs
    FeeChoices, RoyaltyChoices, CapChoices, RatioChoices,       \* settings
    SwapFeeChoices, FactorChoices

BPS_DENOMINATOR == 10000

ASSUME PaymentAssumption ==
    /\ NoUser \notin Users /\ NoToken \notin Tokens
    /\ creatorOf \in [Agents -> Users \cup {NoUser}]
    /\ FirstToken \in Tokens
    /\ FirstFeeBps \in Nat /\ FirstFeeBps <= BPS_DENOMINATOR
    /\ MaxHeld \in Nat /\ MaxShares \in Nat
    /\ PayAmounts \subseteq Nat /\ LiquidityAmounts \subseteq Nat
    /\ SwapAmounts \subseteq Nat /\ BorrowAmounts \subseteq Nat
    /\ FeeChoices \subseteq Nat /\ RoyaltyChoices \subseteq Nat
    /\ CapChoices \subseteq Nat /\ RatioChoices \subseteq Nat
    /\ SwapFeeChoices \subseteq Nat /\ FactorChoices \subseteq Nat

\* An account is an address, and there are finitely many of them.
ASSUME UsersAssumption == IsFiniteSet(Users)

VARIABLES
    paymentToken, swapPairToken,
    held,                       \* balanceOf(address(this)) in each token
    agentEarnings, totalOutstandingEarnings,
    agentRoyaltyStored,         \* 0 = unset, else bps + 1
    protocolFeeBps, maxPayCap, computeRatioMax, paused,
    swapReserveA, swapReserveB, totalLpShares, lpShares,
    swapFeeBps, borrowFactorBps, borrowDebt

tokens == <<paymentToken, swapPairToken>>
earned == <<agentEarnings, totalOutstandingEarnings>>
settings == <<agentRoyaltyStored, protocolFeeBps, maxPayCap, computeRatioMax,
              paused, swapFeeBps, borrowFactorBps>>
reserves == <<swapReserveA, swapReserveB>>
lps == <<totalLpShares, lpShares>>
pool == <<reserves, lps, borrowDebt>>
vars == <<tokens, held, earned, settings, pool>>

TokensType ==
    /\ paymentToken \in Tokens
    /\ swapPairToken \in Tokens \cup {NoToken}

HeldType == held \in [Tokens -> Nat]

EarnedType ==
    /\ agentEarnings \in [Users -> Nat]
    /\ totalOutstandingEarnings \in Nat

RoyaltyType == agentRoyaltyStored \in [Agents -> 0..BPS_DENOMINATOR]

SettingsType ==
    /\ protocolFeeBps \in 0..BPS_DENOMINATOR
    /\ maxPayCap \in Nat /\ computeRatioMax \in Nat
    /\ paused \in BOOLEAN
    /\ swapFeeBps \in 0..1000 /\ borrowFactorBps \in 0..8000

ReservesType == swapReserveA \in Nat /\ swapReserveB \in Nat

SharesType == totalLpShares \in Nat /\ lpShares \in [Users -> Nat]

DebtType == borrowDebt \in [Users -> Nat]

TypeOK ==
    /\ TokensType /\ HeldType /\ EarnedType /\ RoyaltyType /\ SettingsType
    /\ ReservesType /\ SharesType /\ DebtType

Init ==
    /\ paymentToken = FirstToken
    /\ swapPairToken = NoToken
    /\ held = [t \in Tokens |-> 0]
    /\ agentEarnings = [u \in Users |-> 0]
    /\ totalOutstandingEarnings = 0
    /\ agentRoyaltyStored = [a \in Agents |-> 0]
    /\ protocolFeeBps = FirstFeeBps
    /\ maxPayCap = 0 /\ computeRatioMax = 0
    /\ paused = FALSE
    /\ swapReserveA = 0 /\ swapReserveB = 0
    /\ totalLpShares = 0
    /\ lpShares = [u \in Users |-> 0]
    /\ swapFeeBps = 0 /\ borrowFactorBps = 0
    /\ borrowDebt = [u \in Users |-> 0]

MinOf(a, b) == IF a <= b THEN a ELSE b

\* Math.sqrt rounds down: the one member of this set.
Roots(n) == {r \in 0..n : r * r <= n /\ n < (r + 1) * (r + 1)}

(***************************************************************************)
(* The pay lanes                                                           *)
(***************************************************************************)
WithinCap(amount) == amount > 0 /\ (maxPayCap = 0 \/ amount <= maxPayCap)

MaxRoyalty == BPS_DENOMINATOR - protocolFeeBps
EffectiveRoyalty(agent) == MinOf(agentRoyaltyStored[agent] - 1, MaxRoyalty)

MinProtocolCut(amount) == (amount * protocolFeeBps) \div BPS_DENOMINATOR

\* Mutant: the royalty as it was stored, whatever the fee has become since.
StoredRoyaltyCut(agent, amount) ==
    IF agentRoyaltyStored[agent] = 0
    THEN amount - MinProtocolCut(amount)
    ELSE (amount * (agentRoyaltyStored[agent] - 1)) \div BPS_DENOMINATOR

\* The creator gets its royalty, or all but the fee when none is set, and never
\* so much that the treasury is left with less than the fee.
CreatorCut(agent, amount) ==
    IF agentRoyaltyStored[agent] = 0
    THEN amount - MinProtocolCut(amount)
    ELSE MinOf((amount * EffectiveRoyalty(agent)) \div BPS_DENOMINATOR,
               amount - MinProtocolCut(amount))

\* The amount has come in, the treasury's part has gone out again.
PaySplit(agent, amount) ==
    LET creator == creatorOf[agent]
        cut == CreatorCut(agent, amount)
    IN  /\ WithinCap(amount)
        /\ creator # NoUser
        /\ held[paymentToken] + cut <= MaxHeld
        /\ held' = [held EXCEPT ![paymentToken] = @ + cut]
        /\ agentEarnings' = [agentEarnings EXCEPT ![creator] = @ + cut]
        /\ totalOutstandingEarnings' = totalOutstandingEarnings + cut

\* payForAgent and payForAgentWithPermit2 differ in who moves the tokens.
PayForAgent(agent, amount) ==
    /\ ~paused
    /\ PaySplit(agent, amount)
    /\ UNCHANGED <<tokens, settings, pool>>

\* The compute leg goes from the payer to the provider directly.
PayForAgentAndCompute(agent, amount, compute) ==
    /\ ~paused
    /\ computeRatioMax = 0 \/ compute <= computeRatioMax * amount
    /\ PaySplit(agent, amount)
    /\ WithinCap(compute)
    /\ UNCHANGED <<tokens, settings, pool>>

\* Mutant: the total is left as it was.
WithdrawUncounted(u) ==
    LET amount == agentEarnings[u]
    IN  /\ amount > 0
        /\ held[paymentToken] >= amount
        /\ agentEarnings' = [agentEarnings EXCEPT ![u] = 0]
        /\ held' = [held EXCEPT ![paymentToken] = @ - amount]
        /\ UNCHANGED <<totalOutstandingEarnings, tokens, settings, pool>>

\* Not gated by the pause.
WithdrawAgentEarnings(u) ==
    LET amount == agentEarnings[u]
    IN  /\ amount > 0
        /\ held[paymentToken] >= amount
        /\ totalOutstandingEarnings >= amount
        /\ agentEarnings' = [agentEarnings EXCEPT ![u] = 0]
        /\ totalOutstandingEarnings' = totalOutstandingEarnings - amount
        /\ held' = [held EXCEPT ![paymentToken] = @ - amount]
        /\ UNCHANGED <<tokens, settings, pool>>

(***************************************************************************)
(* Settings                                                                *)
(***************************************************************************)
SetRoyaltyBps(agent, bps) ==
    /\ creatorOf[agent] # NoUser
    /\ bps < BPS_DENOMINATOR /\ bps <= MaxRoyalty
    /\ agentRoyaltyStored' = [agentRoyaltyStored EXCEPT ![agent] = bps + 1]
    /\ UNCHANGED <<tokens, held, earned, protocolFeeBps, maxPayCap,
                   computeRatioMax, paused, swapFeeBps, borrowFactorBps, pool>>

SetProtocolFeeBps(bps) ==
    /\ bps < BPS_DENOMINATOR
    /\ protocolFeeBps' = bps
    /\ UNCHANGED <<tokens, held, earned, agentRoyaltyStored, maxPayCap,
                   computeRatioMax, paused, swapFeeBps, borrowFactorBps, pool>>

SetMaxPayCap(cap) ==
    /\ maxPayCap' = cap
    /\ UNCHANGED <<tokens, held, earned, agentRoyaltyStored, protocolFeeBps,
                   computeRatioMax, paused, swapFeeBps, borrowFactorBps, pool>>

SetComputeRatioMax(ratio) ==
    /\ computeRatioMax' = ratio
    /\ UNCHANGED <<tokens, held, earned, agentRoyaltyStored, protocolFeeBps,
                   maxPayCap, paused, swapFeeBps, borrowFactorBps, pool>>

SetSwapFeeBps(bps) ==
    /\ bps <= 1000
    /\ swapFeeBps' = bps
    /\ UNCHANGED <<tokens, held, earned, agentRoyaltyStored, protocolFeeBps,
                   maxPayCap, computeRatioMax, paused, borrowFactorBps, pool>>

SetBorrowFactorBps(bps) ==
    /\ bps <= 8000
    /\ borrowFactorBps' = bps
    /\ UNCHANGED <<tokens, held, earned, agentRoyaltyStored, protocolFeeBps,
                   maxPayCap, computeRatioMax, paused, swapFeeBps, pool>>

SetPaused ==
    /\ paused' = ~paused
    /\ UNCHANGED <<tokens, held, earned, agentRoyaltyStored, protocolFeeBps,
                   maxPayCap, computeRatioMax, swapFeeBps, borrowFactorBps, pool>>

\* Mutant: the balance of the old token is not looked at.
NothingEarned == totalOutstandingEarnings = 0

\* Nothing is owed to creators in the old token and none of it is left.
NothingLeft == totalOutstandingEarnings = 0 /\ held[paymentToken] = 0

SetPaymentToken(token) ==
    /\ NothingLeft
    /\ paymentToken' = token
    /\ UNCHANGED <<swapPairToken, held, earned, settings, pool>>

SetSwapPairToken(token) ==
    /\ token # paymentToken
    /\ swapReserveA = 0 /\ swapReserveB = 0 /\ totalLpShares = 0
    /\ swapPairToken' = token
    /\ UNCHANGED <<paymentToken, held, earned, settings, pool>>

(***************************************************************************)
(* The pool                                                                *)
(***************************************************************************)
Solvent ==
    /\ swapReserveA <= held[paymentToken]
    /\ swapPairToken # NoToken => swapReserveB <= held[swapPairToken]


\* Mutant: the larger of the two shares.
MostShares(a, b) == -MinOf(-((a * totalLpShares) \div swapReserveA),
                           -((b * totalLpShares) \div swapReserveB))

LaterShares(a, b) == MinOf((a * totalLpShares) \div swapReserveA,
                           (b * totalLpShares) \div swapReserveB)

\* Crediting liquidity: a division by an empty reserve reverts.
CreditLiquidity(to, a, b) ==
    /\ totalLpShares > 0 => swapReserveA > 0 /\ swapReserveB > 0
    /\ \E shares \in IF totalLpShares = 0 THEN Roots(a * b) ELSE {LaterShares(a, b)} :
        /\ shares > 0 /\ totalLpShares + shares <= MaxShares
        /\ totalLpShares' = totalLpShares + shares
        /\ lpShares' = [lpShares EXCEPT ![to] = @ + shares]
    /\ swapReserveA' = swapReserveA + a
    /\ swapReserveB' = swapReserveB + b
    /\ UNCHANGED <<tokens, earned, settings, borrowDebt>>

\* With one token on both sides the received amounts never match.
AddLiquidity(u, a, b) ==
    /\ ~paused /\ a > 0 /\ b > 0
    /\ swapPairToken \notin {NoToken, paymentToken}
    /\ held[paymentToken] + a <= MaxHeld
    /\ held[swapPairToken] + b <= MaxHeld
    /\ held' = [held EXCEPT ![paymentToken] = @ + a, ![swapPairToken] = @ + b]
    /\ CreditLiquidity(u, a, b)
    /\ Solvent'

\* The admin credits tokens the contract already holds; nothing tells tokens
\* minted for the pool from earnings or from reserves.
SeedSwapPool(to, a, b) ==
    /\ a > 0 /\ b > 0
    /\ swapPairToken # NoToken
    /\ a <= held[paymentToken] /\ b <= held[swapPairToken]
    /\ CreditLiquidity(to, a, b)
    /\ UNCHANGED held
    /\ Solvent'

RemoveLiquidity(u, shares) ==
    LET outA == (swapReserveA * shares) \div totalLpShares
        outB == (swapReserveB * shares) \div totalLpShares
    IN  /\ ~paused /\ shares > 0 /\ shares <= lpShares[u]
        /\ outA > 0 /\ outB > 0
        /\ shares <= totalLpShares /\ outA <= swapReserveA /\ outB <= swapReserveB
        /\ lpShares' = [lpShares EXCEPT ![u] = @ - shares]
        /\ totalLpShares' = totalLpShares - shares
        /\ swapReserveA' = swapReserveA - outA
        /\ swapReserveB' = swapReserveB - outB
        /\ held' = [t \in Tokens |-> held[t]
                        - (IF t = paymentToken THEN outA ELSE 0)
                        - (IF t = swapPairToken THEN outB ELSE 0)]
        /\ UNCHANGED <<tokens, earned, settings, borrowDebt>>
        /\ Solvent'

QuoteSwap(in, reserveIn, reserveOut) ==
    LET withFee == in * (BPS_DENOMINATOR - swapFeeBps)
    IN  (reserveOut * withFee) \div (reserveIn * BPS_DENOMINATOR + withFee)

\* The tokens exchanged through the pool.
Exchange(inToken, outToken, in, out) ==
    held' = [t \in Tokens |-> held[t] + (IF t = inToken THEN in ELSE 0)
                                      - (IF t = outToken THEN out ELSE 0)]

SwapAForB(in) ==
    LET out == QuoteSwap(in, swapReserveA, swapReserveB)
    IN  /\ ~paused /\ WithinCap(in) /\ swapPairToken # NoToken
        /\ held[paymentToken] + in <= MaxHeld
        /\ out <= swapReserveB
        /\ swapReserveA' = swapReserveA + in
        /\ swapReserveB' = swapReserveB - out
        /\ Exchange(paymentToken, swapPairToken, in, out)
        /\ UNCHANGED <<tokens, earned, settings, lps, borrowDebt>>
        /\ Solvent'

\* A token on both sides is taken for A.
SwapBForA(in) ==
    LET out == QuoteSwap(in, swapReserveB, swapReserveA)
    IN  /\ ~paused /\ WithinCap(in) /\ swapPairToken \notin {NoToken, paymentToken}
        /\ held[swapPairToken] + in <= MaxHeld
        /\ out <= swapReserveA
        /\ swapReserveB' = swapReserveB + in
        /\ swapReserveA' = swapReserveA - out
        /\ Exchange(swapPairToken, paymentToken, in, out)
        /\ UNCHANGED <<tokens, earned, settings, lps, borrowDebt>>
        /\ Solvent'

(***************************************************************************)
(* Lending from reserve A                                                  *)
(***************************************************************************)
LpValueInUsdc(u) ==
    IF totalLpShares = 0 \/ lpShares[u] = 0 THEN 0
    ELSE (swapReserveA * lpShares[u]) \div totalLpShares
         + (((swapReserveB * lpShares[u]) \div totalLpShares) * swapReserveA)
               \div swapReserveB

Credit(u) == agentEarnings[u] + LpValueInUsdc(u)

Borrow(u, amount) ==
    /\ ~paused /\ WithinCap(amount)
    /\ lpShares[u] > 0 => swapReserveB > 0
    /\ borrowDebt[u] + amount <= (Credit(u) * borrowFactorBps) \div BPS_DENOMINATOR
    /\ amount <= swapReserveA
    /\ borrowDebt' = [borrowDebt EXCEPT ![u] = @ + amount]
    /\ swapReserveA' = swapReserveA - amount
    /\ held' = [held EXCEPT ![paymentToken] = @ - amount]
    /\ UNCHANGED <<tokens, earned, settings, swapReserveB, lps>>
    /\ Solvent'

\* What is paid beyond the debt stays in the pool.
DebtAfter(debt, amount) == IF debt >= amount THEN debt - amount ELSE 0

Repay(u, amount) ==
    /\ ~paused /\ amount > 0
    /\ held[paymentToken] + amount <= MaxHeld
    /\ held' = [held EXCEPT ![paymentToken] = @ + amount]
    /\ borrowDebt' = [borrowDebt EXCEPT ![u] = DebtAfter(@, amount)]
    /\ swapReserveA' = swapReserveA + amount
    /\ UNCHANGED <<tokens, earned, settings, swapReserveB, lps>>
    /\ Solvent'

\* Tokens sent to the contract by anyone.
Mint(t) ==
    /\ held[t] < MaxHeld
    /\ held' = [held EXCEPT ![t] = @ + 1]
    /\ UNCHANGED <<tokens, earned, settings, pool>>

(***************************************************************************)
(* The specification                                                       *)
(***************************************************************************)
Pay ==
    \/ \E agent \in Agents, amount \in PayAmounts :
        \/ PayForAgent(agent, amount)
        \/ \E compute \in PayAmounts : PayForAgentAndCompute(agent, amount, compute)
    \/ \E u \in Users : WithdrawAgentEarnings(u)

Configure ==
    \/ \E agent \in Agents, bps \in RoyaltyChoices : SetRoyaltyBps(agent, bps)
    \/ \E bps \in FeeChoices : SetProtocolFeeBps(bps)
    \/ \E cap \in CapChoices : SetMaxPayCap(cap)
    \/ \E ratio \in RatioChoices : SetComputeRatioMax(ratio)
    \/ \E bps \in SwapFeeChoices : SetSwapFeeBps(bps)
    \/ \E bps \in FactorChoices : SetBorrowFactorBps(bps)
    \/ SetPaused
    \/ \E t \in Tokens : SetPaymentToken(t) \/ SetSwapPairToken(t)

Trade ==
    \/ \E u \in Users, a \in LiquidityAmounts, b \in LiquidityAmounts :
        AddLiquidity(u, a, b)
    \/ \E u \in Users : \E shares \in 1..lpShares[u] : RemoveLiquidity(u, shares)
    \/ \E in \in SwapAmounts : SwapAForB(in) \/ SwapBForA(in)
    \/ \E u \in Users, amount \in BorrowAmounts : Borrow(u, amount) \/ Repay(u, amount)

Seed ==
    \E u \in Users, a \in LiquidityAmounts, b \in LiquidityAmounts : SeedSwapPool(u, a, b)

Next == Pay \/ Configure \/ Trade \/ Seed \/ \E t \in Tokens : Mint(t)

Spec == Init /\ [][Next]_vars

\* What the contract owes in a token: a creator's earnings and reserve A in the
\* payment token, reserve B in the pair token.
Claims(t) ==
    (IF t = paymentToken THEN swapReserveA + totalOutstandingEarnings ELSE 0)
    + (IF t = swapPairToken THEN swapReserveB ELSE 0)

\* The documented operation of seedSwapPool: the admin mints to the contract
\* what it then credits, so that a seed takes tokens nobody has a claim on.
SeedMinted ==
    \E u \in Users, a \in LiquidityAmounts, b \in LiquidityAmounts :
        /\ Claims(paymentToken) + a <= held[paymentToken]
        /\ swapPairToken \in Tokens => Claims(swapPairToken) + b <= held[swapPairToken]
        /\ paymentToken # swapPairToken
        /\ SeedSwapPool(u, a, b)

OpsNext == Pay \/ Configure \/ Trade \/ SeedMinted \/ \E t \in Tokens : Mint(t)

OpsSpec == Init /\ [][OpsNext]_vars

(***************************************************************************)
(* Properties                                                              *)
(***************************************************************************)

\* totalOutstandingEarnings, which gates the change of the payment token, is the
\* sum of what the creators can withdraw.
OutstandingIsSum == totalOutstandingEarnings = SumFunction(agentEarnings)

\* As long as the admin seeds the pool with what it minted for it, every unit
\* the contract owes in a token is there: earnings, reserves, through pays,
\* swaps, loans, and changes of either token.
ClaimsBacked == \A t \in Tokens : Claims(t) <= held[t]

\* Whatever the fee has become since the royalty was set, a payment leaves the
\* treasury its fee and gives the creator at most the royalty, and the whole
\* royalty (rounded down) where the fee leaves room for it.
SplitHonoursBoth ==
    \A agent \in Agents, amount \in PayAmounts :
        LET cut == CreatorCut(agent, amount)
            royalty == agentRoyaltyStored[agent] - 1
        IN  /\ cut \in 0..amount
            /\ amount - cut >= MinProtocolCut(amount)
            /\ royalty >= 0 => cut * BPS_DENOMINATOR <= amount * royalty
            /\ royalty \in 0..MaxRoyalty =>
                    cut = (amount * royalty) \div BPS_DENOMINATOR

\* A share of the pool never loses product: reserveA * reserveB over the square
\* of the shares only falls when somebody borrows out of reserve A.
ProductPerShareKept ==
    [][ (totalLpShares > 0 /\ \A u \in Users : borrowDebt'[u] <= borrowDebt[u])
        => swapReserveA' * swapReserveB' * totalLpShares * totalLpShares
           >= swapReserveA * swapReserveB * totalLpShares' * totalLpShares' ]_vars

\* "so the pool never double-counts creator earnings held here" (comment over
\* the pool): reserve A and the earnings fit together in the balance.
ReservesExcludeEarnings ==
    swapReserveA + totalOutstandingEarnings <= held[paymentToken]

\* "lending exposure is bounded by borrowFactorBps on credit the borrower
\* already owns" (comment over the pool): a debt is never more than that credit.
ExposureBounded == \A u \in Users : borrowDebt[u] <= Credit(u)

=============================================================================
