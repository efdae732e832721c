------------------------ MODULE PaymentProcessorProofs ------------------------
(***************************************************************************)
(* Theorems about PaymentProcessor for every finite set of users, every    *)
(* set of agents and tokens, every input and every setting.                *)
(***************************************************************************)
EXTENDS PaymentProcessor, Sums, TLAPS

-----------------------------------------------------------------------------
(* Rounding.                                                                *)

\* A quotient of naturals is a natural.
LEMMA QuotientNat == ASSUME NEW a \in Nat, NEW b \in Nat, b > 0
                     PROVE  a \div b \in Nat
  OBVIOUS

LEMMA ProductNat == ASSUME NEW a \in Nat, NEW b \in Nat PROVE a * b \in Nat
  OBVIOUS

LEMMA ShareNat == ASSUME NEW a \in Nat, NEW b \in Nat, NEW c \in Nat, c > 0
                  PROVE  (a * b) \div c \in Nat
  BY ProductNat, QuotientNat

\* A royalty that is set is stored as its bps plus one.
LEMMA StoredMinusOne ==
    ASSUME NEW stored \in 0..BPS_DENOMINATOR, stored # 0 PROVE stored - 1 \in Nat
  BY DEF BPS_DENOMINATOR

\* The fee is a natural number no larger than what it is taken from.
LEMMA FeeBound ==
    ASSUME TypeOK, NEW amount \in Nat
    PROVE  MinProtocolCut(amount) \in Nat /\ MinProtocolCut(amount) <= amount
<1> DEFINE product == amount * protocolFeeBps
<1>1. protocolFeeBps \in 0..10000
  <2>1. protocolFeeBps \in 0..BPS_DENOMINATOR
    BY DEF TypeOK, SettingsType
  <2> QED
    BY <2>1 DEF BPS_DENOMINATOR
<1>2. product \in Nat
  BY <1>1, ProductNat
<1>3. product <= amount * 10000
  BY <1>1
<1>4. MinProtocolCut(amount) = product \div 10000
  BY DEF MinProtocolCut, BPS_DENOMINATOR
<1> HIDE DEF product
<1>5. QED
  BY <1>2, <1>3, <1>4

\* The creator's part is a natural number no larger than the payment.
LEMMA CutBound ==
    ASSUME TypeOK, NEW agent \in Agents, NEW amount \in Nat
    PROVE  CreatorCut(agent, amount) \in Nat /\ CreatorCut(agent, amount) <= amount
<1> DEFINE royalty == EffectiveRoyalty(agent)
           part == (amount * royalty) \div BPS_DENOMINATOR
<1>1. MinProtocolCut(amount) \in Nat /\ MinProtocolCut(amount) <= amount
  BY FeeBound
<1>2. CASE agentRoyaltyStored[agent] = 0
  BY <1>1, <1>2 DEF CreatorCut
<1>3. CASE agentRoyaltyStored[agent] # 0
  <2>1. royalty \in Nat
    <3>1. agentRoyaltyStored[agent] - 1 \in Nat
      <4>1. agentRoyaltyStored[agent] \in 0..BPS_DENOMINATOR
        BY DEF TypeOK, RoyaltyType
      <4>2. QED
        BY <1>3, <4>1, StoredMinusOne
    <3>2. MaxRoyalty \in Nat
      BY DEF TypeOK, SettingsType, MaxRoyalty, BPS_DENOMINATOR
    <3>3. QED
      BY <3>1, <3>2 DEF EffectiveRoyalty, MinOf
  <2>2. part \in Nat
    <3> HIDE DEF royalty
    <3>1. QED
      BY <2>1, ShareNat DEF BPS_DENOMINATOR
  <2>3. CreatorCut(agent, amount) = MinOf(part, amount - MinProtocolCut(amount))
    BY <1>3 DEF CreatorCut
  <2> HIDE DEF part
  <2>4. QED
    BY <1>1, <2>2, <2>3 DEF MinOf
<1>4. QED
  BY <1>2, <1>3

-----------------------------------------------------------------------------
(* Type correctness.                                                        *)

LEMMA TypeInit == Init => TypeOK
<1> SUFFICES ASSUME Init PROVE TypeOK
  OBVIOUS
<1>1. 0 \in 0..BPS_DENOMINATOR /\ FirstFeeBps \in 0..BPS_DENOMINATOR
  BY PaymentAssumption DEF BPS_DENOMINATOR
<1>2. RoyaltyType
  BY <1>1 DEF Init, RoyaltyType
<1>3. SettingsType
  <2>1. protocolFeeBps \in 0..BPS_DENOMINATOR /\ maxPayCap \in Nat
        /\ computeRatioMax \in Nat
    BY <1>1 DEF Init
  <2>2. swapFeeBps \in 0..1000 /\ borrowFactorBps \in 0..8000
    BY DEF Init
  <2>3. paused \in BOOLEAN
    BY DEF Init
  <2>4. QED
    BY <2>1, <2>2, <2>3 DEF SettingsType
<1>4. HeldType /\ EarnedType /\ SharesType /\ DebtType /\ ReservesType
  BY DEF Init, HeldType, EarnedType, SharesType, DebtType, ReservesType
<1>5. TokensType
  BY PaymentAssumption DEF Init, TokensType
<1>6. QED
  BY <1>2, <1>3, <1>4, <1>5 DEF TypeOK

\* A payment credits the creator and keeps the cut in the payment token.
LEMMA PaySplitType ==
    ASSUME TypeOK, NEW agent \in Agents, NEW amount \in Nat,
           PaySplit(agent, amount)
    PROVE  HeldType' /\ EarnedType'
<1> DEFINE cut == CreatorCut(agent, amount)
<1>1. cut \in Nat
  BY CutBound
<1> HIDE DEF cut
<1>2. /\ held' = [held EXCEPT ![paymentToken] = @ + cut]
      /\ agentEarnings' = [agentEarnings EXCEPT ![creatorOf[agent]] = @ + cut]
      /\ totalOutstandingEarnings' = totalOutstandingEarnings + cut
      /\ creatorOf[agent] \in Users
  BY PaymentAssumption DEF PaySplit, cut
<1>3. QED
  BY <1>1, <1>2 DEF TypeOK, TokensType, HeldType, EarnedType

\* What CreditLiquidity does to the pool.
LEMMA CreditType ==
    ASSUME TypeOK, NEW to \in Users, NEW a \in Nat, NEW b \in Nat,
           CreditLiquidity(to, a, b)
    PROVE  ReservesType' /\ SharesType'
<1>1. PICK shares \in IF totalLpShares = 0 THEN Roots(a * b) ELSE {LaterShares(a, b)} :
        /\ shares > 0
        /\ totalLpShares' = totalLpShares + shares
        /\ lpShares' = [lpShares EXCEPT ![to] = @ + shares]
  BY DEF CreditLiquidity
<1>2. shares \in Nat
  <2>1. CASE totalLpShares = 0
    <3>1. a * b \in Nat
      BY ProductNat
    <3>2. QED
      BY <2>1, <1>1, <3>1 DEF Roots
  <2>2. CASE totalLpShares # 0
    <3>1. swapReserveA > 0 /\ swapReserveB > 0 /\ totalLpShares \in Nat
          /\ swapReserveA \in Nat /\ swapReserveB \in Nat
      BY <2>2 DEF CreditLiquidity, TypeOK, ReservesType, SharesType
    <3>2. (a * totalLpShares) \div swapReserveA \in Nat
      BY <3>1, ShareNat
    <3>3. (b * totalLpShares) \div swapReserveB \in Nat
      BY <3>1, ShareNat
    <3>4. LaterShares(a, b) \in Nat
      BY <3>2, <3>3 DEF LaterShares, MinOf
    <3>5. QED
      BY <2>2, <1>1, <3>4
  <2>3. QED
    BY <2>1, <2>2
<1>3. QED
  BY <1>1, <1>2 DEF TypeOK, ReservesType, SharesType, CreditLiquidity

\* The quote of a swap of at least one unit is a natural number.
LEMMA QuoteNat ==
    ASSUME TypeOK, NEW in \in Nat, in > 0, NEW from \in Nat, NEW to \in Nat
    PROVE  QuoteSwap(in, from, to) \in Nat
<1> DEFINE rate == BPS_DENOMINATOR - swapFeeBps
           withFee == in * rate
           whole == from * BPS_DENOMINATOR
<1>1. rate \in Nat /\ rate > 0
  BY DEF TypeOK, SettingsType, BPS_DENOMINATOR
<1>2. withFee \in Nat /\ withFee > 0
  <2> HIDE DEF rate
  <2>1. QED
    BY <1>1
<1>3. whole \in Nat
  BY DEF BPS_DENOMINATOR
<1>4. QuoteSwap(in, from, to) = (to * withFee) \div (whole + withFee)
  BY DEF QuoteSwap
<1> HIDE DEF withFee, whole
<1>5. QED
  BY <1>2, <1>3, <1>4, ShareNat

\* A conjunct of TypeOK whose variables an action leaves alone carries over.
LEMMA TypeUnchanged ==
    /\ TokensType /\ UNCHANGED tokens => TokensType'
    /\ HeldType /\ UNCHANGED held => HeldType'
    /\ EarnedType /\ UNCHANGED earned => EarnedType'
    /\ RoyaltyType /\ SettingsType /\ UNCHANGED settings => RoyaltyType' /\ SettingsType'
    /\ ReservesType /\ UNCHANGED reserves => ReservesType'
    /\ SharesType /\ UNCHANGED lps => SharesType'
    /\ DebtType /\ UNCHANGED borrowDebt => DebtType'
  BY DEF TokensType, HeldType, EarnedType, RoyaltyType, SettingsType, ReservesType,
         SharesType, DebtType, tokens, earned, settings, reserves, lps

\* One agent's stored royalty is another number.
LEMMA OneRoyaltyType ==
    ASSUME RoyaltyType, NEW agent, NEW stored \in 0..BPS_DENOMINATOR,
           agentRoyaltyStored' = [agentRoyaltyStored EXCEPT ![agent] = stored]
    PROVE  RoyaltyType'
  BY DEF RoyaltyType

LEMMA TypeNext == TypeOK /\ [Next]_vars => TypeOK'
<1> SUFFICES ASSUME TypeOK, [Next]_vars PROVE TypeOK'
  OBVIOUS
<1> USE PaymentAssumption, TypeUnchanged DEF TypeOK
<1>1. ASSUME NEW agent \in Agents, NEW amount \in PayAmounts, PayForAgent(agent, amount)
      PROVE  TypeOK'
  BY <1>1, PaySplitType DEF PayForAgent, pool
<1>2. ASSUME NEW agent \in Agents, NEW amount \in PayAmounts, NEW compute \in PayAmounts,
             PayForAgentAndCompute(agent, amount, compute)
      PROVE  TypeOK'
  BY <1>2, PaySplitType DEF PayForAgentAndCompute, pool
<1>3. ASSUME NEW u \in Users, WithdrawAgentEarnings(u) PROVE TypeOK'
  <2>1. HeldType'
    BY <1>3 DEF WithdrawAgentEarnings, HeldType, EarnedType, TokensType
  <2>2. EarnedType'
    BY <1>3 DEF WithdrawAgentEarnings, EarnedType
  <2>3. QED
    BY <1>3, <2>1, <2>2 DEF WithdrawAgentEarnings, pool
<1>4. ASSUME NEW agent \in Agents, NEW bps \in RoyaltyChoices, SetRoyaltyBps(agent, bps)
      PROVE  TypeOK'
  <2>1. bps + 1 \in 0..BPS_DENOMINATOR
    BY <1>4 DEF SetRoyaltyBps, BPS_DENOMINATOR
  <2>2. RoyaltyType' /\ SettingsType'
    <3>1. RoyaltyType'
      <4>1. agentRoyaltyStored' = [agentRoyaltyStored EXCEPT ![agent] = bps + 1]
        BY <1>4 DEF SetRoyaltyBps
      <4>2. RoyaltyType
        OBVIOUS
      <4> QED
        BY ONLY <2>1, <4>1, <4>2, OneRoyaltyType
    <3>2. SettingsType'
      <4>1. /\ UNCHANGED <<protocolFeeBps, maxPayCap, computeRatioMax>>
            /\ UNCHANGED <<paused, swapFeeBps, borrowFactorBps>>
        BY <1>4 DEF SetRoyaltyBps
      <4>2. SettingsType
        OBVIOUS
      <4> QED
        BY ONLY <4>1, <4>2 DEF SettingsType
    <3> QED
      BY <3>1, <3>2
  <2>3. QED
    BY <1>4, <2>2 DEF SetRoyaltyBps, pool
<1>5. ASSUME NEW bps \in FeeChoices, SetProtocolFeeBps(bps) PROVE TypeOK'
  <2>1. bps \in 0..BPS_DENOMINATOR
    BY <1>5 DEF SetProtocolFeeBps, BPS_DENOMINATOR
  <2>2. RoyaltyType' /\ SettingsType'
    <3>1. RoyaltyType'
      BY <1>5 DEF SetProtocolFeeBps, RoyaltyType
    <3>2. SettingsType'
      BY <1>5, <2>1 DEF SetProtocolFeeBps, SettingsType
    <3> QED
      BY <3>1, <3>2
  <2>3. QED
    BY <1>5, <2>2 DEF SetProtocolFeeBps, pool
<1>6. ASSUME NEW cap \in CapChoices, SetMaxPayCap(cap) PROVE TypeOK'
  <2>1. RoyaltyType' /\ SettingsType'
    <3>1. RoyaltyType'
      BY <1>6 DEF SetMaxPayCap, RoyaltyType
    <3>2. SettingsType'
      BY <1>6 DEF SetMaxPayCap, SettingsType
    <3> QED
      BY <3>1, <3>2
  <2>2. QED
    BY <1>6, <2>1 DEF SetMaxPayCap, pool
<1>7. ASSUME NEW ratio \in RatioChoices, SetComputeRatioMax(ratio) PROVE TypeOK'
  <2>1. RoyaltyType' /\ SettingsType'
    <3>1. RoyaltyType'
      BY <1>7 DEF SetComputeRatioMax, RoyaltyType
    <3>2. SettingsType'
      BY <1>7 DEF SetComputeRatioMax, SettingsType
    <3> QED
      BY <3>1, <3>2
  <2>2. QED
    BY <1>7, <2>1 DEF SetComputeRatioMax, pool
<1>8. ASSUME NEW bps \in SwapFeeChoices, SetSwapFeeBps(bps) PROVE TypeOK'
  <2>1. RoyaltyType' /\ SettingsType'
    <3>1. RoyaltyType'
      BY <1>8 DEF SetSwapFeeBps, RoyaltyType
    <3>2. SettingsType'
      BY <1>8 DEF SetSwapFeeBps, SettingsType
    <3> QED
      BY <3>1, <3>2
  <2>2. QED
    BY <1>8, <2>1 DEF SetSwapFeeBps, pool
<1>9. ASSUME NEW bps \in FactorChoices, SetBorrowFactorBps(bps) PROVE TypeOK'
  <2>1. RoyaltyType' /\ SettingsType'
    <3>1. RoyaltyType'
      BY <1>9 DEF SetBorrowFactorBps, RoyaltyType
    <3>2. SettingsType'
      BY <1>9 DEF SetBorrowFactorBps, SettingsType
    <3> QED
      BY <3>1, <3>2
  <2>2. QED
    BY <1>9, <2>1 DEF SetBorrowFactorBps, pool
<1>10. ASSUME SetPaused PROVE TypeOK'
  <2>1. RoyaltyType' /\ SettingsType'
    <3>1. RoyaltyType'
      BY <1>10 DEF SetPaused, RoyaltyType
    <3>2. SettingsType'
      BY <1>10 DEF SetPaused, SettingsType
    <3> QED
      BY <3>1, <3>2
  <2>2. QED
    BY <1>10, <2>1 DEF SetPaused, pool
<1>11. ASSUME NEW t \in Tokens, SetPaymentToken(t) PROVE TypeOK'
  BY <1>11 DEF SetPaymentToken, TokensType, pool
<1>12. ASSUME NEW t \in Tokens, SetSwapPairToken(t) PROVE TypeOK'
  BY <1>12 DEF SetSwapPairToken, TokensType, pool
<1>13. ASSUME NEW u \in Users, NEW a \in LiquidityAmounts, NEW b \in LiquidityAmounts,
              AddLiquidity(u, a, b)
       PROVE  TypeOK'
  <2>1. ReservesType' /\ SharesType'
    BY <1>13, CreditType DEF AddLiquidity
  <2>2. HeldType'
    <3>1. a \in Nat /\ b \in Nat /\ paymentToken \in Tokens
      BY DEF TokensType
    <3>2. held' = [held EXCEPT ![paymentToken] = @ + a, ![swapPairToken] = @ + b]
          /\ swapPairToken \in Tokens /\ swapPairToken # paymentToken
      BY <1>13 DEF AddLiquidity, TokensType
    <3>3. held[paymentToken] + a \in Nat /\ held[swapPairToken] + b \in Nat
      BY <3>1, <3>2 DEF HeldType
    <3>4. held' \in [Tokens -> Nat]
      BY <3>2, <3>3 DEF HeldType
    <3>5. QED
      BY <3>4 DEF HeldType
  <2>3. QED
    BY <1>13, <2>1, <2>2 DEF AddLiquidity, CreditLiquidity
<1>14. ASSUME NEW u \in Users, NEW shares \in 1..lpShares[u], RemoveLiquidity(u, shares)
       PROVE  TypeOK'
  <2> DEFINE outA == (swapReserveA * shares) \div totalLpShares
             outB == (swapReserveB * shares) \div totalLpShares
  <2>1. shares \in Nat /\ shares <= totalLpShares /\ shares <= lpShares[u]
        /\ lpShares[u] \in Nat
    BY <1>14 DEF RemoveLiquidity, SharesType
  <2>2. outA \in Nat /\ outB \in Nat
    BY <1>14, <2>1, ShareNat DEF SharesType, ReservesType, RemoveLiquidity
  <2>3. /\ outA <= swapReserveA /\ outB <= swapReserveB
        /\ swapReserveA' = swapReserveA - outA
        /\ swapReserveB' = swapReserveB - outB
        /\ held' = [t \in Tokens |-> held[t]
                        - (IF t = paymentToken THEN outA ELSE 0)
                        - (IF t = swapPairToken THEN outB ELSE 0)]
        /\ lpShares' = [lpShares EXCEPT ![u] = @ - shares]
        /\ totalLpShares' = totalLpShares - shares
    BY <1>14 DEF RemoveLiquidity
  <2>4. \A t \in Tokens : held'[t] \in Int
    BY <2>2, <2>3 DEF HeldType
  <2>5. /\ swapReserveA' >= 0 /\ swapReserveA' <= held'[paymentToken]
        /\ swapReserveB' >= 0
        /\ swapPairToken # NoToken => swapReserveB' <= held'[swapPairToken]
    BY <1>14, <2>2, <2>3 DEF RemoveLiquidity, Solvent, tokens, ReservesType
  <2> HIDE DEF outA, outB
  <2>6. HeldType'
    <3>1. ASSUME NEW t \in Tokens PROVE held'[t] >= 0
      <4>1. CASE t \in {paymentToken, swapPairToken}
        BY <2>2, <2>3, <2>4, <2>5, <4>1 DEF ReservesType
      <4>2. CASE t \notin {paymentToken, swapPairToken}
        BY <2>3, <4>2 DEF HeldType
      <4>3. QED
        BY <4>1, <4>2
    <3>2. QED
      BY <2>3, <2>4, <3>1 DEF HeldType
  <2>7. ReservesType'
    BY <2>2, <2>3 DEF ReservesType
  <2>8. SharesType'
    BY <2>1, <2>3 DEF SharesType
  <2>9. QED
    BY <1>14, <2>6, <2>7, <2>8 DEF RemoveLiquidity
<1>15. ASSUME NEW in \in SwapAmounts, SwapAForB(in) PROVE TypeOK'
  <2> DEFINE out == QuoteSwap(in, swapReserveA, swapReserveB)
  <2>1. in \in Nat /\ in > 0
    BY <1>15 DEF SwapAForB, WithinCap
  <2>2. out \in Nat
    BY <2>1, QuoteNat DEF ReservesType
  <2>3. /\ out <= swapReserveB
        /\ swapReserveA' = swapReserveA + in
        /\ swapReserveB' = swapReserveB - out
        /\ held' = [t \in Tokens |-> held[t] + (IF t = paymentToken THEN in ELSE 0)
                                     - (IF t = swapPairToken THEN out ELSE 0)]
    BY <1>15 DEF SwapAForB, Exchange
  <2> HIDE DEF out
  <2>4. ReservesType'
    BY <2>1, <2>2, <2>3 DEF ReservesType
  <2>5. \A t \in Tokens : held'[t] \in Int
    BY <2>1, <2>2, <2>3 DEF HeldType
  <2>6. swapPairToken \in Tokens => swapReserveB' <= held'[swapPairToken]
    BY <1>15, PaymentAssumption DEF SwapAForB, Solvent, tokens, TokensType
  <2>7. ASSUME NEW t \in Tokens PROVE held'[t] >= 0
    <3>1. CASE t = swapPairToken
      BY <2>4, <2>5, <2>6, <3>1 DEF ReservesType
    <3>2. CASE t # swapPairToken
      BY <2>1, <2>3, <3>2 DEF HeldType
    <3>3. QED
      BY <3>1, <3>2
  <2>8. HeldType'
    BY <2>3, <2>5, <2>7 DEF HeldType
  <2>9. QED
    BY <1>15, <2>4, <2>8 DEF SwapAForB
<1>16. ASSUME NEW in \in SwapAmounts, SwapBForA(in) PROVE TypeOK'
  <2> DEFINE out == QuoteSwap(in, swapReserveB, swapReserveA)
  <2>1. in \in Nat /\ in > 0
    BY <1>16 DEF SwapBForA, WithinCap
  <2>2. out \in Nat
    BY <2>1, QuoteNat DEF ReservesType
  <2>3. /\ out <= swapReserveA
        /\ swapReserveB' = swapReserveB + in
        /\ swapReserveA' = swapReserveA - out
        /\ held' = [t \in Tokens |-> held[t] + (IF t = swapPairToken THEN in ELSE 0)
                                     - (IF t = paymentToken THEN out ELSE 0)]
    BY <1>16 DEF SwapBForA, Exchange
  <2> HIDE DEF out
  <2>4. ReservesType'
    BY <2>1, <2>2, <2>3 DEF ReservesType
  <2>5. \A t \in Tokens : held'[t] \in Int
    BY <2>1, <2>2, <2>3 DEF HeldType
  <2>6. paymentToken \in Tokens => swapReserveA' <= held'[paymentToken]
    BY <1>16, PaymentAssumption DEF SwapBForA, Solvent, tokens, TokensType
  <2>7. ASSUME NEW t \in Tokens PROVE held'[t] >= 0
    <3>1. CASE t = paymentToken
      BY <2>4, <2>5, <2>6, <3>1 DEF ReservesType
    <3>2. CASE t # paymentToken
      BY <2>1, <2>3, <3>2 DEF HeldType
    <3>3. QED
      BY <3>1, <3>2
  <2>8. HeldType'
    BY <2>3, <2>5, <2>7 DEF HeldType
  <2>9. QED
    BY <1>16, <2>4, <2>8 DEF SwapBForA
<1>17. ASSUME NEW u \in Users, NEW amount \in BorrowAmounts, Borrow(u, amount)
       PROVE  TypeOK'
  <2>1. /\ amount \in Nat /\ amount <= swapReserveA
        /\ swapReserveA' = swapReserveA - amount /\ swapReserveB' = swapReserveB
        /\ held' = [held EXCEPT ![paymentToken] = @ - amount]
        /\ borrowDebt' = [borrowDebt EXCEPT ![u] = @ + amount]
    BY <1>17 DEF Borrow
  <2>2. ReservesType' /\ DebtType'
    BY <2>1 DEF ReservesType, DebtType
  <2>3. held[paymentToken] - amount \in Nat
    <3>1. held'[paymentToken] = held[paymentToken] - amount
      BY <2>1 DEF HeldType, TokensType
    <3>2. swapReserveA' <= held'[paymentToken]
      BY <1>17 DEF Borrow, Solvent, tokens
    <3>3. held[paymentToken] \in Nat
      BY DEF HeldType, TokensType
    <3>4. QED
      BY <2>1, <2>2, <3>1, <3>2, <3>3 DEF ReservesType
  <2>4. HeldType'
    BY <2>1, <2>3 DEF HeldType
  <2>5. QED
    BY <1>17, <2>2, <2>4 DEF Borrow
<1>18. ASSUME NEW u \in Users, NEW amount \in BorrowAmounts, Repay(u, amount)
       PROVE  TypeOK'
  <2>1. amount \in Nat /\ DebtAfter(borrowDebt[u], amount) \in Nat
    BY DEF DebtType, DebtAfter
  <2>2. ReservesType' /\ HeldType'
    BY <1>18, <2>1 DEF Repay, ReservesType, HeldType
  <2>3. DebtType'
    BY <1>18, <2>1 DEF Repay, DebtType
  <2>4. QED
    BY <1>18, <2>2, <2>3 DEF Repay
<1>19. ASSUME NEW u \in Users, NEW a \in LiquidityAmounts, NEW b \in LiquidityAmounts,
              SeedSwapPool(u, a, b)
       PROVE  TypeOK'
  <2>1. ReservesType' /\ SharesType'
    BY <1>19, CreditType DEF SeedSwapPool
  <2>2. QED
    BY <1>19, <2>1 DEF SeedSwapPool, CreditLiquidity
<1>20. ASSUME NEW t \in Tokens, Mint(t) PROVE TypeOK'
  <2>1. HeldType'
    BY <1>20 DEF Mint, HeldType
  <2>2. QED
    BY <1>20, <2>1 DEF Mint, pool
<1>21. ASSUME UNCHANGED vars PROVE TypeOK'
  BY <1>21 DEF vars, pool
<1>22. QED
  BY <1>1, <1>2, <1>3, <1>4, <1>5, <1>6, <1>7, <1>8, <1>9, <1>10, <1>11, <1>12,
     <1>13, <1>14, <1>15, <1>16, <1>17, <1>18, <1>19, <1>20, <1>21
     DEF Next, Pay, Configure, Trade, Seed

\* Every variable keeps its type: no balance, reserve, debt or share count goes
\* below zero, and royalties and rates stay in their ranges.
THEOREM TypeCorrect == Spec => []TypeOK
<1>1. Init => TypeOK
  BY TypeInit
<1>2. TypeOK /\ [Next]_vars => TypeOK'
  BY TypeNext
<1>3. QED
  BY <1>1, <1>2, PTL DEF Spec

-----------------------------------------------------------------------------
(* The split of a payment.                                                  *)

\* A product grows with its second factor.
LEMMA ProductGrows ==
    ASSUME NEW a \in Nat, NEW b \in Nat, NEW c \in Nat, b <= c
    PROVE  a * b <= a * c
<1>1. c - b \in Nat /\ c = b + (c - b)
  OBVIOUS
<1>2. a * (c - b) \in Nat
  BY <1>1, ProductNat
<1>3. a * c = a * b + a * (c - b)
  BY <1>1
<1>4. a * b \in Nat
  BY ProductNat
<1> QED
  BY <1>2, <1>3, <1>4

\* Rounding down gives a part that fits.
LEMMA QuotientFits ==
    ASSUME NEW x \in Nat PROVE x \div 10000 \in Nat /\ (x \div 10000) * 10000 <= x
  OBVIOUS

\* Two parts of an amount that together are at most the whole stay so when each is
\* rounded down.
LEMMA PartsFit ==
    ASSUME NEW amount \in Nat, NEW r \in Nat, NEW f \in Nat, r + f <= 10000
    PROVE  (amount * r) \div 10000 <= amount - (amount * f) \div 10000
<1> DEFINE x == amount * r
           y == amount * f
<1>1. x \in Nat /\ y \in Nat
  BY ProductNat
<1>2. x + y <= amount * 10000
  <2>1. amount * (r + f) <= amount * 10000
    BY ProductGrows
  <2>2. amount * (r + f) = x + y
    OBVIOUS
  <2> QED
    BY <2>1, <2>2
<1> HIDE DEF x, y
<1>3. /\ x \div 10000 \in Nat /\ (x \div 10000) * 10000 <= x
      /\ y \div 10000 \in Nat /\ (y \div 10000) * 10000 <= y
  BY <1>1, QuotientFits
<1>4. x \div 10000 <= amount - y \div 10000
  BY <1>1, <1>2, <1>3
<1> QED
  BY <1>4 DEF x, y

\* The creator's cut lies within the payment, honours the royalty and leaves the minimum.
LEMMA SplitOfTypes ==
    ASSUME TypeOK, NEW agent \in Agents, NEW amount \in Nat
    PROVE  LET cut == CreatorCut(agent, amount)
               royalty == agentRoyaltyStored[agent] - 1
           IN  /\ cut \in 0..amount
               /\ amount - cut >= MinProtocolCut(amount)
               /\ royalty >= 0 => cut * BPS_DENOMINATOR <= amount * royalty
               /\ royalty \in 0..MaxRoyalty =>
                    cut = (amount * royalty) \div BPS_DENOMINATOR
<1> DEFINE cut == CreatorCut(agent, amount)
           royalty == agentRoyaltyStored[agent] - 1
           fee == MinProtocolCut(amount)
<1>1. protocolFeeBps \in 0..10000
  <2>1. protocolFeeBps \in 0..BPS_DENOMINATOR
    BY DEF TypeOK, SettingsType
  <2> QED
    BY ONLY <2>1 DEF BPS_DENOMINATOR
<1>2. /\ fee = (amount * protocolFeeBps) \div 10000
      /\ fee \in Nat /\ fee <= amount /\ cut \in Nat /\ cut <= amount
  BY FeeBound, CutBound DEF MinProtocolCut, BPS_DENOMINATOR
<1>3. MaxRoyalty = 10000 - protocolFeeBps
  BY DEF MaxRoyalty, BPS_DENOMINATOR
<1>4. CASE agentRoyaltyStored[agent] = 0
  <2>1. cut = amount - fee
    BY <1>4 DEF CreatorCut
  <2>2. ~(royalty >= 0) /\ royalty \notin 0..MaxRoyalty
    BY <1>4
  <2> HIDE DEF cut, royalty, fee
  <2>3. cut \in 0..amount /\ amount - cut >= fee
    BY <1>2, <2>1
  <2> QED
    BY <2>2, <2>3 DEF cut, royalty, fee
<1>5. CASE agentRoyaltyStored[agent] # 0
  <2> DEFINE eff == EffectiveRoyalty(agent)
             part == (amount * eff) \div 10000
  <2>1. royalty \in Nat
    <3>1. agentRoyaltyStored[agent] \in 0..BPS_DENOMINATOR
      BY DEF TypeOK, RoyaltyType
    <3> QED
      BY <1>5, <3>1, StoredMinusOne
  <2>2. /\ eff \in Nat /\ eff <= royalty /\ eff <= MaxRoyalty
        /\ royalty \in 0..MaxRoyalty => eff = royalty
    BY <1>1, <1>3, <2>1 DEF EffectiveRoyalty, MinOf
  <2>3. cut = MinOf(part, amount - fee)
    BY <1>5 DEF CreatorCut, BPS_DENOMINATOR
  <2> HIDE DEF cut, royalty, fee, eff
  <2>4. /\ part \in Nat /\ part * 10000 <= amount * eff
        /\ amount * eff \in Nat /\ amount * royalty \in Nat
        /\ amount * eff <= amount * royalty
    <3>1. amount * eff \in Nat /\ amount * royalty \in Nat
      BY <2>1, <2>2, ProductNat
    <3>2. amount * eff <= amount * royalty
      BY <2>1, <2>2, ProductGrows
    <3>3. part \in Nat /\ part * 10000 <= amount * eff
      BY <3>1, QuotientFits
    <3> QED
      BY <3>1, <3>2, <3>3
  <2>5. part <= amount - fee
    <3>1. eff + protocolFeeBps <= 10000
      BY <1>1, <1>3, <2>2
    <3>2. protocolFeeBps \in Nat
      BY <1>1
    <3> QED
      BY <1>2, <2>2, <3>1, <3>2, PartsFit
  <2> HIDE DEF part
  <2>6. cut = part
    BY <1>2, <2>3, <2>4, <2>5 DEF MinOf
  <2>7. cut \in 0..amount /\ amount - cut >= fee /\ cut * 10000 <= amount * royalty
    BY <1>2, <2>4, <2>5, <2>6
  <2>8. royalty \in 0..MaxRoyalty => cut = (amount * royalty) \div 10000
    BY <2>2, <2>6 DEF part
  <2> QED
    BY <2>7, <2>8 DEF cut, royalty, fee, BPS_DENOMINATOR
<1> QED
  BY <1>1, <1>4, <1>5

\* Whatever order fee and royalties were set in, every payment leaves the treasury its fee,
\* never gives a creator more than the royalty, and gives all of it where the fee leaves
\* room: for every amount and every setting the contract accepts.
THEOREM SplitHolds == Spec => []SplitHonoursBoth
<1>1. TypeOK => SplitHonoursBoth
  BY PaymentAssumption, SplitOfTypes DEF SplitHonoursBoth
<1> QED
  BY <1>1, TypeCorrect, PTL

-----------------------------------------------------------------------------
(* The outstanding earnings are the sum of what creators can withdraw.      *)

\* One creator's earnings change, and the total by as much.
OneEarningChanges ==
    \E u \in Users, v \in Int :
        /\ agentEarnings' = [agentEarnings EXCEPT ![u] = v]
        /\ totalOutstandingEarnings' = totalOutstandingEarnings - agentEarnings[u] + v

\* What a payment adds to the earnings.
LEMMA PaySplitEarns ==
    ASSUME TypeOK, NEW agent \in Agents, NEW amount \in PayAmounts, PaySplit(agent, amount)
    PROVE  OneEarningChanges
<1> DEFINE creator == creatorOf[agent]
           cut == CreatorCut(agent, amount)
<1>1. creator \in Users
  BY PaymentAssumption DEF PaySplit
<1>2. cut \in Nat
  <2>1. amount \in Nat
    BY PaymentAssumption
  <2> QED
    BY <2>1, CutBound
<1>3. /\ agentEarnings' = [agentEarnings EXCEPT ![creator] = agentEarnings[creator] + cut]
      /\ totalOutstandingEarnings' = totalOutstandingEarnings + cut
  BY DEF PaySplit
<1> HIDE DEF creator, cut
<1>4. /\ agentEarnings[creator] + cut \in Int
      /\ totalOutstandingEarnings + cut
           = totalOutstandingEarnings - agentEarnings[creator] + (agentEarnings[creator] + cut)
  BY <1>1, <1>2 DEF TypeOK, EarnedType
<1> QED
  BY <1>1, <1>3, <1>4 DEF OneEarningChanges

\* A step leaves the earnings alone, or moves one creator's and the total with them.
LEMMA EarningStep ==
    TypeOK /\ [Next]_vars => UNCHANGED earned \/ OneEarningChanges
<1> SUFFICES ASSUME TypeOK, [Next]_vars PROVE UNCHANGED earned \/ OneEarningChanges
  OBVIOUS
<1>1. ASSUME NEW agent \in Agents, NEW amount \in PayAmounts, PayForAgent(agent, amount)
      PROVE  OneEarningChanges
  BY <1>1, PaySplitEarns DEF PayForAgent
<1>2. ASSUME NEW agent \in Agents, NEW amount \in PayAmounts, NEW compute \in PayAmounts,
             PayForAgentAndCompute(agent, amount, compute)
      PROVE  OneEarningChanges
  BY <1>2, PaySplitEarns DEF PayForAgentAndCompute
<1>3. ASSUME NEW u \in Users, WithdrawAgentEarnings(u) PROVE OneEarningChanges
  <2>1. /\ agentEarnings' = [agentEarnings EXCEPT ![u] = 0]
        /\ totalOutstandingEarnings' = totalOutstandingEarnings - agentEarnings[u]
    BY <1>3 DEF WithdrawAgentEarnings
  <2>2. /\ 0 \in Int
        /\ totalOutstandingEarnings' = totalOutstandingEarnings - agentEarnings[u] + 0
    BY <2>1 DEF TypeOK, EarnedType
  <2> QED
    BY <2>1, <2>2, Zenon DEF OneEarningChanges
<1>4. ASSUME Configure PROVE UNCHANGED earned
  BY <1>4 DEF Configure, SetRoyaltyBps, SetProtocolFeeBps, SetMaxPayCap, SetComputeRatioMax,
              SetSwapFeeBps, SetBorrowFactorBps, SetPaused, SetPaymentToken, SetSwapPairToken
<1>5. ASSUME Trade PROVE UNCHANGED earned
  BY <1>5 DEF Trade, AddLiquidity, CreditLiquidity, RemoveLiquidity, SwapAForB, SwapBForA,
              Borrow, Repay
<1>6. ASSUME Seed PROVE UNCHANGED earned
  BY <1>6 DEF Seed, SeedSwapPool, CreditLiquidity
<1>7. ASSUME NEW t \in Tokens, Mint(t) PROVE UNCHANGED earned
  BY <1>7 DEF Mint
<1>8. CASE UNCHANGED vars
  BY <1>8 DEF vars
<1> QED
  BY <1>1, <1>2, <1>3, <1>4, <1>5, <1>6, <1>7, <1>8 DEF Next, Pay

\* totalOutstandingEarnings is the sum of all creators' earnings in every reachable state:
\* when it is zero, as setPaymentToken asks, nobody is owed anything in the old token.
THEOREM OutstandingIsSumHolds == Spec => []OutstandingIsSum
<1>1. Init => OutstandingIsSum
  <2> SUFFICES ASSUME Init PROVE OutstandingIsSum
    OBVIOUS
  <2>1. /\ agentEarnings \in [Users -> Int] /\ totalOutstandingEarnings = 0
        /\ \A u \in Users : agentEarnings[u] = 0
    BY DEF Init
  <2> QED
    BY <2>1, UsersAssumption, SumZero DEF OutstandingIsSum
<1>2. TypeOK /\ OutstandingIsSum /\ [Next]_vars => OutstandingIsSum'
  <2> SUFFICES ASSUME TypeOK, OutstandingIsSum, [Next]_vars PROVE OutstandingIsSum'
    OBVIOUS
  <2>1. CASE UNCHANGED earned
    BY <2>1 DEF OutstandingIsSum, earned
  <2>2. CASE OneEarningChanges
    <3>1. PICK u \in Users, v \in Int :
             /\ agentEarnings' = [agentEarnings EXCEPT ![u] = v]
             /\ totalOutstandingEarnings' = totalOutstandingEarnings - agentEarnings[u] + v
      BY <2>2 DEF OneEarningChanges
    <3>2. agentEarnings \in [Users -> Int]
      BY DEF TypeOK, EarnedType
    <3>3. SumFunction([agentEarnings EXCEPT ![u] = v])
            = SumFunction(agentEarnings) - agentEarnings[u] + v
      BY <3>2, UsersAssumption, SumChange
    <3> QED
      BY <3>1, <3>3 DEF OutstandingIsSum
  <2> QED
    BY <2>1, <2>2, EarningStep
<1> QED
  BY <1>1, <1>2, TypeCorrect, PTL DEF Spec

-----------------------------------------------------------------------------
(* Every claim is backed.                                                   *)

\* A step of OpsSpec is a step of Spec: only the seeds are fewer.
LEMMA OpsIsNext == [OpsNext]_vars => [Next]_vars
  BY DEF OpsNext, Next, SeedMinted, Seed

\* What a payment adds to the claims on the payment token it adds to the balance.
LEMMA PaySplitBacked ==
    ASSUME TypeOK, NEW t \in Tokens, Claims(t) <= held[t],
           NEW agent \in Agents, NEW amount \in Nat, PaySplit(agent, amount),
           UNCHANGED <<tokens, reserves>>
    PROVE  Claims(t)' <= held'[t]
<1> DEFINE cut == CreatorCut(agent, amount)
<1>1. cut \in Nat
  BY CutBound
<1>2. /\ held'[t] = held[t] + (IF t = paymentToken THEN cut ELSE 0)
      /\ totalOutstandingEarnings' = totalOutstandingEarnings + cut
  BY CutBound DEF PaySplit, TypeOK, HeldType
<1> HIDE DEF cut
<1>3. QED
  BY <1>1, <1>2 DEF Claims, TypeOK, HeldType, EarnedType, ReservesType, tokens, reserves

LEMMA ClaimsNext == TypeOK /\ TypeOK' /\ ClaimsBacked /\ [OpsNext]_vars => ClaimsBacked'
<1> SUFFICES ASSUME TypeOK, TypeOK', ClaimsBacked, [OpsNext]_vars, NEW t \in Tokens
             PROVE  Claims(t)' <= held'[t]
  BY DEF ClaimsBacked
<1> USE PaymentAssumption DEF TypeOK, TokensType, HeldType, EarnedType, ReservesType,
        Claims, tokens, earned, reserves
<1>0. Claims(t) <= held[t]
  BY DEF ClaimsBacked
<1>1. ASSUME NEW agent \in Agents, NEW amount \in PayAmounts, PayForAgent(agent, amount)
      PROVE  Claims(t)' <= held'[t]
  BY <1>0, <1>1, PaySplitBacked DEF PayForAgent, pool
<1>2. ASSUME NEW agent \in Agents, NEW amount \in PayAmounts, NEW compute \in PayAmounts,
             PayForAgentAndCompute(agent, amount, compute)
      PROVE  Claims(t)' <= held'[t]
  BY <1>0, <1>2, PaySplitBacked DEF PayForAgentAndCompute, pool
<1>3. ASSUME NEW u \in Users, WithdrawAgentEarnings(u) PROVE Claims(t)' <= held'[t]
  BY <1>0, <1>3 DEF WithdrawAgentEarnings, pool
<1>4. ASSUME UNCHANGED <<tokens, held, earned, pool>> PROVE Claims(t)' <= held'[t]
  BY <1>0, <1>4 DEF pool
<1>5. ASSUME NEW new \in Tokens, SetPaymentToken(new) PROVE Claims(t)' <= held'[t]
  <2>1. Claims(paymentToken) <= held[paymentToken]
    BY DEF ClaimsBacked
  <2>2. swapReserveA = 0 /\ totalOutstandingEarnings = 0
    BY <1>5, <2>1 DEF SetPaymentToken, NothingLeft
  <2>3. QED
    BY <1>0, <1>5, <2>2 DEF SetPaymentToken, pool
<1>6. ASSUME NEW new \in Tokens, SetSwapPairToken(new) PROVE Claims(t)' <= held'[t]
  BY <1>0, <1>6 DEF SetSwapPairToken, pool
<1>7. ASSUME NEW u \in Users, NEW a \in LiquidityAmounts, NEW b \in LiquidityAmounts,
             AddLiquidity(u, a, b)
      PROVE  Claims(t)' <= held'[t]
  <2>1. a \in Nat /\ b \in Nat
    OBVIOUS
  <2>2. held'[t] = held[t] + (IF t = paymentToken THEN a ELSE 0)
                           + (IF t = swapPairToken THEN b ELSE 0)
    BY <1>7, <2>1 DEF AddLiquidity
  <2>3. /\ swapReserveA' = swapReserveA + a /\ swapReserveB' = swapReserveB + b
        /\ UNCHANGED <<tokens, earned>>
    BY <1>7 DEF AddLiquidity, CreditLiquidity
  <2>4. QED
    BY <1>0, <2>1, <2>2, <2>3
<1>8. ASSUME NEW u \in Users, NEW shares \in 1..lpShares[u], RemoveLiquidity(u, shares)
      PROVE  Claims(t)' <= held'[t]
  <2> DEFINE outA == (swapReserveA * shares) \div totalLpShares
             outB == (swapReserveB * shares) \div totalLpShares
  <2>1. /\ swapReserveA' = swapReserveA - outA /\ swapReserveB' = swapReserveB - outB
        /\ held'[t] = held[t] - (IF t = paymentToken THEN outA ELSE 0)
                              - (IF t = swapPairToken THEN outB ELSE 0)
        /\ UNCHANGED <<tokens, earned>>
    BY <1>8 DEF RemoveLiquidity
  <2>2. outA \in Nat /\ outB \in Nat
    BY <1>8, ShareNat DEF SharesType, RemoveLiquidity
  <2> HIDE DEF outA, outB
  <2>3. QED
    BY <1>0, <2>1, <2>2
<1>9. ASSUME NEW in \in SwapAmounts, SwapAForB(in) PROVE Claims(t)' <= held'[t]
  <2> DEFINE out == QuoteSwap(in, swapReserveA, swapReserveB)
  <2>1. in \in Nat /\ out \in Nat
    BY <1>9, QuoteNat DEF ReservesType, SwapAForB, WithinCap
  <2>2. /\ swapReserveA' = swapReserveA + in
        /\ swapReserveB' = swapReserveB - out
        /\ held'[t] = held[t] + (IF t = paymentToken THEN in ELSE 0)
                             - (IF t = swapPairToken THEN out ELSE 0)
        /\ UNCHANGED <<tokens, earned>>
    BY <1>9 DEF SwapAForB, Exchange
  <2> HIDE DEF out
  <2>3. QED
    BY <1>0, <2>1, <2>2
<1>10. ASSUME NEW in \in SwapAmounts, SwapBForA(in) PROVE Claims(t)' <= held'[t]
  <2> DEFINE out == QuoteSwap(in, swapReserveB, swapReserveA)
  <2>1. in \in Nat /\ out \in Nat
    BY <1>10, QuoteNat DEF ReservesType, SwapBForA, WithinCap
  <2>2. /\ swapReserveB' = swapReserveB + in
        /\ swapReserveA' = swapReserveA - out
        /\ held'[t] = held[t] + (IF t = swapPairToken THEN in ELSE 0)
                             - (IF t = paymentToken THEN out ELSE 0)
        /\ UNCHANGED <<tokens, earned>>
    BY <1>10 DEF SwapBForA, Exchange
  <2> HIDE DEF out
  <2>3. QED
    BY <1>0, <2>1, <2>2
<1>11. ASSUME NEW u \in Users, NEW amount \in BorrowAmounts, Borrow(u, amount)
       PROVE  Claims(t)' <= held'[t]
  <2>1. /\ amount \in Nat /\ swapReserveA' = swapReserveA - amount
        /\ UNCHANGED <<tokens, earned, swapReserveB>>
        /\ held' = [held EXCEPT ![paymentToken] = @ - amount]
    BY <1>11 DEF Borrow
  <2>2. held'[t] = held[t] - (IF t = paymentToken THEN amount ELSE 0)
    BY <2>1
  <2>3. QED
    BY <1>0, <2>1, <2>2
<1>12. ASSUME NEW u \in Users, NEW amount \in BorrowAmounts, Repay(u, amount)
       PROVE  Claims(t)' <= held'[t]
  <2>1. /\ amount \in Nat /\ swapReserveA' = swapReserveA + amount
        /\ UNCHANGED <<tokens, earned, swapReserveB>>
    BY <1>12 DEF Repay
  <2>2. held'[t] = held[t] + (IF t = paymentToken THEN amount ELSE 0)
    BY <1>12, <2>1 DEF Repay
  <2>3. QED
    BY <1>0, <2>1, <2>2
<1>13. ASSUME NEW u \in Users, NEW a \in LiquidityAmounts, NEW b \in LiquidityAmounts,
              /\ Claims(paymentToken) + a <= held[paymentToken]
              /\ swapPairToken \in Tokens =>
                    Claims(swapPairToken) + b <= held[swapPairToken]
              /\ paymentToken # swapPairToken
              /\ SeedSwapPool(u, a, b)
       PROVE  Claims(t)' <= held'[t]
  BY <1>0, <1>13 DEF SeedSwapPool, CreditLiquidity
<1>14. ASSUME NEW m \in Tokens, Mint(m) PROVE Claims(t)' <= held'[t]
  BY <1>0, <1>14 DEF Mint, pool
<1>15. ASSUME Configure PROVE Claims(t)' <= held'[t]
  <2>1. CASE UNCHANGED <<tokens, held, earned, pool>>
    BY <1>4, <2>1
  <2>2. CASE \E new \in Tokens : SetPaymentToken(new) \/ SetSwapPairToken(new)
    BY <1>5, <1>6, <2>2
  <2>3. QED
    BY <1>15, <2>1, <2>2 DEF Configure, SetRoyaltyBps, SetProtocolFeeBps,
       SetMaxPayCap, SetComputeRatioMax, SetSwapFeeBps, SetBorrowFactorBps, SetPaused
<1>16. ASSUME UNCHANGED vars PROVE Claims(t)' <= held'[t]
  BY <1>4, <1>16 DEF vars
<1>17. ASSUME SeedMinted PROVE Claims(t)' <= held'[t]
  BY <1>13, <1>17 DEF SeedMinted
<1>18. ASSUME Pay PROVE Claims(t)' <= held'[t]
  BY <1>1, <1>2, <1>3, <1>18 DEF Pay
<1>19. ASSUME Trade PROVE Claims(t)' <= held'[t]
  BY <1>7, <1>8, <1>9, <1>10, <1>11, <1>12, <1>19 DEF Trade
<1>20. QED
  BY <1>14, <1>15, <1>16, <1>17, <1>18, <1>19 DEF OpsNext

\* While the admin seeds only what it minted, the contract holds every unit it
\* owes, in each token, for any users, tokens, amounts and settings.
THEOREM ClaimsHold == OpsSpec => []ClaimsBacked
<1>1. Init => TypeOK /\ ClaimsBacked
  <2>1. ASSUME Init, NEW t \in Tokens PROVE Claims(t) <= held[t]
    <3>1. Claims(t) = 0 /\ held[t] = 0
      BY <2>1 DEF Init, Claims
    <3>2. QED
      BY <3>1
  <2>2. QED
    BY <2>1, TypeInit DEF ClaimsBacked
<1>2. TypeOK /\ ClaimsBacked /\ [OpsNext]_vars => TypeOK' /\ ClaimsBacked'
  BY TypeNext, OpsIsNext, ClaimsNext
<1>3. QED
  BY <1>1, <1>2, PTL DEF OpsSpec

\* The same with the reading the contract's comment gives it: under that
\* discipline reserve A and the earnings never overlap in the balance.
THEOREM EarningsApart == OpsSpec => []ReservesExcludeEarnings
<1>1. TypeOK /\ ClaimsBacked => ReservesExcludeEarnings
  <2> SUFFICES ASSUME TypeOK, ClaimsBacked PROVE ReservesExcludeEarnings
    OBVIOUS
  <2>1. Claims(paymentToken) <= held[paymentToken]
    BY DEF ClaimsBacked, TypeOK, TokensType
  <2>2. QED
    BY <2>1 DEF Claims, ReservesExcludeEarnings, TypeOK, TokensType, HeldType,
                EarnedType, ReservesType
<1>2. OpsSpec => []TypeOK
  <2>1. TypeOK /\ [OpsNext]_vars => TypeOK'
    BY TypeNext, OpsIsNext
  <2>2. QED
    BY TypeInit, <2>1, PTL DEF OpsSpec
<1>3. QED
  BY <1>1, <1>2, ClaimsHold, PTL

-----------------------------------------------------------------------------
(* The product of the reserves per squared share.                           *)

\* What a share of the pool is worth does not fall.
ShareWorthKept ==
    swapReserveA * swapReserveB * totalLpShares' * totalLpShares'
      <= swapReserveA' * swapReserveB' * totalLpShares * totalLpShares

\* Products of numbers that grow, grow.
LEMMA ProductsGrow ==
    ASSUME NEW a \in Nat, NEW b \in Nat, NEW c \in Nat, NEW d \in Nat, a <= c, b <= d
    PROVE  a * b <= c * d
<1>1. a * b <= a * d
  BY ProductGrows
<1>2. d * a <= d * c
  BY ProductGrows
<1>3. a * d = d * a /\ c * d = d * c
  OBVIOUS
<1>4. a * b \in Nat /\ a * d \in Nat /\ d * a \in Nat /\ d * c \in Nat /\ c * d \in Nat
  BY ProductNat
<1> QED
  BY <1>1, <1>2, <1>3, <1>4

\* Each reserve per share does not fall, so their product does not.
LEMMA Cross ==
    ASSUME NEW a \in Nat, NEW b \in Nat, NEW t \in Nat,
           NEW a2 \in Nat, NEW b2 \in Nat, NEW t2 \in Nat,
           a * t2 <= a2 * t, b * t2 <= b2 * t
    PROVE  a * b * t2 * t2 <= a2 * b2 * t * t
<1>1. a * t2 \in Nat /\ b * t2 \in Nat /\ a2 * t \in Nat /\ b2 * t \in Nat
  BY ProductNat
<1>2. (a * t2) * (b * t2) <= (a2 * t) * (b2 * t)
  BY <1>1, ProductsGrow
<1>3. (a * t2) * (b * t2) = a * b * t2 * t2 /\ (a2 * t) * (b2 * t) = a2 * b2 * t * t
  OBVIOUS
<1> QED
  BY <1>2, <1>3

\* A rounded quotient times its divisor is at most the dividend.
LEMMA QuotientTimes ==
    ASSUME NEW x \in Nat, NEW d \in Nat, d > 0
    PROVE  x \div d \in Nat /\ (x \div d) * d <= x
  OBVIOUS

\* Who adds a to a reserve r gets at most the shares that a buys.
LEMMA AddedPerShare ==
    ASSUME NEW r \in Nat, r > 0, NEW t \in Nat, NEW a \in Nat, NEW s \in Nat,
           s <= (a * t) \div r
    PROVE  r * (t + s) <= (r + a) * t
<1> DEFINE q == (a * t) \div r
<1>1. a * t \in Nat
  BY ProductNat
<1>2. q \in Nat /\ q * r <= a * t
  BY <1>1, QuotientTimes
<1> HIDE DEF q
<1>3. r * s <= r * q
  BY <1>2, ProductGrows DEF q
<1>4. r * (t + s) = r * t + r * s /\ (r + a) * t = r * t + a * t /\ r * q = q * r
  BY <1>2
<1>5. r * t \in Nat /\ r * s \in Nat /\ r * q \in Nat
  BY <1>2, ProductNat
<1> QED
  BY <1>1, <1>2, <1>3, <1>4, <1>5

\* Who gives back s of t shares takes at most that part of a reserve.
LEMMA RemovedPerShare ==
    ASSUME NEW r \in Nat, NEW t \in Nat, t > 0, NEW s \in Nat, s <= t
    PROVE  LET out == (r * s) \div t
           IN  out \in Nat /\ out <= r /\ r * (t - s) <= (r - out) * t
<1> DEFINE out == (r * s) \div t
<1>1. r * s \in Nat
  BY ProductNat
<1>2. out \in Nat /\ out * t <= r * s
  BY <1>1, QuotientTimes
<1> HIDE DEF out
<1>3. r * s <= r * t
  BY ProductGrows
<1>4. out * t \in Nat /\ r * t \in Nat
  BY <1>2, ProductNat
<1>5. out <= r
  <2>1. SUFFICES ASSUME r + 1 <= out PROVE FALSE
    BY <1>2
  <2>2. t * (r + 1) <= t * out
    BY <1>2, <2>1, ProductGrows
  <2>3. t * (r + 1) = r * t + t /\ t * out = out * t
    BY <1>2
  <2> QED
    BY <1>1, <1>2, <1>3, <1>4, <2>2, <2>3
<1>6. r * (t - s) = r * t - r * s /\ (r - out) * t = r * t - out * t
  BY <1>2
<1>7. r * (t - s) <= (r - out) * t
  BY <1>1, <1>2, <1>4, <1>6
<1> QED
  BY <1>2, <1>5, <1>7 DEF out

\* A swap's output is what keeps the product, less the fee.
LEMMA SwapKeepsProduct ==
    ASSUME TypeOK, NEW in \in Nat, in > 0, NEW rIn \in Nat, NEW rOut \in Nat,
           QuoteSwap(in, rIn, rOut) <= rOut
    PROVE  /\ QuoteSwap(in, rIn, rOut) \in Nat
           /\ rIn * rOut <= (rIn + in) * (rOut - QuoteSwap(in, rIn, rOut))
<1> DEFINE keep == 10000 - swapFeeBps
           w == in * keep
           d == rIn * 10000 + w
           out == QuoteSwap(in, rIn, rOut)
<1>1. keep \in 9000..10000
  BY DEF TypeOK, SettingsType
<1>2. w \in Nat /\ w <= in * 10000 /\ w > 0
  <2> HIDE DEF keep
  <2>1. w \in Nat /\ w <= in * 10000
    BY <1>1, ProductNat, ProductGrows
  <2>2. in * 9000 <= w
    BY <1>1, ProductGrows
  <2> QED
    BY <2>1, <2>2
<1>3. out = (rOut * w) \div d
  BY DEF QuoteSwap, BPS_DENOMINATOR
<1> HIDE DEF keep, w, out
<1>4. d \in Nat /\ d > 0 /\ d <= (rIn + in) * 10000
  BY <1>2
<1> HIDE DEF d
<1>5. rOut * w \in Nat
  BY <1>2, ProductNat
<1>6. out \in Nat /\ out * d <= rOut * w
  BY <1>3, <1>4, <1>5, QuotientTimes
<1>7. rOut - out \in Nat
  BY <1>6 DEF out
<1>8. (rOut - out) * d <= (rOut - out) * ((rIn + in) * 10000)
  <2>1. (rIn + in) * 10000 \in Nat
    OBVIOUS
  <2> QED
    BY <1>4, <1>7, <2>1, ProductGrows
<1>9. (rOut - out) * d = rOut * d - out * d
  BY <1>4, <1>6
<1>10. rOut * d = rOut * (rIn * 10000) + rOut * w
  BY <1>2 DEF d
<1>11. rOut * (rIn * 10000) = (rIn * rOut) * 10000
  OBVIOUS
<1>12. (rOut - out) * ((rIn + in) * 10000) = ((rIn + in) * (rOut - out)) * 10000
  BY <1>7
<1>13. /\ rIn * rOut \in Nat /\ (rIn + in) * (rOut - out) \in Nat
       /\ out * d \in Nat /\ rOut * d \in Nat
  BY <1>4, <1>6, <1>7, ProductNat
<1>14. (rIn * rOut) * 10000 <= ((rIn + in) * (rOut - out)) * 10000
  BY <1>5, <1>6, <1>8, <1>9, <1>10, <1>11, <1>12, <1>13
<1>15. rIn * rOut <= (rIn + in) * (rOut - out)
  BY <1>13, <1>14
<1> QED
  BY <1>6, <1>15 DEF out

\* Crediting liquidity to a pool that has shares.
LEMMA CreditKeeps ==
    ASSUME TypeOK, totalLpShares > 0, NEW u \in Users, NEW a \in Nat, NEW b \in Nat,
           CreditLiquidity(u, a, b)
    PROVE  ShareWorthKept
<1>1. swapReserveA \in Nat /\ swapReserveB \in Nat /\ totalLpShares \in Nat
  BY DEF TypeOK, ReservesType, SharesType
<1>2. swapReserveA > 0 /\ swapReserveB > 0
  BY DEF CreditLiquidity
<1> DEFINE s == LaterShares(a, b)
<1>3. /\ s > 0 /\ totalLpShares' = totalLpShares + s
      /\ swapReserveA' = swapReserveA + a /\ swapReserveB' = swapReserveB + b
  BY <1>1 DEF CreditLiquidity
<1>4. /\ (a * totalLpShares) \div swapReserveA \in Nat
      /\ (b * totalLpShares) \div swapReserveB \in Nat
  BY <1>1, <1>2, ShareNat
<1>5. /\ s \in Nat /\ s <= (a * totalLpShares) \div swapReserveA
      /\ s <= (b * totalLpShares) \div swapReserveB
  BY <1>4 DEF LaterShares, MinOf
<1> HIDE DEF s
<1>6. swapReserveA * totalLpShares' <= swapReserveA' * totalLpShares
  BY <1>1, <1>2, <1>3, <1>5, AddedPerShare
<1>7. swapReserveB * totalLpShares' <= swapReserveB' * totalLpShares
  BY <1>1, <1>2, <1>3, <1>5, AddedPerShare
<1>8. totalLpShares' \in Nat /\ swapReserveA' \in Nat /\ swapReserveB' \in Nat
  BY <1>1, <1>3, <1>5
<1> QED
  BY <1>1, <1>6, <1>7, <1>8, Cross DEF ShareWorthKept

\* Taking liquidity out does not lower the product per share.
LEMMA RemoveKeeps ==
    ASSUME TypeOK, totalLpShares > 0, NEW u \in Users, NEW shares \in Nat,
           RemoveLiquidity(u, shares)
    PROVE  ShareWorthKept
<1>1. swapReserveA \in Nat /\ swapReserveB \in Nat /\ totalLpShares \in Nat
  BY DEF TypeOK, ReservesType, SharesType
<1> DEFINE outA == (swapReserveA * shares) \div totalLpShares
           outB == (swapReserveB * shares) \div totalLpShares
<1>2. /\ shares <= totalLpShares /\ totalLpShares' = totalLpShares - shares
      /\ swapReserveA' = swapReserveA - outA /\ swapReserveB' = swapReserveB - outB
  BY DEF RemoveLiquidity
<1>3. /\ outA \in Nat /\ outA <= swapReserveA
      /\ swapReserveA * (totalLpShares - shares) <= (swapReserveA - outA) * totalLpShares
  BY <1>1, <1>2, RemovedPerShare
<1>4. /\ outB \in Nat /\ outB <= swapReserveB
      /\ swapReserveB * (totalLpShares - shares) <= (swapReserveB - outB) * totalLpShares
  BY <1>1, <1>2, RemovedPerShare
<1> HIDE DEF outA, outB
<1>5. totalLpShares' \in Nat /\ swapReserveA' \in Nat /\ swapReserveB' \in Nat
  BY <1>1, <1>2, <1>3, <1>4
<1>6. /\ swapReserveA * totalLpShares' <= swapReserveA' * totalLpShares
      /\ swapReserveB * totalLpShares' <= swapReserveB' * totalLpShares
  BY <1>2, <1>3, <1>4
<1> QED
  BY <1>1, <1>5, <1>6, Cross DEF ShareWorthKept

\* With the shares as they were, the product of the reserves decides.
LEMMA SameShares ==
    ASSUME TypeOK, TypeOK', UNCHANGED totalLpShares,
           swapReserveA * swapReserveB <= swapReserveA' * swapReserveB'
    PROVE  ShareWorthKept
<1> DEFINE x == swapReserveA * swapReserveB
           y == swapReserveA' * swapReserveB'
           t == totalLpShares
<1>1. x \in Nat /\ y \in Nat /\ t \in Nat
  BY ProductNat DEF TypeOK, ReservesType, SharesType
<1>2. x <= y
  OBVIOUS
<1>3. swapReserveA * swapReserveB * totalLpShares' * totalLpShares' = x * t * t
  OBVIOUS
<1>4. swapReserveA' * swapReserveB' * totalLpShares * totalLpShares = y * t * t
  OBVIOUS
<1> HIDE DEF x, y, t
<1>5. x * t <= y * t
  BY <1>1, <1>2, ProductsGrow
<1>6. x * t \in Nat /\ y * t \in Nat
  BY <1>1, ProductNat
<1>7. x * t * t <= y * t * t
  BY <1>1, <1>5, <1>6, ProductsGrow
<1> QED
  BY <1>3, <1>4, <1>7 DEF ShareWorthKept

\* No step of the contract lowers the product per share squared, unless somebody borrows.
LEMMA WorthNext ==
    TypeOK /\ TypeOK' /\ [Next]_vars /\ totalLpShares > 0
    /\ (\A u \in Users : borrowDebt'[u] <= borrowDebt[u]) => ShareWorthKept
<1> SUFFICES ASSUME TypeOK, TypeOK', [Next]_vars, totalLpShares > 0,
                    \A u \in Users : borrowDebt'[u] <= borrowDebt[u]
             PROVE  ShareWorthKept
  OBVIOUS
<1>0. /\ swapReserveA \in Nat /\ swapReserveB \in Nat /\ totalLpShares \in Nat
      /\ swapReserveA' \in Nat /\ swapReserveB' \in Nat
  BY DEF TypeOK, ReservesType, SharesType
<1>1. ASSUME UNCHANGED <<reserves, lps>> PROVE ShareWorthKept
  <2>1. UNCHANGED <<swapReserveA, swapReserveB, totalLpShares>>
    BY <1>1 DEF reserves, lps
  <2>2. swapReserveA * swapReserveB <= swapReserveA' * swapReserveB'
    <3>1. swapReserveA * swapReserveB \in Nat
      BY <1>0, ProductNat
    <3> QED
      BY <2>1, <3>1
  <2> QED
    BY <2>1, <2>2, SameShares
<1>2. ASSUME NEW u \in Users, NEW a \in LiquidityAmounts, NEW b \in LiquidityAmounts,
             AddLiquidity(u, a, b) \/ SeedSwapPool(u, a, b)
      PROVE  ShareWorthKept
  <2>1. a \in Nat /\ b \in Nat
    BY PaymentAssumption
  <2>2. CreditLiquidity(u, a, b)
    BY <1>2 DEF AddLiquidity, SeedSwapPool
  <2> QED
    BY <2>1, <2>2, CreditKeeps
<1>3. ASSUME NEW u \in Users, NEW shares \in 1..lpShares[u], RemoveLiquidity(u, shares)
      PROVE  ShareWorthKept
  <2>1. shares \in Nat
    BY DEF TypeOK, SharesType
  <2> QED
    BY <1>3, <2>1, RemoveKeeps
<1>4. ASSUME NEW in \in SwapAmounts, SwapAForB(in) PROVE ShareWorthKept
  <2> DEFINE out == QuoteSwap(in, swapReserveA, swapReserveB)
  <2>1. in \in Nat /\ in > 0
    BY <1>4, PaymentAssumption DEF SwapAForB, WithinCap
  <2>2. /\ out <= swapReserveB /\ swapReserveA' = swapReserveA + in
        /\ swapReserveB' = swapReserveB - out /\ UNCHANGED totalLpShares
    BY <1>4 DEF SwapAForB, lps
  <2>3. swapReserveA * swapReserveB <= (swapReserveA + in) * (swapReserveB - out)
    BY <1>0, <2>1, <2>2, SwapKeepsProduct
  <2> HIDE DEF out
  <2> QED
    BY <2>2, <2>3, SameShares
<1>5. ASSUME NEW in \in SwapAmounts, SwapBForA(in) PROVE ShareWorthKept
  <2> DEFINE out == QuoteSwap(in, swapReserveB, swapReserveA)
  <2>1. in \in Nat /\ in > 0
    BY <1>5, PaymentAssumption DEF SwapBForA, WithinCap
  <2>2. /\ out <= swapReserveA /\ swapReserveB' = swapReserveB + in
        /\ swapReserveA' = swapReserveA - out /\ UNCHANGED totalLpShares
    BY <1>5 DEF SwapBForA, lps
  <2>3. swapReserveB * swapReserveA <= (swapReserveB + in) * (swapReserveA - out)
    BY <1>0, <2>1, <2>2, SwapKeepsProduct
  <2> HIDE DEF out
  <2>4. /\ swapReserveB * swapReserveA = swapReserveA * swapReserveB
        /\ swapReserveB' * swapReserveA' = swapReserveA' * swapReserveB'
    BY <1>0
  <2> QED
    BY <2>2, <2>3, <2>4, SameShares
<1>6. ASSUME NEW u \in Users, NEW amount \in BorrowAmounts, Borrow(u, amount) PROVE FALSE
  <2>1. amount \in Nat /\ amount > 0
    BY <1>6, PaymentAssumption DEF Borrow, WithinCap
  <2>2. borrowDebt'[u] = borrowDebt[u] + amount /\ borrowDebt[u] \in Nat
    BY <1>6 DEF Borrow, TypeOK, DebtType
  <2> QED
    BY <2>1, <2>2
<1>7. ASSUME NEW u \in Users, NEW amount \in BorrowAmounts, Repay(u, amount)
      PROVE  ShareWorthKept
  <2>1. /\ swapReserveA' = swapReserveA + amount
        /\ UNCHANGED <<swapReserveB, totalLpShares>>
    BY <1>7 DEF Repay, lps
  <2>2. swapReserveA <= swapReserveA'
    BY <1>0, <2>1, PaymentAssumption
  <2>3. swapReserveA * swapReserveB <= swapReserveA' * swapReserveB'
    BY <1>0, <2>1, <2>2, ProductsGrow
  <2> QED
    BY <2>1, <2>3, SameShares
<1>8. ASSUME Pay \/ Configure \/ \E t \in Tokens : Mint(t) PROVE ShareWorthKept
  <2>1. UNCHANGED pool
    BY <1>8 DEF Pay, PayForAgent, PayForAgentAndCompute, WithdrawAgentEarnings, Mint,
                Configure, SetRoyaltyBps, SetProtocolFeeBps, SetMaxPayCap,
                SetComputeRatioMax, SetSwapFeeBps, SetBorrowFactorBps, SetPaused,
                SetPaymentToken, SetSwapPairToken
  <2> QED
    BY <1>1, <2>1 DEF pool
<1>9. CASE UNCHANGED vars
  BY <1>1, <1>9 DEF vars, pool
<1> QED
  BY <1>2, <1>3, <1>4, <1>5, <1>6, <1>7, <1>8, <1>9 DEF Next, Trade, Seed

\* As long as nobody borrows, no step, whatever it rounds, takes value out of a share of the
\* pool: deposits, withdrawals, swaps in both directions, repayments and seeds, for every
\* amount and every fee the contract accepts.
THEOREM ProductKept == Spec => ProductPerShareKept
<1>1. TypeOK /\ TypeOK' /\ [Next]_vars =>
        ((totalLpShares > 0 /\ \A u \in Users : borrowDebt'[u] <= borrowDebt[u])
          => swapReserveA' * swapReserveB' * totalLpShares * totalLpShares
             >= swapReserveA * swapReserveB * totalLpShares' * totalLpShares')
  BY WorthNext DEF ShareWorthKept, TypeOK, ReservesType, SharesType
<1> QED
  BY <1>1, TypeCorrect, PTL DEF Spec, ProductPerShareKept

=============================================================================
