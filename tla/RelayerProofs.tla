---------------------------- MODULE RelayerProofs ----------------------------
(***************************************************************************)
(* Theorems about sponsored execution, on chain and off: GasTank, the      *)
(* contract that relays a signed call and pays the relayer, for every      *)
(* finite set of users and every value of the bounds; and RelayerQueue,    *)
(* the backend's pipeline that feeds it, for any number of wallets,        *)
(* records, relays and restarts.                                           *)
(***************************************************************************)
EXTENDS GasTank, RelayerQueue, Sums, FiniteSetTheorems, TLAPS

-----------------------------------------------------------------------------
(* Arithmetic of a reimbursement.                                           *)

\* The three-way minimum of phase 6 is a natural number, at most what the
\* user signed and at most the measured cost.
LEMMA ReimburseBound ==
    ASSUME NEW c \in Calls, NEW measured \in Nat, NEW price \in Nat,
           maxGasPerOp \in Nat
    PROVE  /\ Reimburse(c, measured, price) \in Nat
           /\ Reimburse(c, measured, price) <= c.maxGasCost
           /\ Reimburse(c, measured, price) <= measured * price
<1> DEFINE cost == measured * price
           cap == maxGasPerOp * price
<1>1. cost \in Nat /\ cap \in Nat
  OBVIOUS
<1>2. c.maxGasCost \in Nat
  BY DEF Calls
<1>3. Reimburse(c, measured, price) = Least(Least(cost, c.maxGasCost), cap)
  BY DEF Reimburse
<1> HIDE DEF cost, cap
<1>4. /\ Reimburse(c, measured, price) \in Nat
      /\ Reimburse(c, measured, price) <= c.maxGasCost
      /\ Reimburse(c, measured, price) <= cost
  BY <1>1, <1>2, <1>3 DEF Least
<1>5. QED
  BY <1>4 DEF cost

\* The grant share of a payment never exceeds the grant nor the payment, and
\* leaves own wei alone unless the grant is used up.
LEMMA GrantShareBound ==
    ASSUME NEW u, NEW amount \in Nat, grantBalance[u] \in Nat
    PROVE  /\ GrantShare(u, amount) \in Nat
           /\ GrantShare(u, amount) <= grantBalance[u]
           /\ GrantShare(u, amount) <= amount
           /\ GrantShare(u, amount) < amount
                 => GrantShare(u, amount) = grantBalance[u]
  BY DEF GrantShare, Least

-----------------------------------------------------------------------------
(* Type correctness.                                                        *)

LEMMA TypeInit == Init => TypeOK
  BY TankAssumption DEF Init, TypeOK

LEMMA TypeNext == TypeOK /\ [Next]_vars => TypeOK'
<1> SUFFICES ASSUME TypeOK, [Next]_vars PROVE TypeOK'
  OBVIOUS
<1> USE TankAssumption
<1>1. ASSUME NEW g \in GasGrants, SetGasGrant(g) PROVE TypeOK'
  BY <1>1 DEF TypeOK, SetGasGrant, accounts, window, pools, history
<1>2. ASSUME NEW n \in GrantCaps, SetGrantsCap(n) PROVE TypeOK'
  BY <1>2 DEF TypeOK, SetGrantsCap, accounts, window, pools, history
<1>3. ASSUME NEW n \in OpCaps, SetMaxGasPerOp(n) PROVE TypeOK'
  BY <1>3 DEF TypeOK, SetMaxGasPerOp, accounts, window, pools, history
<1>4. ASSUME NEW l \in DailyLimits, SetDailyLimit(l) PROVE TypeOK'
  <2>1. ASSUME NEW c \in inflight PROVE [c EXCEPT !.windowed = FALSE] \in Calls
    BY DEF TypeOK, Calls
  <2>2. inflight' \in SUBSET Calls
    BY <1>4, <2>1 DEF SetDailyLimit
  <2>3. QED
    BY <1>4, <2>2 DEF TypeOK, SetDailyLimit, accounts, window, pools
<1>5. ASSUME NEW a \in Amounts, DepositReserve(a) PROVE TypeOK'
  BY <1>5 DEF TypeOK, DepositReserve, accounts, window, settings, history
<1>6. ASSUME RecoverReserve PROVE TypeOK'
  BY <1>6 DEF TypeOK, RecoverReserve, accounts, window, pools, settings,
              history
<1>7. ASSUME NEW u \in Users, NEW a \in Amounts, Deposit(u, a) PROVE TypeOK'
  BY <1>7 DEF TypeOK, Deposit, window, settings
<1>8. ASSUME NEW u \in Users, NEW a \in Amounts, WithdrawTank(u, a)
      PROVE  TypeOK'
  BY <1>8 DEF TypeOK, WithdrawTank, window, settings
<1>9. ASSUME NEW u \in Users, GrantCredit(u) PROVE TypeOK'
  BY <1>9 DEF TypeOK, GrantCredit, CanGrant, IssueGrant, window, settings,
              history
<1>10. ASSUME NEW u \in Users, NEW m \in Amounts, NEW n \in 0..MaxNonce,
              NEW d \in 0..MaxDay, RelayBegin(u, m, n, d)
       PROVE  TypeOK'
  <2>1. /\ tank' \in [Users -> Nat] /\ grantBalance' \in [Users -> Nat]
        /\ grantsUsed' \in [Users -> Nat] /\ gasReserve' \in Nat
        /\ totalTankBalance' \in Nat
    BY <1>10 DEF TypeOK, RelayBegin, LazyGrant, CanGrant, IssueGrant,
                 accounts, pools
  <2>2. dailySpent' \in [Users -> Nat] /\ resetDay' \in [Users -> Nat]
    BY <1>10 DEF TypeOK, RelayBegin, EnterWindow, SpentToday, window
  <2>3. inflight' \in SUBSET Calls /\ nonces' \in [Users -> Nat]
    BY <1>10 DEF TypeOK, RelayBegin, Calls
  <2>4. QED
    BY <1>10, <2>1, <2>2, <2>3 DEF TypeOK, RelayBegin, settings, history
<1>11. ASSUME NEW measured \in GasMeasures, NEW price \in GasPrices,
              RelaySettle(measured, price)
       PROVE  TypeOK'
  <2>1. PICK c \in inflight : RelaySettle(measured, price)!(c)
    BY <1>11 DEF RelaySettle
  <2> DEFINE paid == Reimburse(c, measured, price)
  <2>2. c \in Calls /\ c.user \in Users
    BY DEF TypeOK, Calls
  <2>3. paid \in Nat
    BY <2>2, ReimburseBound DEF TypeOK
  <2>4. /\ GrantShare(c.user, paid) \in Nat
        /\ GrantShare(c.user, paid) <= grantBalance[c.user]
    BY <2>2, <2>3, GrantShareBound DEF TypeOK
  <2> HIDE DEF paid
  <2>5. tank' \in [Users -> Nat] /\ grantBalance' \in [Users -> Nat]
    BY <2>1, <2>2, <2>3, <2>4 DEF TypeOK, paid
  <2>6. dailySpent' \in [Users -> Nat] /\ windowPaid' \in [Users -> Nat]
    BY <2>1, <2>2, <2>3 DEF TypeOK, paid, ChargeWindow
  <2>7. totalTankBalance' \in Nat /\ balance' \in Nat /\ inflight' = {}
    BY <2>1, <2>3 DEF TypeOK, paid
  <2>8. QED
    BY <2>1, <2>5, <2>6, <2>7 DEF TypeOK, settings
<1>12. ASSUME NextDay PROVE TypeOK'
  BY <1>12 DEF TypeOK, NextDay, accounts, window, pools, settings
<1>13. ASSUME NEW a \in Amounts, ForceSend(a) PROVE TypeOK'
  BY <1>13 DEF TypeOK, ForceSend, accounts, window, pools, settings, history
<1>14. CASE UNCHANGED vars
  BY <1>14 DEF TypeOK, vars, accounts, window, pools, settings, history
<1>15. QED
  BY <1>1, <1>2, <1>3, <1>4, <1>5, <1>6, <1>7, <1>8, <1>9, <1>10, <1>11,
     <1>12, <1>13, <1>14
     DEF Next, OwnerStep, UserStep, RelayerStep, ChainStep

\* Every variable keeps its type: with the checked subtractions, no balance
\* of the contract wraps below zero.
THEOREM TypeCorrect == Spec => []TypeOK
<1>1. QED
  BY TypeInit, TypeNext, PTL DEF Spec

-----------------------------------------------------------------------------
(* Money: solvency, grants inside tanks, grants spend-only.                 *)

MoneyInv == Solvent /\ GrantWithinTank /\ GrantsAreSpendOnly

LEMMA MoneyInit == Init => MoneyInv
  BY DEF Init, MoneyInv, Solvent, GrantWithinTank, GrantsAreSpendOnly

LEMMA MoneyNext == TypeOK /\ MoneyInv /\ [Next]_vars => MoneyInv'
<1> SUFFICES ASSUME TypeOK, MoneyInv, [Next]_vars PROVE MoneyInv'
  OBVIOUS
<1> USE TankAssumption DEF MoneyInv, Solvent, GrantWithinTank, GrantsAreSpendOnly, TypeOK,
           accounts, window, pools, settings, history
<1>1. ASSUME NEW g \in GasGrants, SetGasGrant(g)
      PROVE  MoneyInv'
  BY <1>1 DEF SetGasGrant
<1>2. ASSUME NEW n \in GrantCaps, SetGrantsCap(n)
      PROVE  MoneyInv'
  BY <1>2 DEF SetGrantsCap
<1>3. ASSUME NEW n \in OpCaps, SetMaxGasPerOp(n)
      PROVE  MoneyInv'
  BY <1>3 DEF SetMaxGasPerOp
<1>4. ASSUME NEW l \in DailyLimits, SetDailyLimit(l)
      PROVE  MoneyInv'
  BY <1>4 DEF SetDailyLimit
<1>5. ASSUME NEW a \in Amounts, DepositReserve(a)
      PROVE  MoneyInv'
  BY <1>5 DEF DepositReserve
<1>6. ASSUME RecoverReserve
      PROVE  MoneyInv'
  BY <1>6 DEF RecoverReserve
<1>7. ASSUME NEW u \in Users, NEW a \in Amounts, Deposit(u, a)
      PROVE  MoneyInv'
  BY <1>7 DEF Deposit
<1>8. ASSUME NEW u \in Users, NEW a \in Amounts, WithdrawTank(u, a)
      PROVE  MoneyInv'
  <2>1. Solvent'
    BY <1>8 DEF WithdrawTank
  <2>2. \A v \in Users : /\ grantBalance'[v] <= tank'[v]
                         /\ tank'[v] - grantBalance'[v] <= contributed'[v]
    BY <1>8 DEF WithdrawTank, Withdrawable
  <2>3. QED
    BY <2>1, <2>2
<1>9. ASSUME NEW u \in Users, GrantCredit(u)
      PROVE  MoneyInv'
  BY <1>9 DEF GrantCredit, CanGrant, IssueGrant
<1>10. ASSUME NEW u \in Users, NEW m \in Amounts, NEW n \in 0..MaxNonce,
             NEW d \in 0..MaxDay, RelayBegin(u, m, n, d)
      PROVE  MoneyInv'
  BY <1>10 DEF RelayBegin, LazyGrant, CanGrant, IssueGrant, TankForRelay,
           NeedsGrant
<1>11. ASSUME NEW measured \in GasMeasures, NEW price \in GasPrices,
             RelaySettle(measured, price)
      PROVE  MoneyInv'
  <2>1. PICK c \in inflight : RelaySettle(measured, price)!(c)
    BY <1>11 DEF RelaySettle
  <2> DEFINE paid == Reimburse(c, measured, price)
  <2>2. c \in Calls /\ c.user \in Users /\ c.maxGasCost \in Nat
    BY DEF TypeOK, Calls
  <2>3. paid \in Nat /\ paid <= c.maxGasCost
    BY <2>2, ReimburseBound DEF TypeOK
  <2>4. /\ GrantShare(c.user, paid) \in Nat
        /\ GrantShare(c.user, paid) <= grantBalance[c.user]
        /\ GrantShare(c.user, paid) <= paid
        /\ GrantShare(c.user, paid) < paid
              => GrantShare(c.user, paid) = grantBalance[c.user]
    BY <2>2, <2>3, GrantShareBound DEF TypeOK
  <2> HIDE DEF paid
  <2>5. Solvent'
    BY <2>1, <2>3 DEF MoneyInv, Solvent, TypeOK, paid
  <2>6. GrantWithinTank'
    BY <2>1, <2>2, <2>3, <2>4 DEF MoneyInv, GrantWithinTank, TypeOK, paid
  <2>7. GrantsAreSpendOnly'
    BY <2>1, <2>2, <2>3, <2>4 DEF MoneyInv, GrantWithinTank,
       GrantsAreSpendOnly, TypeOK, paid
  <2>8. QED
    BY <2>5, <2>6, <2>7 DEF MoneyInv
<1>12. ASSUME NextDay
      PROVE  MoneyInv'
  BY <1>12 DEF NextDay
<1>13. ASSUME NEW a \in Amounts, ForceSend(a)
      PROVE  MoneyInv'
  BY <1>13 DEF ForceSend
<1>14. CASE UNCHANGED vars
  BY <1>14 DEF vars
<1>15. QED
  BY <1>1, <1>2, <1>3, <1>4, <1>5, <1>6, <1>7, <1>8, <1>9,
     <1>10, <1>11, <1>12, <1>13, <1>14
     DEF Next, OwnerStep, UserStep, RelayerStep, ChainStep

\* Tracked wei is backed by native wei in every reachable state, whatever the
\* target of a relay calls back into.
THEOREM SolvencyHolds == Spec => []Solvent
<1>1. Spec => []MoneyInv
  BY TypeCorrect, MoneyInit, MoneyNext, PTL DEF Spec
<1>2. MoneyInv => Solvent
  BY DEF MoneyInv
<1>3. QED
  BY <1>1, <1>2, PTL

\* Unspent grant wei is always inside the tank, and no user ever withdraws
\* more than was deposited: grants only pay for relays.
THEOREM GrantsHold == Spec => [](GrantWithinTank /\ GrantsAreSpendOnly)
<1>1. Spec => []MoneyInv
  BY TypeCorrect, MoneyInit, MoneyNext, PTL DEF Spec
<1>2. MoneyInv => GrantWithinTank /\ GrantsAreSpendOnly
  BY DEF MoneyInv
<1>3. QED
  BY <1>1, <1>2, PTL

-----------------------------------------------------------------------------
(* The counter of the tanks is their sum.                                   *)

\* One tank changes, and the counter by as much.
OneTankChanges ==
    \E u \in Users, v \in Nat :
        /\ tank' = [tank EXCEPT ![u] = v]
        /\ totalTankBalance' = totalTankBalance - tank[u] + v

\* A step leaves tanks and counter alone, or moves one tank and the counter with it.
LEMMA TankStep ==
    TypeOK /\ [Next]_vars => UNCHANGED <<tank, totalTankBalance>> \/ OneTankChanges
<1> SUFFICES ASSUME TypeOK, [Next]_vars
             PROVE  UNCHANGED <<tank, totalTankBalance>> \/ OneTankChanges
  OBVIOUS
<1> USE TankAssumption DEF accounts, window, pools, settings, history
<1>1. ASSUME OwnerStep PROVE UNCHANGED <<tank, totalTankBalance>>
  BY <1>1 DEF OwnerStep, SetGasGrant, SetGrantsCap, SetMaxGasPerOp, SetDailyLimit,
              DepositReserve, RecoverReserve
<1>2. ASSUME NEW u \in Users, NEW a \in Amounts, Deposit(u, a) PROVE OneTankChanges
  <2>1. tank[u] + a \in Nat /\ totalTankBalance + a = totalTankBalance - tank[u] + (tank[u] + a)
    BY DEF TypeOK
  <2> QED
    BY <1>2, <2>1 DEF Deposit, OneTankChanges
<1>3. ASSUME NEW u \in Users, NEW a \in Amounts, WithdrawTank(u, a) PROVE OneTankChanges
  <2>1. tank[u] - a \in Nat /\ totalTankBalance - a = totalTankBalance - tank[u] + (tank[u] - a)
    BY <1>3 DEF TypeOK, WithdrawTank
  <2> QED
    BY <1>3, <2>1 DEF WithdrawTank, OneTankChanges
<1>4. ASSUME NEW u \in Users, IssueGrant(u) PROVE OneTankChanges
  <2>1. /\ tank[u] + gasGrant \in Nat
        /\ totalTankBalance + gasGrant = totalTankBalance - tank[u] + (tank[u] + gasGrant)
    BY DEF TypeOK
  <2> QED
    BY <1>4, <2>1 DEF IssueGrant, OneTankChanges
<1>5. ASSUME NEW u \in Users, NEW m \in Amounts, NEW n \in 0..MaxNonce,
             NEW d \in 0..MaxDay, RelayBegin(u, m, n, d)
      PROVE  UNCHANGED <<tank, totalTankBalance>> \/ OneTankChanges
  BY <1>4, <1>5 DEF RelayBegin, LazyGrant
<1>6. ASSUME NEW measured \in GasMeasures, NEW price \in GasPrices,
             RelaySettle(measured, price)
      PROVE  OneTankChanges
  <2>1. PICK c \in inflight : RelaySettle(measured, price)!(c)
    BY <1>6 DEF RelaySettle
  <2> DEFINE paid == Reimburse(c, measured, price)
  <2>2. c \in Calls /\ c.user \in Users
    BY DEF TypeOK, Calls
  <2>3. paid \in Nat
    BY <2>2, ReimburseBound DEF TypeOK
  <2>4. /\ paid <= tank[c.user] /\ tank' = [tank EXCEPT ![c.user] = tank[c.user] - paid]
        /\ totalTankBalance' = totalTankBalance - paid
    BY <2>1
  <2> HIDE DEF paid
  <2>5. /\ tank[c.user] - paid \in Nat
        /\ totalTankBalance - paid = totalTankBalance - tank[c.user] + (tank[c.user] - paid)
    BY <2>2, <2>3, <2>4 DEF TypeOK
  <2> QED
    BY <2>2, <2>4, <2>5 DEF OneTankChanges
<1>7. ASSUME ChainStep PROVE UNCHANGED <<tank, totalTankBalance>>
  BY <1>7 DEF ChainStep, NextDay, ForceSend
<1>8. CASE UNCHANGED vars
  BY <1>8 DEF vars
<1>9. ASSUME NEW u \in Users, GrantCredit(u) PROVE OneTankChanges
  BY <1>4, <1>9 DEF GrantCredit
<1> QED
  BY <1>1, <1>2, <1>3, <1>5, <1>6, <1>7, <1>8, <1>9 DEF Next, UserStep, RelayerStep

\* totalTankBalance is the sum of all tanks in every reachable state: what recoverReserve
\* takes for surplus never contains wei that a user owns.
THEOREM TotalIsSum == Spec => []TotalIsSumOfTanks
<1>1. Init => TotalIsSumOfTanks
  <2> SUFFICES ASSUME Init PROVE TotalIsSumOfTanks
    OBVIOUS
  <2>1. tank \in [Users -> Int] /\ totalTankBalance = 0 /\ \A u \in Users : tank[u] = 0
    BY DEF Init
  <2> QED
    BY <2>1, UsersAssumption, SumZero DEF TotalIsSumOfTanks
<1>2. TypeOK /\ TotalIsSumOfTanks /\ [Next]_vars => TotalIsSumOfTanks'
  <2> SUFFICES ASSUME TypeOK, TotalIsSumOfTanks, [Next]_vars PROVE TotalIsSumOfTanks'
    OBVIOUS
  <2>1. CASE UNCHANGED <<tank, totalTankBalance>>
    BY <2>1 DEF TotalIsSumOfTanks
  <2>2. CASE OneTankChanges
    <3>1. PICK u \in Users, v \in Nat :
             /\ tank' = [tank EXCEPT ![u] = v]
             /\ totalTankBalance' = totalTankBalance - tank[u] + v
      BY <2>2 DEF OneTankChanges
    <3>2. tank \in [Users -> Int] /\ v \in Int
      BY DEF TypeOK
    <3>3. SumFunction([tank EXCEPT ![u] = v]) = SumFunction(tank) - tank[u] + v
      BY <3>2, UsersAssumption, SumChange
    <3> QED
      BY <3>1, <3>3 DEF TotalIsSumOfTanks
  <2> QED
    BY <2>1, <2>2, TankStep
<1> QED
  BY <1>1, <1>2, TypeCorrect, PTL DEF Spec

-----------------------------------------------------------------------------
(* Admission: nothing that runs during the target call uncovers a relay.    *)

LEMMA AdmittedNext ==
    TypeOK /\ AdmittedIsCovered /\ [Next]_vars => AdmittedIsCovered'
<1> SUFFICES ASSUME TypeOK, AdmittedIsCovered, [Next]_vars
             PROVE  AdmittedIsCovered'
  OBVIOUS
<1> USE TankAssumption DEF AdmittedIsCovered, TypeOK, Calls,
           accounts, window, pools, settings, history
<1>1. ASSUME NEW g \in GasGrants, SetGasGrant(g)
      PROVE  AdmittedIsCovered'
  BY <1>1 DEF SetGasGrant
<1>2. ASSUME NEW n \in GrantCaps, SetGrantsCap(n)
      PROVE  AdmittedIsCovered'
  BY <1>2 DEF SetGrantsCap
<1>3. ASSUME NEW n \in OpCaps, SetMaxGasPerOp(n)
      PROVE  AdmittedIsCovered'
  BY <1>3 DEF SetMaxGasPerOp
<1>4. ASSUME NEW l \in DailyLimits, SetDailyLimit(l)
      PROVE  AdmittedIsCovered'
  BY <1>4 DEF SetDailyLimit
<1>5. ASSUME NEW a \in Amounts, DepositReserve(a)
      PROVE  AdmittedIsCovered'
  BY <1>5 DEF DepositReserve
<1>6. ASSUME RecoverReserve
      PROVE  AdmittedIsCovered'
  BY <1>6 DEF RecoverReserve
<1>7. ASSUME NEW u \in Users, NEW a \in Amounts, Deposit(u, a)
      PROVE  AdmittedIsCovered'
  BY <1>7 DEF Deposit
<1>8. ASSUME NEW u \in Users, NEW a \in Amounts, WithdrawTank(u, a)
      PROVE  AdmittedIsCovered'
  BY <1>8 DEF WithdrawTank
<1>9. ASSUME NEW u \in Users, GrantCredit(u)
      PROVE  AdmittedIsCovered'
  BY <1>9 DEF GrantCredit, CanGrant, IssueGrant
<1>10. ASSUME NEW u \in Users, NEW m \in Amounts, NEW n \in 0..MaxNonce,
             NEW d \in 0..MaxDay, RelayBegin(u, m, n, d)
      PROVE  AdmittedIsCovered'
  BY <1>10 DEF RelayBegin, LazyGrant, CanGrant, IssueGrant, TankForRelay,
           NeedsGrant
<1>11. ASSUME NEW measured \in GasMeasures, NEW price \in GasPrices,
             RelaySettle(measured, price)
      PROVE  AdmittedIsCovered'
  BY <1>11 DEF AdmittedIsCovered, RelaySettle
<1>12. ASSUME NextDay
      PROVE  AdmittedIsCovered'
  BY <1>12 DEF NextDay
<1>13. ASSUME NEW a \in Amounts, ForceSend(a)
      PROVE  AdmittedIsCovered'
  BY <1>13 DEF ForceSend
<1>14. CASE UNCHANGED vars
  BY <1>14 DEF vars
<1>15. QED
  BY <1>1, <1>2, <1>3, <1>4, <1>5, <1>6, <1>7, <1>8, <1>9,
     <1>10, <1>11, <1>12, <1>13, <1>14
     DEF Next, OwnerStep, UserStep, RelayerStep, ChainStep

\* A relay that passed admission can always be settled for the amount its
\* user signed, and its nonce is burnt before the target runs.
THEOREM AdmissionHolds == Spec => []AdmittedIsCovered
<1>1. Init => AdmittedIsCovered
  BY DEF Init, AdmittedIsCovered
<1>2. QED
  BY <1>1, AdmittedNext, TypeCorrect, PTL DEF Spec

-----------------------------------------------------------------------------
(* The daily window.                                                        *)

CeilingInv == DailyCeiling /\ WindowInv

LEMMA CeilingNext == TypeOK /\ CeilingInv /\ [Next]_vars => CeilingInv'
<1> SUFFICES ASSUME TypeOK, CeilingInv, [Next]_vars PROVE CeilingInv'
  OBVIOUS
<1> USE TankAssumption DEF CeilingInv, DailyCeiling, WindowInv, SpentToday, TypeOK, Calls,
           accounts, window, pools, settings, history
<1>1. ASSUME NEW g \in GasGrants, SetGasGrant(g)
      PROVE  CeilingInv'
  BY <1>1 DEF SetGasGrant
<1>2. ASSUME NEW n \in GrantCaps, SetGrantsCap(n)
      PROVE  CeilingInv'
  BY <1>2 DEF SetGrantsCap
<1>3. ASSUME NEW n \in OpCaps, SetMaxGasPerOp(n)
      PROVE  CeilingInv'
  BY <1>3 DEF SetMaxGasPerOp
<1>4. ASSUME NEW l \in DailyLimits, SetDailyLimit(l)
      PROVE  CeilingInv'
  BY <1>4 DEF SetDailyLimit
<1>5. ASSUME NEW a \in Amounts, DepositReserve(a)
      PROVE  CeilingInv'
  BY <1>5 DEF DepositReserve
<1>6. ASSUME RecoverReserve
      PROVE  CeilingInv'
  BY <1>6 DEF RecoverReserve
<1>7. ASSUME NEW u \in Users, NEW a \in Amounts, Deposit(u, a)
      PROVE  CeilingInv'
  BY <1>7 DEF Deposit
<1>8. ASSUME NEW u \in Users, NEW a \in Amounts, WithdrawTank(u, a)
      PROVE  CeilingInv'
  BY <1>8 DEF WithdrawTank
<1>9. ASSUME NEW u \in Users, GrantCredit(u)
      PROVE  CeilingInv'
  BY <1>9 DEF GrantCredit, CanGrant, IssueGrant
<1>10. ASSUME NEW u \in Users, NEW m \in Amounts, NEW n \in 0..MaxNonce,
             NEW d \in 0..MaxDay, RelayBegin(u, m, n, d)
      PROVE  CeilingInv'
  <2>1. DailyCeiling'
    BY <1>10 DEF CeilingInv, DailyCeiling, RelayBegin, settings, history
  <2>2. \A v \in Users : SpentToday(v)' = SpentToday(v)
    BY <1>10 DEF RelayBegin, EnterWindow, SpentToday, window, TypeOK
  <2>3. \A v \in Users : windowPaid'[v] <= SpentToday(v)'
    BY <1>10, <2>2 DEF CeilingInv, WindowInv, RelayBegin, history
  <2>4. ASSUME NEW c \in inflight', c.windowed
        PROVE  /\ dailyLimit' # 0
               /\ resetDay'[c.user] = day'
               /\ windowPaid'[c.user] + c.maxGasCost <= dailyLimit'
    <3> c = [user |-> u, maxGasCost |-> m, nonce |-> n,
             windowed |-> dailyLimit # 0]
      BY <1>10, <2>4 DEF RelayBegin
    <3>1. /\ c.user = u /\ c.maxGasCost = m /\ dailyLimit # 0
          /\ dailyLimit' = dailyLimit /\ day' = day
          /\ windowPaid' = windowPaid
      BY <1>10, <2>4 DEF RelayBegin
    <3>2. resetDay'[u] = day /\ SpentToday(u) + m <= dailyLimit
      BY <1>10, <3>1 DEF RelayBegin, EnterWindow, TypeOK
    <3>3. windowPaid[u] <= SpentToday(u) /\ SpentToday(u) \in Nat
      BY DEF CeilingInv, WindowInv, SpentToday, TypeOK
    <3>4. QED
      BY <3>1, <3>2, <3>3 DEF TypeOK
  <2>5. WindowInv'
    BY <2>3, <2>4 DEF WindowInv
  <2>6. QED
    BY <2>1, <2>5 DEF CeilingInv
<1>11. ASSUME NEW measured \in GasMeasures, NEW price \in GasPrices,
             RelaySettle(measured, price)
      PROVE  CeilingInv'
  <2>1. PICK c \in inflight : RelaySettle(measured, price)!(c)
    BY <1>11 DEF RelaySettle
  <2> DEFINE paid == Reimburse(c, measured, price)
  <2>2. c \in Calls /\ c.user \in Users /\ c.maxGasCost \in Nat
    BY DEF TypeOK, Calls
  <2>3. paid \in Nat /\ paid <= c.maxGasCost
    BY <2>2, ReimburseBound DEF TypeOK
  <2> HIDE DEF paid
  <2>4. DailyCeiling'
    BY <2>1, <2>2, <2>3
       DEF CeilingInv, DailyCeiling, WindowInv, TypeOK, paid, settings
  <2>5. WindowInv'
    BY <2>1, <2>2, <2>3
       DEF CeilingInv, WindowInv, SpentToday, ChargeWindow, TypeOK, paid,
           settings
  <2>6. QED
    BY <2>4, <2>5 DEF CeilingInv
<1>12. ASSUME NextDay
      PROVE  CeilingInv'
  BY <1>12 DEF NextDay
<1>13. ASSUME NEW a \in Amounts, ForceSend(a)
      PROVE  CeilingInv'
  BY <1>13 DEF ForceSend
<1>14. CASE UNCHANGED vars
  BY <1>14 DEF vars
<1>15. QED
  BY <1>1, <1>2, <1>3, <1>4, <1>5, <1>6, <1>7, <1>8, <1>9,
     <1>10, <1>11, <1>12, <1>13, <1>14
     DEF Next, OwnerStep, UserStep, RelayerStep, ChainStep

\* What is reimbursed in a day under one limit stays within that limit, also
\* when the limit is switched off and on again during a target call.
THEOREM CeilingHolds == Spec => []DailyCeiling
<1>1. Init => CeilingInv
  BY DEF Init, CeilingInv, DailyCeiling, WindowInv, SpentToday
<1>2. CeilingInv => DailyCeiling
  BY DEF CeilingInv
<1>3. QED
  BY <1>1, <1>2, CeilingNext, TypeCorrect, PTL DEF Spec
-----------------------------------------------------------------------------
(* Refinement of the custody ledger.                                        *)

Own == [u \in Users |-> tank[u] - grantBalance[u]]

LEMMA LedgerInit == Init => Ledger!Init
  BY DEF Init, Ledger!Init

\* A grant moves reserve wei into the grant of one user and nothing else.
LEMMA GrantIsIssue ==
    ASSUME TypeOK, NEW u \in Users, CanGrant(u), IssueGrant(u)
    PROVE  Ledger!Issue(u)
<1>1. gasGrant \in Nat /\ gasGrant > 0
  BY DEF TypeOK
<1>2. Own' = Own
  BY <1>1 DEF IssueGrant, Own, TypeOK
<1>3. grantBalance' = [grantBalance EXCEPT ![u] = grantBalance'[u]]
  BY DEF IssueGrant, TypeOK
<1>4. /\ grantBalance'[u] = grantBalance[u] + gasGrant
      /\ gasReserve' = gasReserve - gasGrant
      /\ gasReserve' >= 0
  BY <1>1 DEF IssueGrant, CanGrant, TypeOK
<1>5. QED
  BY <1>1, <1>2, <1>3, <1>4 DEF Ledger!Issue, Ledger!OnlyAt, Own, TypeOK

\* A settlement spends grant wei before own wei, at one user.
LEMMA SettleIsSpend ==
    ASSUME TypeOK, GrantWithinTank,
           NEW measured \in GasMeasures, NEW price \in GasPrices,
           RelaySettle(measured, price)
    PROVE  \E u \in Users : Ledger!Spend(u)
<1>1. PICK c \in inflight : RelaySettle(measured, price)!(c)
  BY DEF RelaySettle
<1> DEFINE paid == Reimburse(c, measured, price)
           u == c.user
           share == GrantShare(u, paid)
<1>2. c \in Calls /\ u \in Users
  BY DEF TypeOK, Calls
<1>3. paid \in Nat
  BY <1>2, ReimburseBound, TankAssumption DEF TypeOK
<1>4. /\ share \in Nat /\ share <= grantBalance[u] /\ share <= paid
      /\ share < paid => share = grantBalance[u]
  BY <1>2, <1>3, GrantShareBound DEF TypeOK
<1>5. /\ paid <= tank[u]
      /\ grantBalance' = [grantBalance EXCEPT ![u] = @ - share]
      /\ tank' = [tank EXCEPT ![u] = @ - paid]
      /\ gasReserve' = gasReserve
  BY <1>1
<1> HIDE DEF paid, share, u
<1>6. grantBalance' = [grantBalance EXCEPT ![u] = grantBalance'[u]]
  BY <1>2, <1>5 DEF TypeOK
<1>7. Own' = [Own EXCEPT ![u] = Own'[u]]
  BY <1>2, <1>5 DEF Own, TypeOK
<1>8. /\ 0 <= grantBalance'[u] /\ grantBalance'[u] <= grantBalance[u]
      /\ 0 <= Own'[u] /\ Own'[u] <= Own[u]
      /\ Own'[u] < Own[u] => grantBalance'[u] = 0
  <2>1. grantBalance'[u] = grantBalance[u] - share
    BY <1>2, <1>5 DEF TypeOK
  <2>2. tank'[u] = tank[u] - paid
    BY <1>2, <1>5 DEF TypeOK
  <2>3. Own[u] = tank[u] - grantBalance[u] /\ Own'[u] = tank'[u] - grantBalance'[u]
    BY <1>2 DEF Own
  <2>4. grantBalance[u] \in Nat /\ tank[u] \in Nat /\ grantBalance[u] <= tank[u]
    BY <1>2 DEF TypeOK, GrantWithinTank
  <2>5. QED
    BY <1>3, <1>4, <1>5, <2>1, <2>2, <2>3, <2>4
<1>9. Ledger!Spend(u)
  BY <1>5, <1>6, <1>7, <1>8 DEF Ledger!Spend, Ledger!OnlyAt, Own
<1>10. QED
  BY <1>2, <1>9

LEMMA LedgerNext ==
    TypeOK /\ GrantWithinTank /\ [Next]_vars => [Ledger!Next]_(Ledger!vars)
<1> SUFFICES ASSUME TypeOK, GrantWithinTank, [Next]_vars
             PROVE  [Ledger!Next]_(Ledger!vars)
  OBVIOUS
<1> USE TankAssumption
<1> DEFINE Still == UNCHANGED <<gasReserve, grantBalance, tank>>
<1>1. Still => UNCHANGED Ledger!vars
  BY DEF Ledger!vars
<1>2. ASSUME \/ \E g \in GasGrants : SetGasGrant(g)
             \/ \E n \in GrantCaps : SetGrantsCap(n)
             \/ \E n \in OpCaps : SetMaxGasPerOp(n)
             \/ \E l \in DailyLimits : SetDailyLimit(l)
             \/ RecoverReserve \/ ChainStep \/ UNCHANGED vars
      PROVE  Still
  BY <1>2 DEF SetGasGrant, SetGrantsCap, SetMaxGasPerOp, SetDailyLimit,
     RecoverReserve, ChainStep, NextDay, ForceSend, vars, accounts, pools
<1>3. ASSUME NEW a \in Amounts, DepositReserve(a) PROVE Ledger!Next
  <2>1. gasReserve' > gasReserve /\ UNCHANGED <<tank, grantBalance>>
    BY <1>3 DEF DepositReserve, accounts, TypeOK
  <2>2. QED
    BY <2>1 DEF Ledger!Next, Ledger!Fund
<1>4. ASSUME NEW u \in Users, NEW a \in Amounts, Deposit(u, a)
      PROVE  Ledger!Next
  <2>1. /\ tank' = [tank EXCEPT ![u] = @ + a]
        /\ grantBalance' = grantBalance /\ a \in Nat /\ a > 0
    BY <1>4 DEF Deposit
  <2>2. Own' = [Own EXCEPT ![u] = Own'[u]]
    BY <2>1 DEF Own, TypeOK
  <2>3. Own'[u] = Own[u] + a /\ Own[u] \in Int
    BY <2>1 DEF Own, TypeOK
  <2>4. Ledger!Credit(u)
    BY <1>4, <2>1, <2>2, <2>3 DEF Deposit, Ledger!Credit, Ledger!OnlyAt, Own
  <2>5. QED
    BY <2>4 DEF Ledger!Next
<1>5. ASSUME NEW u \in Users, NEW a \in Amounts, WithdrawTank(u, a)
      PROVE  Ledger!Next
  <2>1. /\ tank' = [tank EXCEPT ![u] = @ - a]
        /\ grantBalance' = grantBalance
        /\ a <= tank[u] - grantBalance[u]
    BY <1>5, Zenon DEF WithdrawTank, Withdrawable
  <2>2. Own' = [Own EXCEPT ![u] = Own'[u]]
    BY <2>1 DEF Own, TypeOK
  <2> a \in Nat /\ a > 0
    OBVIOUS
  <2>3. Own'[u] = Own[u] - a /\ a <= Own[u] /\ Own[u] \in Int
    BY <2>1 DEF Own, TypeOK
  <2>4. Ledger!Withdraw(u)
    BY <1>5, <2>1, <2>2, <2>3
       DEF WithdrawTank, Ledger!Withdraw, Ledger!OnlyAt, Own
  <2>5. QED
    BY <2>4 DEF Ledger!Next
<1>6. ASSUME NEW u \in Users, GrantCredit(u) PROVE Ledger!Next
  BY <1>6, GrantIsIssue DEF GrantCredit, Ledger!Next
<1>7. ASSUME NEW u \in Users, NEW m \in Amounts, NEW n \in 0..MaxNonce,
             NEW d \in 0..MaxDay, RelayBegin(u, m, n, d)
      PROVE  Still \/ Ledger!Next
  BY <1>7, GrantIsIssue
     DEF RelayBegin, LazyGrant, accounts, pools, Ledger!Next
<1>8. ASSUME NEW measured \in GasMeasures, NEW price \in GasPrices,
             RelaySettle(measured, price)
      PROVE  Ledger!Next
  BY <1>8, SettleIsSpend DEF Ledger!Next
<1> HIDE DEF Still
<1>9. Still \/ Ledger!Next
  BY <1>2, <1>3, <1>4, <1>5, <1>6, <1>7, <1>8
     DEF Next, OwnerStep, UserStep, RelayerStep
<1>10. QED
  BY <1>1, <1>9

\* The tank implements the custody ledger: every behaviour of the contract,
\* re-entrant ones included, is a behaviour of the ledger.
THEOREM TankImplementsLedger == Spec => ImplementsLedger
<1>1. Spec => Ledger!Init
  BY LedgerInit DEF Spec
<1>2. QED
  BY <1>1, LedgerNext, TypeCorrect, GrantsHold, PTL
     DEF Spec, ImplementsLedger, Ledger!Spec

-----------------------------------------------------------------------------
(***************************************************************************)
(* Types                                                                   *)
(***************************************************************************)
\* Appending a record and rewriting records keep the type of the queue.
LEMMA EnqueueTypes ==
    ASSUME records \in Seq(Records), nextId \in Nat,
           NEW u \in Wallets, NEW n \in Nat, NEW k \in {"relay", "faucet"},
           Enqueue(u, n, k)
    PROVE  records' \in Seq(Records) /\ nextId' \in Nat
<1>1. NewRecord(u, n, k) \in Records
  BY DEF NewRecord, Records, Statuses
<1> QED
  BY <1>1 DEF Enqueue

LEMMA AnsweredTypes ==
    ASSUME records \in Seq(Records), NEW i \in DOMAIN records,
           NEW call \in {"open", "sent", "over"},
           NEW status \in {"confirmed", "dead-lettered"}, Answered(i, call, status)
    PROVE  records' \in Seq(Records)
<1> DEFINE closed == [records EXCEPT ![i].call = call]
<1>1. records[i] \in Records
  OBVIOUS
<1>2. closed \in Seq(Records) /\ DOMAIN closed = DOMAIN records
  <2>1. [records[i] EXCEPT !.call = call] \in Records
    BY <1>1 DEF Records
  <2> QED
    BY <2>1
<1>3. closed[i] \in Records
  BY <1>2
<1>4. [closed[i] EXCEPT !.status = status] \in Records
  BY <1>3 DEF Records, Statuses
<1>5. [closed EXCEPT ![i].status = status] \in Seq(Records)
  BY <1>2, <1>4
<1> QED
  BY <1>5 DEF Answered

\* A faucet call waits only while fewer than the bound do.
LEMMA FaucetCallTypes ==
    ASSUME gating \in [Wallets -> 0..MaxCalls], NEW u \in Wallets, FaucetCall(u)
    PROVE  gating' \in [Wallets -> 0..MaxCalls]
<1>1. gating[u] \in 0..MaxCalls /\ MaxCalls \in Nat
  BY RelayerAssumption DEF RelayerAssumption
<1>2. CASE u \in fauceted \/ gating[u] = MaxCalls
  BY <1>2 DEF FaucetCall
<1>3. CASE ~(u \in fauceted \/ gating[u] = MaxCalls)
  <2>1. gating[u] + 1 \in 0..MaxCalls
    BY <1>1, <1>3
  <2> QED
    BY <1>3, <2>1 DEF FaucetCall
<1> QED
  BY <1>2, <1>3

\* A timer that gives some of the records another status.
LEMMA MarkedTypes ==
    ASSUME records \in Seq(Records), NEW S, NEW status \in Statuses,
           records' = [i \in DOMAIN records |->
                          IF i \in S THEN [records[i] EXCEPT !.status = status]
                          ELSE records[i]]
    PROVE  records' \in Seq(Records)
<1>1. \A i \in DOMAIN records : records[i] \in Records
  OBVIOUS
<1>2. \A i \in DOMAIN records : [records[i] EXCEPT !.status = status] \in Records
  BY <1>1 DEF Records, Statuses
<1>3. PICK n \in Nat : DOMAIN records = 1..n
  BY DOMAIN records = 1..Len(records), Len(records) \in Nat
<1>4. records' \in [1..n -> Records]
  BY <1>1, <1>2, <1>3
<1> QED
  BY <1>4

\* The variables of the relayer keep their types.
THEOREM QueueTypeCorrect == QueueSpec => []QueueTypeOK
<1>1. QueueInit => QueueTypeOK
  BY RelayerAssumption DEF RelayerAssumption, QueueInit, QueueTypeOK
<1>2. QueueTypeOK /\ [QueueNext]_queueVars => QueueTypeOK'
  <2> SUFFICES ASSUME QueueTypeOK, [QueueNext]_queueVars
               PROVE  QueueTypeOK'
    OBVIOUS
  <2> USE RelayerAssumption DEF RelayerAssumption
  <2>0. CASE UNCHANGED queueVars
    BY <2>0 DEF QueueTypeOK, queueVars, faucet, chain
  <2>1. ASSUME NEW u \in Wallets, Claim(u)
        PROVE  QueueTypeOK'
    BY <2>1, FaucetCallTypes DEF Claim, QueueTypeOK, chain
  <2>2. ASSUME NEW u \in Wallets, GateRich(u)
        PROVE  QueueTypeOK'
    BY <2>2 DEF GateRich, QueueTypeOK, chain
  <2>3. ASSUME NEW u \in Wallets, GatePoor(u)
        PROVE  QueueTypeOK'
    <3>1. records' \in Seq(Records) /\ nextId' \in Nat
      BY <2>3, EnqueueTypes DEF GatePoor, QueueTypeOK
    <3> QED
      BY <2>3, <3>1 DEF GatePoor, QueueTypeOK, chain
  <2>4. ASSUME NEW u \in Wallets, Relay(u)
        PROVE  QueueTypeOK'
    <3>1. chainNonce[u] \in Nat
      BY DEF QueueTypeOK
    <3>2. chainNonce' \in [Wallets -> Nat] /\ relayed' \in SUBSET (Wallets \X Nat)
      BY <2>4, <3>1 DEF Relay, QueueTypeOK
    <3>3. recent' \in SUBSET relayed' /\ scans' \in SUBSET (SUBSET relayed')
      BY <2>4 DEF Relay, QueueTypeOK
    <3> QED
      BY <2>4, <3>2, <3>3 DEF Relay, QueueTypeOK, faucet
  <2>5. ASSUME NEW u \in Wallets, NEW n \in 0..MaxRelays, Sponsor(u, n)
        PROVE  QueueTypeOK'
    <3>1. records' \in Seq(Records) /\ nextId' \in Nat
      BY <2>5, EnqueueTypes DEF Sponsor, QueueTypeOK
    <3> QED
      BY <2>5, <3>1, FaucetCallTypes DEF Sponsor, QueueTypeOK, chain
  <2>6. ASSUME NEW key \in recent, LogLeaves(key)
        PROVE  QueueTypeOK'
    BY <2>6 DEF LogLeaves, QueueTypeOK, faucet
  <2>7. ASSUME NEW i \in DOMAIN records, BroadcastFails(i)
        PROVE  QueueTypeOK'
    <3>1. records' \in Seq(Records)
      BY <2>7, AnsweredTypes DEF BroadcastFails, QueueTypeOK
    <3> QED
      BY <2>7, <3>1 DEF BroadcastFails, QueueTypeOK, faucet, chain
  <2>8. ASSUME NEW i \in DOMAIN records, NEW sent \in BOOLEAN, NEW ok \in BOOLEAN,
               MintEnds(i, sent, ok)
        PROVE  QueueTypeOK'
    <3>1. records' \in Seq(Records)
      BY <2>8, AnsweredTypes DEF MintEnds, QueueTypeOK
    <3>2. fauceted' \in SUBSET Wallets
      BY <2>8 DEF MintEnds, QueueTypeOK
    <3> QED
      BY <2>8, <3>1, <3>2 DEF MintEnds, QueueTypeOK, chain
  <2>9. CASE StartScan
    BY <2>9 DEF StartScan, QueueTypeOK, faucet, chain
  <2>11. CASE WorkerTick
    <3>1. records' \in Seq(Records)
      BY <2>11, MarkedTypes DEF WorkerTick, QueueTypeOK, Statuses
    <3> QED
      BY <2>11, <3>1 DEF WorkerTick, QueueTypeOK, faucet, chain
  <2>12. ASSUME NEW logs \in scans, Reconcile(logs)
         PROVE  QueueTypeOK'
    <3>1. records' \in Seq(Records)
      BY <2>12, MarkedTypes DEF Reconcile, QueueTypeOK, Statuses
    <3> QED
      BY <2>12, <3>1 DEF Reconcile, QueueTypeOK, faucet, chain
  <2>13. CASE Restart
    BY <2>13 DEF Restart, QueueTypeOK, chain
  <2> QED
    BY <2>0, <2>1, <2>2, <2>3, <2>4, <2>5, <2>6, <2>7, <2>8, <2>9, <2>11, <2>12,
       <2>13 DEF QueueNext, Scanned
<1> QED
  BY <1>1, <1>2, PTL DEF QueueSpec

(***************************************************************************)
(* What is confirmed was relayed                                           *)
(***************************************************************************)
\* A step that only closes or rewrites records in ways that confirm none of the relays.
LEMMA NoneConfirmed ==
    ASSUME ConfirmedWasRelayed, DOMAIN records' = DOMAIN records, relayed \subseteq relayed',
           \A i \in DOMAIN records :
               /\ Key(records[i])' = Key(records[i])
               /\ records'[i].kind = records[i].kind
               /\ records'[i].status = "confirmed" /\ records[i].kind = "relay"
                      => records[i].status = "confirmed" \/ Key(records[i]) \in relayed
    PROVE  ConfirmedWasRelayed'
BY DEF ConfirmedWasRelayed

LEMMA AnsweredFields ==
    ASSUME records \in Seq(Records), NEW i \in DOMAIN records, NEW status,
           NEW call \in {"open", "sent", "over"}, Answered(i, call, status)
    PROVE  /\ DOMAIN records' = DOMAIN records
           /\ \A j \in DOMAIN records :
                  /\ Key(records[j])' = Key(records[j])
                  /\ records'[j].user = records[j].user
                  /\ records'[j].kind = records[j].kind
                  /\ records'[j].status = IF j = i THEN status ELSE records[j].status
<1> DEFINE closed == [records EXCEPT ![i].call = call]
<1>1. \A j \in DOMAIN records : records[j] \in Records
  OBVIOUS
<1>2. /\ DOMAIN closed = DOMAIN records
      /\ \A j \in DOMAIN records : /\ closed[j] \in Records
                                   /\ Key(closed[j]) = Key(records[j])
                                   /\ closed[j].user = records[j].user
                                   /\ closed[j].kind = records[j].kind
                                   /\ closed[j].status = records[j].status
  BY <1>1 DEF Records, Key
<1>3. records' = [closed EXCEPT ![i].status = status]
  BY DEF Answered
<1> HIDE DEF closed
<1> QED
  BY <1>2, <1>3 DEF Records, Key

\* Giving some of the records another status changes nothing else of them.
LEMMA MarkedFields ==
    ASSUME records \in Seq(Records), NEW S, NEW status,
           records' = [i \in DOMAIN records |->
                          IF i \in S THEN [records[i] EXCEPT !.status = status]
                          ELSE records[i]]
    PROVE  /\ DOMAIN records' = DOMAIN records
           /\ \A j \in DOMAIN records :
                  /\ Key(records[j])' = Key(records[j])
                  /\ records'[j].user = records[j].user
                  /\ records'[j].kind = records[j].kind
                  /\ records'[j].status = IF j \in S THEN status ELSE records[j].status
<1>1. \A j \in DOMAIN records : records[j] \in Records
  OBVIOUS
<1> QED
  BY <1>1 DEF Records, Key

\* An op that is enqueued joins the others as the last one, queued.
LEMMA EnqueueFields ==
    ASSUME records \in Seq(Records), nextId \in Nat,
           NEW u \in Wallets, NEW n \in Nat, NEW k \in {"relay", "faucet"},
           Enqueue(u, n, k)
    PROVE  /\ DOMAIN records' = DOMAIN records \cup {Len(records) + 1}
           /\ \A j \in DOMAIN records : records'[j] = records[j]
           /\ records'[Len(records) + 1].status = "queued"
           /\ records'[Len(records) + 1].user = u
<1>1. NewRecord(u, n, k) \in Records
  BY DEF NewRecord, Records, Statuses
<1>2. records' = Append(records, NewRecord(u, n, k))
  BY DEF Enqueue
<1>3. records'[Len(records) + 1] = NewRecord(u, n, k)
  BY <1>2
<1> QED
  BY <1>2, <1>3 DEF NewRecord

\* Retries, duplicates, foreign relays, the faucet's records and restarts never
\* confirm a sponsored op ahead of the chain: routers/relayer.ts, reconcile.ts.
THEOREM NoneAheadOfChain == QueueSpec => []ConfirmedWasRelayed
<1>1. QueueInit => ConfirmedWasRelayed
  BY DEF QueueInit, ConfirmedWasRelayed
<1>2. QueueTypeOK /\ ConfirmedWasRelayed /\ [QueueNext]_queueVars => ConfirmedWasRelayed'
  <2> SUFFICES ASSUME QueueTypeOK, ConfirmedWasRelayed, [QueueNext]_queueVars
               PROVE  ConfirmedWasRelayed'
    OBVIOUS
  <2> USE RelayerAssumption DEF RelayerAssumption
  <2>0. CASE UNCHANGED <<records, relayed>>
    BY <2>0 DEF ConfirmedWasRelayed, Key
  <2>1. ASSUME NEW u \in Wallets, NEW n \in Nat, NEW k \in {"relay", "faucet"},
               Enqueue(u, n, k), relayed' = relayed
        PROVE  ConfirmedWasRelayed'
    <3>1. records \in Seq(Records) /\ nextId \in Nat
      BY DEF QueueTypeOK
    <3> QED
      BY <2>1, <3>1, EnqueueFields DEF ConfirmedWasRelayed, Key
  <2>2. ASSUME NEW u \in Wallets, GatePoor(u)
        PROVE  ConfirmedWasRelayed'
    BY <2>0, <2>1, <2>2 DEF GatePoor, chain
  <2>3. ASSUME NEW u \in Wallets, NEW n \in 0..MaxRelays, Sponsor(u, n)
        PROVE  ConfirmedWasRelayed'
    BY <2>1, <2>3 DEF Sponsor, chain
  <2>4. ASSUME NEW u \in Wallets, Relay(u)
        PROVE  ConfirmedWasRelayed'
    BY <2>4 DEF Relay, ConfirmedWasRelayed, Key
  <2>5. ASSUME NEW key \in recent, LogLeaves(key)
        PROVE  ConfirmedWasRelayed'
    BY <2>0, <2>5 DEF LogLeaves
  <2>6. ASSUME NEW i \in DOMAIN records, BroadcastFails(i)
        PROVE  ConfirmedWasRelayed'
    <3>1. Answered(i, "over", "dead-lettered") /\ relayed' = relayed
      BY <2>6 DEF BroadcastFails, chain
    <3>2. /\ DOMAIN records' = DOMAIN records
          /\ \A j \in DOMAIN records :
                /\ Key(records[j])' = Key(records[j])
                /\ records'[j].kind = records[j].kind
                /\ records'[j].status # "confirmed" \/ records'[j].status = records[j].status
      BY <3>1, AnsweredFields DEF QueueTypeOK
    <3> QED
      BY <3>1, <3>2, NoneConfirmed
  <2>7. ASSUME NEW i \in DOMAIN records, NEW sent \in BOOLEAN, NEW ok \in BOOLEAN,
               MintEnds(i, sent, ok)
        PROVE  ConfirmedWasRelayed'
    <3>1. /\ Answered(i, IF sent THEN "sent" ELSE "over",
                      IF ok THEN "confirmed" ELSE "dead-lettered")
          /\ records[i].kind = "faucet" /\ relayed' = relayed
      BY <2>7 DEF MintEnds, chain
    <3>2. /\ DOMAIN records' = DOMAIN records
          /\ \A j \in DOMAIN records :
                /\ Key(records[j])' = Key(records[j])
                /\ records'[j].kind = records[j].kind
                /\ j # i => records'[j].status = records[j].status
      BY <3>1, AnsweredFields DEF QueueTypeOK
    <3> QED
      BY <3>1, <3>2, NoneConfirmed
  <2>8. CASE WorkerTick
    <3>0. records' = [i \in DOMAIN records |->
                        IF i \in Batch THEN [records[i] EXCEPT !.status = "submitted"]
                        ELSE records[i]]
      BY <2>8 DEF WorkerTick
    <3>1. /\ DOMAIN records' = DOMAIN records
          /\ \A j \in DOMAIN records :
                /\ Key(records[j])' = Key(records[j])
                /\ records'[j].kind = records[j].kind
                /\ records'[j].status # "confirmed" \/ records'[j].status = records[j].status
      <4>1. \A j \in DOMAIN records : records[j] \in Records
        BY DEF QueueTypeOK
      <4>2. \A j \in DOMAIN records :
               /\ Key(records[j])' = Key(records[j])
               /\ records'[j].kind = records[j].kind
               /\ records'[j].status = IF j \in Batch THEN "submitted" ELSE records[j].status
        BY <3>0, <4>1 DEF Key, Records
      <4> QED
        BY <3>0, <4>2
    <3>2. relayed' = relayed
      BY <2>8 DEF WorkerTick, chain
    <3> QED
      BY <3>1, <3>2, NoneConfirmed
  <2>9. ASSUME NEW logs \in scans, Reconcile(logs)
        PROVE  ConfirmedWasRelayed'
    <3>1. logs \subseteq relayed
      BY DEF QueueTypeOK
    <3>2. \A j \in Matched(logs) : Key(records[j]) \in relayed
      BY <3>1 DEF Matched, Submitted
    <3> QED
      BY <2>9, <3>2, MarkedFields, NoneConfirmed DEF Reconcile, QueueTypeOK, chain
  <2>10. CASE Restart
    BY <2>10 DEF Restart, ConfirmedWasRelayed
  <2>11. ASSUME NEW u \in Wallets, Claim(u) \/ GateRich(u)
         PROVE  ConfirmedWasRelayed'
    BY <2>0, <2>11 DEF Claim, GateRich, chain
  <2>12. CASE StartScan
    BY <2>0, <2>12 DEF StartScan, chain
  <2>14. CASE UNCHANGED queueVars
    BY <2>0, <2>14 DEF queueVars, chain
  <2> QED
    BY <2>2, <2>3, <2>4, <2>5, <2>6, <2>7, <2>8, <2>9, <2>10, <2>11, <2>12, <2>14
       DEF QueueNext, Scanned
<1> QED
  BY <1>1, <1>2, QueueTypeCorrect, PTL DEF QueueSpec

(***************************************************************************)
(* The cap                                                                 *)
(***************************************************************************)
LEMMA InflightFinite ==
    ASSUME records \in Seq(Records), NEW u
    PROVE  IsFiniteSet(InflightOf(u)) /\ Cardinality(InflightOf(u)) \in Nat
<1>1. IsFiniteSet(1..Len(records))
  BY FS_Interval
<1>2. InflightOf(u) \subseteq 1..Len(records)
  BY DEF InflightOf
<1> QED
  BY <1>1, <1>2, FS_Subset, FS_CardinalityType

\* A step after which nobody has an op in flight that was not in flight before.
LEMMA NoneJoins ==
    ASSUME InflightBounded, records \in Seq(Records),
           \A u \in Wallets : InflightOf(u)' \subseteq InflightOf(u)
    PROVE  InflightBounded'
<1> SUFFICES ASSUME NEW u \in Wallets
             PROVE  Cardinality(InflightOf(u)') <= MaxInflight
  BY DEF InflightBounded
<1>1. Cardinality(InflightOf(u)') <= Cardinality(InflightOf(u))
      /\ Cardinality(InflightOf(u)') \in Nat
  BY InflightFinite, FS_Subset, FS_CardinalityType
<1>2. Cardinality(InflightOf(u)) <= MaxInflight /\ Cardinality(InflightOf(u)) \in Nat
  BY InflightFinite DEF InflightBounded
<1> QED
  BY <1>1, <1>2, RelayerAssumption DEF RelayerAssumption

\* Rewriting records that does not bring an op back in flight.
LEMMA NoneRevived ==
    ASSUME InflightBounded, records \in Seq(Records), DOMAIN records' = DOMAIN records,
           \A j \in DOMAIN records :
               /\ records'[j].user = records[j].user
               /\ Inflight(records[j])' => Inflight(records[j])
    PROVE  InflightBounded'
<1>1. \A u \in Wallets : InflightOf(u)' \subseteq InflightOf(u)
  BY DEF InflightOf
<1> QED
  BY <1>1, NoneJoins

\* The op that is enqueued is the only one that joins, and there was room.
LEMMA OneJoins ==
    ASSUME InflightBounded, records \in Seq(Records), nextId \in Nat,
           NEW u \in Wallets, NEW n \in Nat, NEW k \in {"relay", "faucet"},
           HasRoom(u), Enqueue(u, n, k)
    PROVE  InflightBounded'
<1> DEFINE last == Len(records) + 1
<1>1. /\ DOMAIN records' = DOMAIN records \cup {last}
      /\ \A j \in DOMAIN records : records'[j] = records[j]
      /\ records'[last].user = u
  BY EnqueueFields
<1> SUFFICES ASSUME NEW v \in Wallets
             PROVE  Cardinality(InflightOf(v)') <= MaxInflight
  BY DEF InflightBounded
<1>2. InflightOf(v)' \subseteq InflightOf(v) \cup (IF v = u THEN {last} ELSE {})
  BY <1>1 DEF InflightOf, Inflight
<1>3. IsFiniteSet(InflightOf(v)) /\ Cardinality(InflightOf(v)) \in Nat
  BY InflightFinite
<1>4. CASE v = u
  <2>1. last \notin InflightOf(v)
    BY DEF InflightOf
  <2>2. /\ IsFiniteSet(InflightOf(v) \cup {last})
        /\ Cardinality(InflightOf(v) \cup {last}) = Cardinality(InflightOf(v)) + 1
    BY <1>3, <2>1, FS_AddElement
  <2>3. InflightOf(v)' \subseteq InflightOf(v) \cup {last}
    BY <1>2, <1>4
  <2>4. Cardinality(InflightOf(v)') <= Cardinality(InflightOf(v)) + 1
        /\ Cardinality(InflightOf(v)') \in Nat
    BY <2>2, <2>3, FS_Subset, FS_CardinalityType
  <2>5. Cardinality(InflightOf(v)) < MaxInflight
    BY <1>4 DEF HasRoom
  <2> QED
    BY <1>3, <2>4, <2>5, RelayerAssumption DEF RelayerAssumption
<1>5. CASE v # u
  <2>1. InflightOf(v)' \subseteq InflightOf(v)
    BY <1>2, <1>5
  <2>2. Cardinality(InflightOf(v)') <= Cardinality(InflightOf(v))
        /\ Cardinality(InflightOf(v)') \in Nat
    BY <1>3, <2>1, FS_Subset, FS_CardinalityType
  <2>3. Cardinality(InflightOf(v)) <= MaxInflight
    BY DEF InflightBounded
  <2> QED
    BY <1>3, <2>2, <2>3, RelayerAssumption DEF RelayerAssumption
<1> QED
  BY <1>4, <1>5

\* However many requests of a user await their simulation at once, and whatever
\* the faucet enqueues for the user meanwhile, the cap of queue.ts:75-78 holds.
THEOREM CapHolds == QueueSpec => []InflightBounded
<1>1. QueueInit => InflightBounded
  <2> SUFFICES ASSUME QueueInit, NEW u \in Wallets
               PROVE  Cardinality(InflightOf(u)) <= MaxInflight
    BY DEF InflightBounded
  <2>1. InflightOf(u) = {}
    BY DEF QueueInit, InflightOf
  <2> QED
    BY <2>1, FS_EmptySet, RelayerAssumption DEF RelayerAssumption
<1>2. QueueTypeOK /\ InflightBounded /\ [QueueNext]_queueVars => InflightBounded'
  <2> SUFFICES ASSUME QueueTypeOK, InflightBounded, [QueueNext]_queueVars
               PROVE  InflightBounded'
    OBVIOUS
  <2>0. records \in Seq(Records) /\ nextId \in Nat
    BY DEF QueueTypeOK
  <2>1. CASE UNCHANGED records
    <3>1. \A u \in Wallets : InflightOf(u)' = InflightOf(u)
      BY <2>1 DEF InflightOf, Inflight
    <3> QED
      BY <2>0, <3>1, NoneJoins
  <2>2. ASSUME NEW u \in Wallets, GatePoor(u)
        PROVE  InflightBounded'
    <3>1. CASE HasRoom(u)
      BY <2>0, <2>2, <3>1, OneJoins DEF GatePoor
    <3>2. CASE ~HasRoom(u)
      BY <2>1, <2>2, <3>2 DEF GatePoor
    <3> QED
      BY <3>1, <3>2
  <2>3. ASSUME NEW u \in Wallets, NEW n \in 0..MaxRelays, Sponsor(u, n)
        PROVE  InflightBounded'
    <3>1. n \in Nat
      BY RelayerAssumption DEF RelayerAssumption
    <3> QED
      BY <2>0, <2>3, <3>1, OneJoins DEF Sponsor
  <2>5. ASSUME NEW i \in DOMAIN records, NEW status \in {"confirmed", "dead-lettered"},
               NEW call \in {"open", "sent", "over"}, Answered(i, call, status)
        PROVE  InflightBounded'
    BY <2>0, <2>5, AnsweredFields, NoneRevived DEF Inflight
  <2>6. ASSUME NEW i \in DOMAIN records, BroadcastFails(i)
        PROVE  InflightBounded'
    BY <2>5, <2>6 DEF BroadcastFails
  <2>7. ASSUME NEW i \in DOMAIN records, NEW sent \in BOOLEAN, NEW ok \in BOOLEAN,
               MintEnds(i, sent, ok)
        PROVE  InflightBounded'
    BY <2>5, <2>7 DEF MintEnds
  <2>8. CASE WorkerTick
    <3>1. \A j \in Batch : Inflight(records[j])
      BY DEF Batch, Queued, Inflight
    <3> QED
      BY <2>0, <2>8, <3>1, MarkedFields, NoneRevived DEF WorkerTick, Inflight
  <2>9. ASSUME NEW logs \in scans, Reconcile(logs)
        PROVE  InflightBounded'
    BY <2>0, <2>9, MarkedFields, NoneRevived DEF Reconcile, Inflight
  <2>10. CASE Restart
    <3>1. \A u \in Wallets : InflightOf(u)' \subseteq InflightOf(u)
      BY <2>10 DEF Restart, InflightOf
    <3> QED
      BY <2>0, <3>1, NoneJoins
  <2>11. ASSUME NEW u \in Wallets, Claim(u) \/ GateRich(u) \/ Relay(u)
         PROVE  InflightBounded'
    BY <2>1, <2>11 DEF Claim, GateRich, Relay
  <2>12. CASE StartScan \/ \E key \in recent : LogLeaves(key)
    BY <2>1, <2>12 DEF StartScan, LogLeaves
  <2>13. CASE UNCHANGED queueVars
    BY <2>1, <2>13 DEF queueVars
  <2> QED
    BY <2>2, <2>3, <2>6, <2>7, <2>8, <2>9, <2>10, <2>11, <2>12, <2>13 DEF QueueNext, Scanned
<1> QED
  BY <1>1, <1>2, QueueTypeCorrect, PTL DEF QueueSpec
=============================================================================
