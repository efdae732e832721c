-------------------------- MODULE StrategyVaultProofs --------------------------
(***************************************************************************)
(* Theorems about StrategyVault for every finite set of agents and every   *)
(* set of actions, roots, limits and amounts.                              *)
(***************************************************************************)
EXTENDS StrategyVault, Sums, TLAPS

-----------------------------------------------------------------------------
(* Days.                                                                    *)

\* A later time is on the same day or a later one.
LEMMA DaysGoOn ==
    ASSUME NEW t \in Nat, NEW d \in Nat \ {0}
    PROVE  /\ t \div d \in Nat
           /\ (t + 1) \div d \in Nat
           /\ t \div d <= (t + 1) \div d
  OBVIOUS

\* The day's spending as the contract reads it is a natural number.
LEMMA TodayNat == TypeOK => /\ Today \in Nat
                            /\ (now + 1) \div DayLength \in Nat
                            /\ Today <= (now + 1) \div DayLength
<1> SUFFICES ASSUME TypeOK
             PROVE  /\ Today \in Nat
                    /\ (now + 1) \div DayLength \in Nat
                    /\ Today <= (now + 1) \div DayLength
  OBVIOUS
<1>1. now \in Nat /\ DayLength \in Nat \ {0}
  BY VaultAssumption DEF TypeOK
<1>2. QED
  BY <1>1, DaysGoOn DEF Today

-----------------------------------------------------------------------------
(* Type correctness.                                                        *)

LEMMA InstallType ==
    ASSUME TypeOK, NEW agent \in Agents, NEW root \in Roots,
           NEW limit \in Limits, NEW lastDay \in Expiries,
           Install(agent, root, limit, lastDay)
    PROVE  /\ strategyRoot' \in [Agents -> SUBSET Actions]
           /\ dailyLimit' \in [Agents -> Nat]
           /\ validUntilDay' \in [Agents -> Nat]
           /\ dailySpent' \in [Agents -> Nat]
           /\ resetDay' \in [Agents -> Nat]
           /\ spentToday' \in [Agents -> Nat]
           /\ usedActions' \in [Agents -> SUBSET Actions]
           /\ executions' \in [Agents -> [Actions -> Nat]]
<1>1. Today \in Nat
  BY TodayNat
<1>2. root \in SUBSET Actions /\ limit \in Nat /\ lastDay \in Nat
  BY VaultAssumption
<1>3. QED
  BY <1>1, <1>2 DEF Install, TypeOK

LEMMA FundType ==
    ASSUME TypeOK, NEW agent \in Agents, NEW amount \in Deposits, Fund(agent, amount)
    PROVE  /\ balance' \in [Agents -> Nat]
           /\ totalTrackedBalance' \in Nat
           /\ native' \in Nat
  BY VaultAssumption DEF Fund, TypeOK

\* What an execution leaves of the balances and of the day's window.
LEMMA ExecuteType ==
    ASSUME TypeOK, NEW agent \in Agents, NEW action \in Actions,
           Execute(agent, action)
    PROVE  TypeOK'
<1> DEFINE value == ActionValue[action]
           spent == IF Today # resetDay[agent] THEN 0 ELSE dailySpent[agent]
<1>1. value \in Nat /\ spent \in Nat /\ Today \in Nat
  BY VaultAssumption, TodayNat DEF TypeOK
<1>2. /\ value <= balance[agent] /\ value <= totalTrackedBalance /\ value <= native
      /\ dailySpent' = [dailySpent EXCEPT ![agent] = spent + value]
      /\ resetDay' = [resetDay EXCEPT ![agent] = Today]
      /\ usedActions' = [usedActions EXCEPT ![agent] = @ \cup {action}]
      /\ balance' = [balance EXCEPT ![agent] = @ - value]
      /\ totalTrackedBalance' = totalTrackedBalance - value
      /\ native' = native - value
      /\ executions' = [executions EXCEPT ![agent][action] = @ + 1]
      /\ spentToday' = [spentToday EXCEPT ![agent] = @ + value]
      /\ UNCHANGED <<now, strategy, paused>>
  BY DEF Execute, Debit
<1> HIDE DEF value, spent
<1>3. balance' \in [Agents -> Nat] /\ totalTrackedBalance' \in Nat /\ native' \in Nat
  BY <1>1, <1>2 DEF TypeOK
<1>4. /\ dailySpent' \in [Agents -> Nat] /\ resetDay' \in [Agents -> Nat]
      /\ spentToday' \in [Agents -> Nat]
  BY <1>1, <1>2 DEF TypeOK
<1>5. usedActions' \in [Agents -> SUBSET Actions]
  BY <1>2 DEF TypeOK
<1>6. executions' \in [Agents -> [Actions -> Nat]]
  BY <1>2 DEF TypeOK
<1>7. QED
  BY <1>2, <1>3, <1>4, <1>5, <1>6 DEF TypeOK, strategy

LEMMA TypeNext == TypeOK /\ [Next]_vars => TypeOK'
<1> SUFFICES ASSUME TypeOK, [Next]_vars PROVE TypeOK'
  OBVIOUS
<1> USE DEF strategy, window, coins, history
<1>1. ASSUME NEW a \in Agents, NEW n \in Deposits, Deposit(a, n)
      PROVE  TypeOK'
  BY <1>1, FundType DEF Deposit, TypeOK
<1>2. ASSUME NEW a \in Agents, NEW n \in Deposits, Withdraw(a, n)
      PROVE  TypeOK'
  <2>1. n \in Nat
    BY VaultAssumption
  <2>2. balance' \in [Agents -> Nat]
    BY <1>2, <2>1 DEF Withdraw, TypeOK
  <2>3. QED
    BY <1>2, <2>1, <2>2 DEF Withdraw, TypeOK
<1>3. ASSUME NEW a \in Agents, NEW r \in Roots, NEW l \in Limits, NEW d \in Expiries,
             SetStrategy(a, r, l, d)
      PROVE  TypeOK'
  <2>1. Install(a, r, l, d)
    BY <1>3 DEF SetStrategy
  <2>2. QED
    BY <1>3, <2>1, InstallType DEF SetStrategy, TypeOK
<1>4. ASSUME NEW a \in Agents, NEW n \in Deposits, NEW r \in Roots, NEW l \in Limits,
             NEW d \in Expiries, DepositAndSetStrategy(a, n, r, l, d)
      PROVE  TypeOK'
  <2>1. Install(a, r, l, d) /\ Fund(a, n)
    BY <1>4 DEF DepositAndSetStrategy
  <2>2. UNCHANGED <<now, paused>>
    BY <1>4 DEF DepositAndSetStrategy
  <2>3. QED
    BY <2>1, <2>2, InstallType, FundType DEF TypeOK
<1>5. ASSUME NEW a \in Agents, NEW n \in Deposits, NEW r \in Roots, NEW l \in Limits,
             NEW d \in Expiries, NEW out \in Deposits,
             DepositSetStrategyAndWithdraw(a, n, r, l, d, out)
      PROVE  TypeOK'
  <2>1. Install(a, r, l, d)
    BY <1>5 DEF DepositSetStrategyAndWithdraw
  <2>2. n \in Nat /\ out \in Nat
    BY VaultAssumption
  <2>3. /\ balance' \in [Agents -> Nat] /\ totalTrackedBalance' \in Nat
        /\ native' \in Nat /\ UNCHANGED <<now, paused>>
    BY <1>5, <2>2 DEF DepositSetStrategyAndWithdraw, TypeOK
  <2>4. QED
    BY <2>1, <2>3, InstallType DEF TypeOK
<1>6. ASSUME NEW a \in Agents, NEW x \in Actions, Execute(a, x)
      PROVE  TypeOK'
  BY <1>6, ExecuteType
<1>7. ASSUME RecoverExcessNative
      PROVE  TypeOK'
  BY <1>7 DEF RecoverExcessNative, TypeOK
<1>8. ASSUME SetPaused
      PROVE  TypeOK'
  BY <1>8 DEF SetPaused, TypeOK
<1>9. ASSUME ForceSend
      PROVE  TypeOK'
  BY <1>9 DEF ForceSend, TypeOK
<1>10. ASSUME Tick
       PROVE  TypeOK'
  BY <1>10, VaultAssumption DEF Tick, TypeOK
<1>11. CASE UNCHANGED vars
  BY <1>11 DEF vars, TypeOK
<1>12. QED
  BY <1>1, <1>2, <1>3, <1>4, <1>5, <1>6, <1>7, <1>8, <1>9, <1>10, <1>11
     DEF Next, OwnerStep

\* Every variable keeps its type; no balance and no total goes below zero.
THEOREM TypeCorrect == Spec => []TypeOK
<1>1. Init => TypeOK
  <2> SUFFICES ASSUME Init PROVE TypeOK
    OBVIOUS
  <2>1. now \in 0..MaxTime
    BY VaultAssumption DEF Init
  <2>2. executions \in [Agents -> [Actions -> Nat]]
    BY DEF Init
  <2>3. QED
    BY <2>1, <2>2 DEF Init, TypeOK
<1>2. QED
  BY <1>1, TypeNext, PTL DEF Spec

-----------------------------------------------------------------------------
(* Tracked coins.                                                           *)

\* Tracked coins are always in the contract, for every sequence of deposits,
\* withdrawals, executions and recoveries.
THEOREM TrackedStays == Spec => []TrackedIsThere
<1>1. Init => TrackedIsThere
  BY DEF Init, TrackedIsThere
<1>2. TypeOK /\ TrackedIsThere /\ [Next]_vars => TrackedIsThere'
  <2> SUFFICES ASSUME TypeOK, TrackedIsThere, [Next]_vars PROVE TrackedIsThere'
    OBVIOUS
  <2> USE VaultAssumption DEF TrackedIsThere, TypeOK, coins
  <2>1. ASSUME OwnerStep
        PROVE  TrackedIsThere'
    BY <2>1 DEF OwnerStep, Deposit, Withdraw, SetStrategy, DepositAndSetStrategy,
                DepositSetStrategyAndWithdraw, Fund
  <2>2. ASSUME NEW a \in Agents, NEW x \in Actions, Execute(a, x)
        PROVE  TrackedIsThere'
    BY <2>2 DEF Execute
  <2>3. ASSUME RecoverExcessNative \/ SetPaused \/ ForceSend \/ Tick
        PROVE  TrackedIsThere'
    BY <2>3 DEF RecoverExcessNative, SetPaused, ForceSend, Tick
  <2>4. CASE UNCHANGED vars
    BY <2>4 DEF vars
  <2>5. QED
    BY <2>1, <2>2, <2>3, <2>4 DEF Next
<1>3. QED
  BY <1>1, <1>2, TypeCorrect, PTL DEF Spec

-----------------------------------------------------------------------------
(* One-shot actions.                                                        *)

\* An action that has been executed is a used action.
UsedIsExecuted ==
    \A a \in Agents, x \in Actions :
        executions[a][x] = IF x \in usedActions[a] THEN 1 ELSE 0

\* No action of an agent is executed twice, whatever strategies commit to it.
THEOREM OneShotHolds == Spec => []OneShot
<1>1. Init => UsedIsExecuted
  BY DEF Init, UsedIsExecuted
<1>2. TypeOK /\ UsedIsExecuted /\ [Next]_vars => UsedIsExecuted'
  <2> SUFFICES ASSUME TypeOK, UsedIsExecuted, [Next]_vars PROVE UsedIsExecuted'
    OBVIOUS
  <2> USE DEF UsedIsExecuted
  <2>1. ASSUME OwnerStep
        PROVE  UsedIsExecuted'
    BY <2>1 DEF OwnerStep, Deposit, Withdraw, SetStrategy, DepositAndSetStrategy,
                DepositSetStrategyAndWithdraw, Install, history
  <2>2. ASSUME NEW a \in Agents, NEW x \in Actions, Execute(a, x)
        PROVE  UsedIsExecuted'
    <3>1. /\ x \notin usedActions[a]
          /\ usedActions' = [usedActions EXCEPT ![a] = @ \cup {x}]
          /\ executions' = [executions EXCEPT ![a][x] = @ + 1]
      BY <2>2 DEF Execute
    <3> SUFFICES ASSUME NEW b \in Agents, NEW y \in Actions
                 PROVE  executions'[b][y] = IF y \in usedActions'[b] THEN 1 ELSE 0
      OBVIOUS
    <3>2. CASE b = a /\ y = x
      <4>1. executions[a][x] = 0
        BY <3>1
      <4>2. executions'[a][x] = executions[a][x] + 1
        BY <3>1 DEF TypeOK
      <4>3. x \in usedActions'[a]
        BY <3>1 DEF TypeOK
      <4>4. QED
        BY <3>2, <4>1, <4>2, <4>3
    <3>3. CASE ~(b = a /\ y = x)
      <4>1. executions'[b][y] = executions[b][y]
        BY <3>1, <3>3 DEF TypeOK
      <4>2. y \in usedActions'[b] <=> y \in usedActions[b]
        BY <3>1, <3>3 DEF TypeOK
      <4>3. QED
        BY <4>1, <4>2
    <3>4. QED
      BY <3>2, <3>3
  <2>3. ASSUME RecoverExcessNative \/ SetPaused \/ ForceSend \/ Tick
        PROVE  UsedIsExecuted'
    BY <2>3 DEF RecoverExcessNative, SetPaused, ForceSend, Tick, history
  <2>4. CASE UNCHANGED vars
    BY <2>4 DEF vars, history
  <2>5. QED
    BY <2>1, <2>2, <2>3, <2>4 DEF Next
<1>3. UsedIsExecuted => OneShot
  BY DEF UsedIsExecuted, OneShot
<1>4. QED
  BY <1>1, <1>2, <1>3, TypeCorrect, PTL DEF Spec

-----------------------------------------------------------------------------
(* The daily limit.                                                         *)

\* The count is today's spending while its day is today; until the first spend
\* of the day nothing has been spent, whatever the count of an earlier day says.
WindowInv ==
    \A a \in Agents :
        /\ resetDay[a] <= Today
        /\ dailySpent[a] <= dailyLimit[a]
        /\ spentToday[a] = IF resetDay[a] = Today THEN dailySpent[a] ELSE 0

LEMMA InstallWindow ==
    ASSUME TypeOK, WindowInv, NEW agent \in Agents, NEW root \in Roots,
           NEW limit \in Limits, NEW lastDay \in Expiries,
           Install(agent, root, limit, lastDay), now' = now
    PROVE  WindowInv'
<1>1. Today' = Today /\ Today \in Nat /\ limit \in Nat
  BY TodayNat, VaultAssumption DEF Today
<1>2. QED
  BY <1>1 DEF WindowInv, Install, TypeOK

LEMMA ExecuteWindow ==
    ASSUME TypeOK, WindowInv, NEW agent \in Agents, NEW action \in Actions,
           Execute(agent, action)
    PROVE  WindowInv'
<1> DEFINE value == ActionValue[action]
           spent == IF Today # resetDay[agent] THEN 0 ELSE dailySpent[agent]
<1>1. /\ Today' = Today /\ Today \in Nat /\ value \in Nat /\ spent \in Nat
      /\ spentToday[agent] = spent
  BY TodayNat, VaultAssumption DEF Today, TypeOK, WindowInv, Execute
<1>2. /\ spent + value <= dailyLimit[agent]
      /\ dailySpent' = [dailySpent EXCEPT ![agent] = spent + value]
      /\ resetDay' = [resetDay EXCEPT ![agent] = Today]
      /\ spentToday' = [spentToday EXCEPT ![agent] = @ + value]
      /\ dailyLimit' = dailyLimit
  BY DEF Execute, Debit, strategy
<1> HIDE DEF value, spent
<1>3. /\ dailySpent'[agent] = spent + value
      /\ resetDay'[agent] = Today
      /\ spentToday'[agent] = spent + value
  BY <1>1, <1>2 DEF TypeOK
<1>4. ASSUME NEW b \in Agents, b # agent
      PROVE  /\ dailySpent'[b] = dailySpent[b]
             /\ resetDay'[b] = resetDay[b]
             /\ spentToday'[b] = spentToday[b]
  BY <1>2, <1>4 DEF TypeOK
<1>5. QED
  BY <1>1, <1>2, <1>3, <1>4 DEF WindowInv, TypeOK

LEMMA WindowNext == TypeOK /\ WindowInv /\ [Next]_vars => WindowInv'
<1> SUFFICES ASSUME TypeOK, WindowInv, [Next]_vars PROVE WindowInv'
  OBVIOUS
<1>1. ASSUME NEW a \in Agents, NEW n \in Deposits, Deposit(a, n) \/ Withdraw(a, n)
      PROVE  WindowInv'
  BY <1>1 DEF WindowInv, Today, Deposit, Withdraw, strategy, window, history
<1>2. ASSUME NEW a \in Agents, NEW n \in Deposits, NEW r \in Roots, NEW l \in Limits,
             NEW d \in Expiries, NEW out \in Deposits,
             \/ SetStrategy(a, r, l, d)
             \/ DepositAndSetStrategy(a, n, r, l, d)
             \/ DepositSetStrategyAndWithdraw(a, n, r, l, d, out)
      PROVE  WindowInv'
  <2>1. Install(a, r, l, d) /\ now' = now
    BY <1>2 DEF SetStrategy, DepositAndSetStrategy, DepositSetStrategyAndWithdraw
  <2>2. QED
    BY <2>1, InstallWindow
<1>3. ASSUME NEW a \in Agents, NEW x \in Actions, Execute(a, x)
      PROVE  WindowInv'
  BY <1>3, ExecuteWindow
<1>4. ASSUME RecoverExcessNative \/ SetPaused \/ ForceSend
      PROVE  WindowInv'
  BY <1>4 DEF WindowInv, Today, RecoverExcessNative, SetPaused, ForceSend, strategy,
              window, history
<1>5. ASSUME Tick
      PROVE  WindowInv'
  <2>1. Today' = (now + 1) \div DayLength
    BY <1>5 DEF Tick, Today
  <2>2. Today \in Nat /\ Today' \in Nat /\ Today <= Today'
    BY <2>1, TodayNat
  <2>3. /\ UNCHANGED <<dailySpent, resetDay, dailyLimit>>
        /\ spentToday' = IF Today' # Today THEN [a \in Agents |-> 0] ELSE spentToday
    BY <1>5, <2>1 DEF Tick, strategy, window
  <2> SUFFICES ASSUME NEW a \in Agents
               PROVE  /\ resetDay'[a] <= Today'
                      /\ dailySpent'[a] <= dailyLimit'[a]
                      /\ spentToday'[a] = IF resetDay'[a] = Today' THEN dailySpent'[a] ELSE 0
    BY DEF WindowInv
  <2>4. resetDay[a] \in Nat /\ resetDay[a] <= Today /\ dailySpent[a] <= dailyLimit[a]
    BY DEF WindowInv, TypeOK
  <2>5. spentToday[a] = IF resetDay[a] = Today THEN dailySpent[a] ELSE 0
    BY DEF WindowInv
  <2>6. CASE Today' = Today
    BY <2>2, <2>3, <2>4, <2>5, <2>6
  <2>7. CASE Today' # Today
    BY <2>2, <2>3, <2>4, <2>7
  <2>8. QED
    BY <2>6, <2>7
<1>6. CASE UNCHANGED vars
  BY <1>6 DEF WindowInv, Today, vars, strategy, window, history
<1>7. QED
  BY <1>1, <1>2, <1>3, <1>4, <1>5, <1>6 DEF Next, OwnerStep

\* Within one day and one strategy an agent spends at most the strategy's limit.
THEOREM DayLimitHolds == Spec => []DayLimit
<1>1. Init => WindowInv
  <2>1. Init => Today \in Nat
    BY VaultAssumption, DaysGoOn DEF Init, Today
  <2>2. QED
    BY <2>1 DEF Init, WindowInv
<1>2. TypeOK /\ WindowInv => DayLimit
  BY DEF TypeOK, WindowInv, DayLimit
<1>3. QED
  BY <1>1, <1>2, WindowNext, TypeCorrect, PTL DEF Spec

-----------------------------------------------------------------------------
(* The tracked total is the sum of the balances.                            *)

\* One balance changes, and the tracked total by as much.
OneBalanceChanges ==
    \E a \in Agents, v \in Int :
        /\ balance' = [balance EXCEPT ![a] = v]
        /\ totalTrackedBalance' = totalTrackedBalance - balance[a] + v

\* What funding changes of the balances and their total.
LEMMA FundChanges ==
    ASSUME TypeOK, NEW a \in Agents, NEW n \in Deposits, Fund(a, n)
    PROVE  OneBalanceChanges
<1>1. /\ balance[a] + n \in Int
      /\ totalTrackedBalance + n = totalTrackedBalance - balance[a] + (balance[a] + n)
  BY VaultAssumption DEF TypeOK
<1> QED
  BY <1>1 DEF Fund, OneBalanceChanges

\* A step leaves balances and total alone, or moves one balance and the total with it.
LEMMA BalanceStep ==
    TypeOK /\ [Next]_vars =>
        UNCHANGED <<balance, totalTrackedBalance>> \/ OneBalanceChanges
<1> SUFFICES ASSUME TypeOK, [Next]_vars
             PROVE  UNCHANGED <<balance, totalTrackedBalance>> \/ OneBalanceChanges
  OBVIOUS
<1>1. ASSUME NEW a \in Agents, NEW n \in Deposits, Deposit(a, n) PROVE OneBalanceChanges
  BY <1>1, FundChanges DEF Deposit
<1>2. ASSUME NEW a \in Agents, NEW n \in Deposits, Withdraw(a, n) PROVE OneBalanceChanges
  <2>1. /\ balance[a] - n \in Int
        /\ totalTrackedBalance - n = totalTrackedBalance - balance[a] + (balance[a] - n)
    BY VaultAssumption DEF TypeOK
  <2> QED
    BY <1>2, <2>1 DEF Withdraw, OneBalanceChanges
<1>3. ASSUME NEW a \in Agents, NEW n \in Deposits, NEW r \in Roots, NEW l \in Limits,
             NEW d \in Expiries, DepositAndSetStrategy(a, n, r, l, d)
      PROVE  OneBalanceChanges
  BY <1>3, FundChanges DEF DepositAndSetStrategy
<1>4. ASSUME NEW a \in Agents, NEW n \in Deposits, NEW r \in Roots, NEW l \in Limits,
             NEW d \in Expiries, NEW out \in Deposits,
             DepositSetStrategyAndWithdraw(a, n, r, l, d, out)
      PROVE  OneBalanceChanges
  <2>1. /\ balance[a] + n - out \in Int
        /\ totalTrackedBalance + n - out
             = totalTrackedBalance - balance[a] + (balance[a] + n - out)
    BY VaultAssumption DEF TypeOK
  <2> QED
    BY <1>4, <2>1 DEF DepositSetStrategyAndWithdraw, OneBalanceChanges
<1>5. ASSUME NEW a \in Agents, NEW x \in Actions, Execute(a, x) PROVE OneBalanceChanges
  <2> DEFINE value == ActionValue[x]
  <2>1. /\ balance' = [balance EXCEPT ![a] = balance[a] - value]
        /\ totalTrackedBalance' = totalTrackedBalance - value
    BY <1>5 DEF Execute
  <2>2. value \in Nat
    BY VaultAssumption
  <2> HIDE DEF value
  <2>3. /\ balance[a] - value \in Int
        /\ totalTrackedBalance - value = totalTrackedBalance - balance[a] + (balance[a] - value)
    BY <2>2 DEF TypeOK
  <2> QED
    BY <2>1, <2>3 DEF OneBalanceChanges
<1>6. ASSUME NEW a \in Agents, NEW r \in Roots, NEW l \in Limits, NEW d \in Expiries,
             SetStrategy(a, r, l, d)
      PROVE  UNCHANGED <<balance, totalTrackedBalance>>
  BY <1>6 DEF SetStrategy, coins
<1>7. ASSUME RecoverExcessNative \/ SetPaused \/ ForceSend \/ Tick
      PROVE  UNCHANGED <<balance, totalTrackedBalance>>
  BY <1>7 DEF RecoverExcessNative, SetPaused, ForceSend, Tick, coins
<1>8. CASE UNCHANGED vars
  BY <1>8 DEF vars, coins
<1> QED
  BY <1>1, <1>2, <1>3, <1>4, <1>5, <1>6, <1>7, <1>8 DEF Next, OwnerStep

\* In every reachable state totalTrackedBalance is the sum of all agents' balances, so
\* what recoverExcessNative subtracts is exactly what the agents are owed.
THEOREM TrackedIsSumHolds == Spec => []TrackedIsSum
<1>1. Init => TrackedIsSum
  <2> SUFFICES ASSUME Init PROVE TrackedIsSum
    OBVIOUS
  <2>1. balance \in [Agents -> Int] /\ totalTrackedBalance = 0 /\ \A a \in Agents : balance[a] = 0
    BY DEF Init
  <2> QED
    BY <2>1, AgentsAssumption, SumZero DEF TrackedIsSum
<1>2. TypeOK /\ TrackedIsSum /\ [Next]_vars => TrackedIsSum'
  <2> SUFFICES ASSUME TypeOK, TrackedIsSum, [Next]_vars PROVE TrackedIsSum'
    OBVIOUS
  <2>1. CASE UNCHANGED <<balance, totalTrackedBalance>>
    BY <2>1 DEF TrackedIsSum
  <2>2. CASE OneBalanceChanges
    <3>1. PICK a \in Agents, v \in Int :
             /\ balance' = [balance EXCEPT ![a] = v]
             /\ totalTrackedBalance' = totalTrackedBalance - balance[a] + v
      BY <2>2 DEF OneBalanceChanges
    <3>2. balance \in [Agents -> Int]
      BY DEF TypeOK
    <3>3. SumFunction([balance EXCEPT ![a] = v]) = SumFunction(balance) - balance[a] + v
      BY <3>2, AgentsAssumption, SumChange
    <3> QED
      BY <3>1, <3>3 DEF TrackedIsSum
  <2> QED
    BY <2>1, <2>2, BalanceStep
<1> QED
  BY <1>1, <1>2, TypeCorrect, PTL DEF Spec
=============================================================================
