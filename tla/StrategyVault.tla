---------------------------- MODULE StrategyVault ----------------------------
(***************************************************************************)
(* AxiomStrategyVault: native coins kept per agent token, which the        *)
(* token's owner deposits and withdraws and which anyone may spend by      *)
(* executing an action the owner's strategy commits to.                    *)
(*                                                                         *)
(* A strategy root stands for the set of actions a Merkle proof exists     *)
(* for.  execute, withdraw and the merged deposits change their state      *)
(* before they call out and do nothing to it after, and a failed call      *)
(* undoes everything: a callback is a later step, a failure is no step.    *)
(***************************************************************************)
EXTENDS Integers, FiniteSets, Functions

CONSTANTS
    Agents,             \* token ids of the agent NFT
    Actions,            \* (target, value, data) leaves
    ActionValue,        \* the value an action sends
    Roots,              \* the sets of actions strategies commit to
    Limits, Expiries,   \* daily limits and last valid days owners choose
    Deposits,           \* amounts owners deposit and withdraw
    DayLength,          \* 1 days, in the model's units of time
    MaxTime,            \* bound: time
    MaxNative           \* bound: coins the vault ever holds

ASSUME VaultAssumption ==
    /\ ActionValue \in [Actions -> Nat]
    /\ Roots \subseteq SUBSET Actions
    /\ Limits \subseteq Nat /\ Expiries \subseteq Nat /\ Deposits \subseteq Nat
    /\ DayLength \in Nat \ {0} /\ MaxTime \in Nat /\ MaxNative \in Nat

\* Token ids are minted one by one: there are finitely many.
ASSUME AgentsAssumption == IsFiniteSet(Agents)

VARIABLES
    now,                    \* block.timestamp
    balance,                \* vaults[tokenId], one function per field
    strategyRoot, dailyLimit, dailySpent, resetDay, validUntilDay,
    usedActions,
    totalTrackedBalance,
    native,                 \* address(this).balance
    paused,
    executions,             \* history: how often each action was executed
    spentToday              \* history: spent by each agent in the running day
                            \* under the strategy in force

strategy == <<strategyRoot, dailyLimit, validUntilDay>>
window == <<dailySpent, resetDay>>
coins == <<balance, totalTrackedBalance, native>>
history == <<executions, spentToday>>
vars == <<now, strategy, window, coins, usedActions, paused, history>>

TypeOK ==
    /\ now \in 0..MaxTime
    /\ balance \in [Agents -> Nat]
    /\ strategyRoot \in [Agents -> SUBSET Actions]
    /\ dailyLimit \in [Agents -> Nat]
    /\ dailySpent \in [Agents -> Nat]
    /\ resetDay \in [Agents -> Nat]
    /\ validUntilDay \in [Agents -> Nat]
    /\ usedActions \in [Agents -> SUBSET Actions]
    /\ totalTrackedBalance \in Nat
    /\ native \in Nat
    /\ paused \in BOOLEAN
    /\ executions \in [Agents -> [Actions -> Nat]]
    /\ spentToday \in [Agents -> Nat]

Init ==
    /\ now = 0
    /\ balance = [a \in Agents |-> 0]
    /\ strategyRoot = [a \in Agents |-> {}]
    /\ dailyLimit = [a \in Agents |-> 0]
    /\ dailySpent = [a \in Agents |-> 0]
    /\ resetDay = [a \in Agents |-> 0]
    /\ validUntilDay = [a \in Agents |-> 0]
    /\ usedActions = [a \in Agents |-> {}]
    /\ totalTrackedBalance = 0
    /\ native = 0
    /\ paused = FALSE
    /\ executions = [a \in Agents |-> [x \in Actions |-> 0]]
    /\ spentToday = [a \in Agents |-> 0]

Today == now \div DayLength

(***************************************************************************)
(* The owner's operations                                                  *)
(***************************************************************************)
\* Mutant: the tracked total is left alone.
FundUntracked(agent, amount) ==
    /\ amount > 0
    /\ native + amount <= MaxNative
    /\ balance' = [balance EXCEPT ![agent] = @ + amount]
    /\ native' = native + amount
    /\ UNCHANGED totalTrackedBalance

Fund(agent, amount) ==
    /\ amount > 0
    /\ native + amount <= MaxNative
    /\ balance' = [balance EXCEPT ![agent] = @ + amount]
    /\ totalTrackedBalance' = totalTrackedBalance + amount
    /\ native' = native + amount

Deposit(agent, amount) ==
    /\ ~paused
    /\ Fund(agent, amount)
    /\ UNCHANGED <<now, strategy, window, usedActions, paused, history>>

\* Not gated by the pause.
Withdraw(agent, amount) ==
    /\ amount > 0 /\ amount <= balance[agent]
    /\ amount <= totalTrackedBalance /\ amount <= native
    /\ balance' = [balance EXCEPT ![agent] = @ - amount]
    /\ totalTrackedBalance' = totalTrackedBalance - amount
    /\ native' = native - amount
    /\ UNCHANGED <<now, strategy, window, usedActions, paused, history>>

\* Mutant: a new strategy starts with no action used.
InstallAfresh(agent, root, limit, lastDay) ==
    /\ strategyRoot' = [strategyRoot EXCEPT ![agent] = root]
    /\ dailyLimit' = [dailyLimit EXCEPT ![agent] = limit]
    /\ validUntilDay' = [validUntilDay EXCEPT ![agent] = lastDay]
    /\ dailySpent' = [dailySpent EXCEPT ![agent] = 0]
    /\ resetDay' = [resetDay EXCEPT ![agent] = Today]
    /\ spentToday' = [spentToday EXCEPT ![agent] = 0]
    /\ usedActions' = [usedActions EXCEPT ![agent] = {}]
    /\ UNCHANGED executions

\* Setting a strategy restarts the day's spending.
Install(agent, root, limit, lastDay) ==
    /\ strategyRoot' = [strategyRoot EXCEPT ![agent] = root]
    /\ dailyLimit' = [dailyLimit EXCEPT ![agent] = limit]
    /\ validUntilDay' = [validUntilDay EXCEPT ![agent] = lastDay]
    /\ dailySpent' = [dailySpent EXCEPT ![agent] = 0]
    /\ resetDay' = [resetDay EXCEPT ![agent] = Today]
    /\ spentToday' = [spentToday EXCEPT ![agent] = 0]
    /\ UNCHANGED <<usedActions, executions>>

SetStrategy(agent, root, limit, lastDay) ==
    /\ ~paused
    /\ Install(agent, root, limit, lastDay)
    /\ UNCHANGED <<now, coins, paused>>

DepositAndSetStrategy(agent, amount, root, limit, lastDay) ==
    /\ ~paused
    /\ Fund(agent, amount)
    /\ Install(agent, root, limit, lastDay)
    /\ UNCHANGED <<now, paused>>

\* The withdrawal sees the balance after the deposit.
DepositSetStrategyAndWithdraw(agent, amount, root, limit, lastDay, out) ==
    /\ ~paused
    /\ amount > 0 /\ native + amount <= MaxNative
    /\ out > 0 /\ out <= balance[agent] + amount
    /\ out <= totalTrackedBalance + amount
    /\ balance' = [balance EXCEPT ![agent] = @ + amount - out]
    /\ totalTrackedBalance' = totalTrackedBalance + amount - out
    /\ native' = native + amount - out
    /\ out <= native + amount
    /\ Install(agent, root, limit, lastDay)
    /\ UNCHANGED <<now, paused>>

(***************************************************************************)
(* Execution, open to everyone                                             *)
(***************************************************************************)
\* Mutant: the new day's first spend does not move resetDay.
DebitStuck(agent, value) ==
    LET spent == IF Today # resetDay[agent] THEN 0 ELSE dailySpent[agent]
    IN  /\ spent + value <= dailyLimit[agent]
        /\ dailySpent' = [dailySpent EXCEPT ![agent] = spent + value]
        /\ UNCHANGED resetDay

\* The first spend of a day restarts the count.
Debit(agent, value) ==
    LET spent == IF Today # resetDay[agent] THEN 0 ELSE dailySpent[agent]
    IN  /\ spent + value <= dailyLimit[agent]
        /\ dailySpent' = [dailySpent EXCEPT ![agent] = spent + value]
        /\ resetDay' = [resetDay EXCEPT ![agent] = Today]

Live(agent) ==
    /\ strategyRoot[agent] # {}
    /\ validUntilDay[agent] = 0 \/ Today <= validUntilDay[agent]

Execute(agent, action) ==
    LET value == ActionValue[action]
    IN  /\ ~paused
        /\ Live(agent)
        /\ value <= balance[agent] /\ value <= totalTrackedBalance /\ value <= native
        /\ Debit(agent, value)
        /\ action \in strategyRoot[agent]
        /\ action \notin usedActions[agent]
        /\ usedActions' = [usedActions EXCEPT ![agent] = @ \cup {action}]
        /\ balance' = [balance EXCEPT ![agent] = @ - value]
        /\ totalTrackedBalance' = totalTrackedBalance - value
        /\ native' = native - value
        /\ executions' = [executions EXCEPT ![agent][action] = @ + 1]
        /\ spentToday' = [spentToday EXCEPT ![agent] = @ + value]
        /\ UNCHANGED <<now, strategy, paused>>

(***************************************************************************)
(* The vault's owner, and the world around it                              *)
(***************************************************************************)
\* Mutant: everything the contract holds counts as excess.
RecoverNative ==
    /\ native > 0
    /\ native' = 0
    /\ UNCHANGED <<now, strategy, window, balance, totalTrackedBalance,
                   usedActions, paused, history>>

RecoverExcessNative ==
    /\ native > totalTrackedBalance
    /\ native' = totalTrackedBalance
    /\ UNCHANGED <<now, strategy, window, balance, totalTrackedBalance,
                   usedActions, paused, history>>

SetPaused ==
    /\ paused' = ~paused
    /\ UNCHANGED <<now, strategy, window, coins, usedActions, history>>

\* Coins that no function of the vault has received (a self-destruct).
ForceSend ==
    /\ native < MaxNative
    /\ native' = native + 1
    /\ UNCHANGED <<now, strategy, window, balance, totalTrackedBalance,
                   usedActions, paused, history>>

Tick ==
    /\ now < MaxTime
    /\ now' = now + 1
    /\ spentToday' = IF (now + 1) \div DayLength # Today
                     THEN [a \in Agents |-> 0] ELSE spentToday
    /\ UNCHANGED <<strategy, window, coins, usedActions, paused, executions>>

(***************************************************************************)
(* The specification                                                       *)
(***************************************************************************)
OwnerStep ==
    \E agent \in Agents, amount \in Deposits :
        \/ Deposit(agent, amount)
        \/ Withdraw(agent, amount)
        \/ \E root \in Roots, limit \in Limits, lastDay \in Expiries :
            \/ SetStrategy(agent, root, limit, lastDay)
            \/ DepositAndSetStrategy(agent, amount, root, limit, lastDay)
            \/ \E out \in Deposits :
                DepositSetStrategyAndWithdraw(agent, amount, root, limit, lastDay, out)

Next ==
    \/ OwnerStep
    \/ \E agent \in Agents, action \in Actions : Execute(agent, action)
    \/ RecoverExcessNative \/ SetPaused \/ ForceSend \/ Tick

Spec == Init /\ [][Next]_vars

(***************************************************************************)
(* Properties                                                              *)
(***************************************************************************)

\* The sum that recoverExcessNative subtracts is the sum of the agents' balances.
TrackedIsSum == totalTrackedBalance = SumFunction(balance)

\* What recoverExcessNative may pay out never includes a tracked coin, whatever
\* has been executed, withdrawn or forced in.
TrackedIsThere == totalTrackedBalance <= native

\* An action is executed once per agent, over any number of strategies that
\* commit to it.
OneShot == \A a \in Agents, x \in Actions : executions[a][x] <= 1

\* In one UTC day, under one strategy, an agent spends at most the daily limit,
\* though the count is only restarted by the first spend of the day.
DayLimit == \A a \in Agents : spentToday[a] <= dailyLimit[a]

=============================================================================
