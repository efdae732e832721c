------------------------------- MODULE GasTank -------------------------------
(***************************************************************************)
(* AxiomGasTank.sol: prepaid gas tanks, protocol grants and the meta-relay *)
(* that reimburses relayers out of them.                                   *)
(*                                                                         *)
(* A contract call is one atomic step, with one exception: relay() hands   *)
(* control to the signed target between burning the nonce and computing    *)
(* the reimbursement.  Only relay() and withdrawTank() are nonReentrant,   *)
(* so every other function may run inside that window.  relay() is         *)
(* therefore two steps, RelayBegin and RelaySettle, and `inflight` holds   *)
(* the call in between.  A target that reverts rolls back whatever it did  *)
(* and reimbursement goes on, which is the same as a target that did       *)
(* nothing; a transaction that reverts as a whole leaves no trace and is   *)
(* a step that is not taken.                                               *)
(*                                                                         *)
(* Subtractions are checked (Solidity 0.8): each one whose operands are    *)
(* read from storage appears as a guard.                                   *)
(***************************************************************************)
EXTENDS Integers, FiniteSets, Functions

CONSTANTS
    Users,          \* accounts that own a tank
    Amounts,        \* wei values a caller may send, withdraw or sign for
    GasPrices,      \* values of tx.gasprice
    GasMeasures,    \* values of the gasleft() delta of the target call
    GasGrants,      \* grant sizes the owner may choose
    GrantCaps,      \* grants-per-address caps the owner may choose
    OpCaps,         \* gas-unit ceilings the owner may choose
    DailyLimits,    \* daily ceilings the owner may choose, 0 disables
    MaxWei,         \* bound: wei held by the contract
    MaxDay,         \* bound: last day of the model
    MaxNonce        \* bound: relays per user

ASSUME TankAssumption ==
    /\ Amounts \subseteq Nat \ {0}
    /\ GasPrices \subseteq Nat
    /\ GasMeasures \subseteq Nat
    /\ GasGrants \subseteq Nat \ {0}
    /\ GrantCaps \subseteq Nat \ {0}
    /\ OpCaps \subseteq Nat \ {0}
    /\ DailyLimits \subseteq Nat
    /\ MaxWei \in Nat /\ MaxDay \in Nat /\ MaxNonce \in Nat

\* An account is an address, and there are finitely many of them.
ASSUME UsersAssumption == IsFiniteSet(Users)

VARIABLES
    tank, grantBalance, grantsUsed, nonces, dailySpent, resetDay, \* per user
    gasReserve, totalTankBalance,                        \* tracked pools
    gasGrant, grantsCap, maxGasPerOp, dailyLimit,        \* owner settings
    balance,        \* address(this).balance
    day,            \* block.timestamp / 1 days
    inflight,       \* the relay whose target is executing: at most one
    contributed,    \* history: deposits minus withdrawals of each user
    windowPaid      \* history: wei reimbursed today under the present limit

accounts == <<tank, grantBalance, grantsUsed>>
window   == <<dailySpent, resetDay>>
pools    == <<gasReserve, totalTankBalance>>
settings == <<gasGrant, grantsCap, maxGasPerOp, dailyLimit>>
history  == <<contributed, windowPaid>>
vars == <<accounts, nonces, window, pools, settings, balance, day, inflight,
          history>>

\* A relay between its target call and its reimbursement. `windowed`: it was
\* admitted against the daily limit that is still in force.
Calls == [user: Users, maxGasCost: Nat, nonce: Nat, windowed: BOOLEAN]

Least(a, b) == IF a <= b THEN a ELSE b

TypeOK ==
    /\ tank \in [Users -> Nat]
    /\ grantBalance \in [Users -> Nat]
    /\ grantsUsed \in [Users -> Nat]
    /\ nonces \in [Users -> Nat]
    /\ dailySpent \in [Users -> Nat]
    /\ resetDay \in [Users -> Nat]
    /\ gasReserve \in Nat
    /\ totalTankBalance \in Nat
    /\ gasGrant \in Nat \ {0}
    /\ grantsCap \in Nat \ {0}
    /\ maxGasPerOp \in Nat \ {0}
    /\ dailyLimit \in Nat
    /\ balance \in Nat
    /\ day \in Nat
    /\ inflight \in SUBSET Calls
    /\ contributed \in [Users -> Int]
    /\ windowPaid \in [Users -> Nat]

Init ==
    /\ tank = [u \in Users |-> 0]
    /\ grantBalance = [u \in Users |-> 0]
    /\ grantsUsed = [u \in Users |-> 0]
    /\ nonces = [u \in Users |-> 0]
    /\ dailySpent = [u \in Users |-> 0]
    /\ resetDay = [u \in Users |-> 0]
    /\ gasReserve = 0
    /\ totalTankBalance = 0
    /\ gasGrant \in GasGrants
    /\ grantsCap \in GrantCaps
    /\ maxGasPerOp \in OpCaps
    /\ dailyLimit = 0
    /\ balance = 0
    /\ day \in 1..MaxDay        \* deployment happens well after 1970
    /\ inflight = {}
    /\ contributed = [u \in Users |-> 0]
    /\ windowPaid = [u \in Users |-> 0]

(***************************************************************************)
(* Funding                                                                 *)
(***************************************************************************)
DepositReserve(a) ==
    /\ balance + a <= MaxWei
    /\ gasReserve' = gasReserve + a
    /\ balance' = balance + a
    /\ UNCHANGED <<accounts, nonces, window, totalTankBalance, settings, day,
                   inflight, history>>

Deposit(u, a) ==
    /\ balance + a <= MaxWei
    /\ tank' = [tank EXCEPT ![u] = @ + a]
    /\ totalTankBalance' = totalTankBalance + a
    /\ balance' = balance + a
    /\ contributed' = [contributed EXCEPT ![u] = @ + a]
    /\ UNCHANGED <<grantBalance, grantsUsed, nonces, window, gasReserve,
                   settings, day, inflight, windowPaid>>

\* The part of a tank that withdrawTank lets go: grant wei is spend-only.
Withdrawable(u) == tank[u] - grantBalance[u]

\* Mutant of WithdrawTank: without the nonReentrant guard.
WithdrawTankReentrant(u, a) ==
    /\ a <= Withdrawable(u) /\ a <= totalTankBalance /\ a <= balance
    /\ tank' = [tank EXCEPT ![u] = @ - a]
    /\ totalTankBalance' = totalTankBalance - a
    /\ balance' = balance - a
    /\ contributed' = [contributed EXCEPT ![u] = @ - a]
    /\ UNCHANGED <<grantBalance, grantsUsed, nonces, window, gasReserve,
                   settings, day, inflight, windowPaid>>

WithdrawTank(u, a) ==
    /\ inflight = {}                            \* nonReentrant
    /\ a <= tank[u]
    /\ a <= Withdrawable(u)
    /\ a <= totalTankBalance
    /\ a <= balance                             \* the transfer succeeds
    /\ tank' = [tank EXCEPT ![u] = @ - a]
    /\ totalTankBalance' = totalTankBalance - a
    /\ balance' = balance - a
    /\ contributed' = [contributed EXCEPT ![u] = @ - a]
    /\ UNCHANGED <<grantBalance, grantsUsed, nonces, window, gasReserve,
                   settings, day, inflight, windowPaid>>

\* Wei that arrives without a call (self-destruct, block reward): receive()
\* refuses every ordinary transfer.
ForceSend(a) ==
    /\ balance + a <= MaxWei
    /\ balance' = balance + a
    /\ UNCHANGED <<accounts, nonces, window, pools, settings, day, inflight,
                   history>>

\* Mutant of RecoverReserve: the tanks are not part of what is tracked.
RecoverReserveGreedy ==
    /\ balance > gasReserve
    /\ balance' = gasReserve
    /\ UNCHANGED <<accounts, nonces, window, pools, settings, day, inflight,
                   history>>

RecoverReserve ==
    LET surplus == balance - (gasReserve + totalTankBalance) IN
    /\ surplus > 0
    /\ balance' = balance - surplus
    /\ UNCHANGED <<accounts, nonces, window, pools, settings, day, inflight,
                   history>>

(***************************************************************************)
(* Grants                                                                  *)
(***************************************************************************)
CanGrant(u) == grantsUsed[u] < grantsCap /\ gasReserve >= gasGrant

\* Mutants of IssueGrant: a grant that misses the counter of the tanks, and
\* one that is not recorded as spend-only.
IssueGrantUncounted(u) ==
    /\ grantsUsed' = [grantsUsed EXCEPT ![u] = @ + 1]
    /\ tank' = [tank EXCEPT ![u] = @ + gasGrant]
    /\ grantBalance' = [grantBalance EXCEPT ![u] = @ + gasGrant]
    /\ gasReserve' = gasReserve - gasGrant
    /\ UNCHANGED totalTankBalance
IssueGrantAsDeposit(u) ==
    /\ grantsUsed' = [grantsUsed EXCEPT ![u] = @ + 1]
    /\ tank' = [tank EXCEPT ![u] = @ + gasGrant]
    /\ gasReserve' = gasReserve - gasGrant
    /\ totalTankBalance' = totalTankBalance + gasGrant
    /\ UNCHANGED grantBalance

\* Move one grant from the reserve into the tank of u.
IssueGrant(u) ==
    /\ grantsUsed' = [grantsUsed EXCEPT ![u] = @ + 1]
    /\ tank' = [tank EXCEPT ![u] = @ + gasGrant]
    /\ grantBalance' = [grantBalance EXCEPT ![u] = @ + gasGrant]
    /\ gasReserve' = gasReserve - gasGrant
    /\ totalTankBalance' = totalTankBalance + gasGrant

GrantCredit(u) ==
    /\ tank[u] < gasGrant
    /\ CanGrant(u)
    /\ IssueGrant(u)
    /\ UNCHANGED <<nonces, window, settings, balance, day, inflight, history>>

(***************************************************************************)
(* Relay                                                                   *)
(***************************************************************************)
\* Phase 2: the lazy grant, and what the tank holds after it.
NeedsGrant(u, m) == tank[u] < m
TankForRelay(u, m) == IF NeedsGrant(u, m) THEN tank[u] + gasGrant ELSE tank[u]

LazyGrant(u, m) ==
    IF NeedsGrant(u, m)
    THEN CanGrant(u) /\ IssueGrant(u)
    ELSE UNCHANGED <<accounts, pools>>

\* Mutant of SpentToday: the window starts afresh on every relay.
SpentTodayForgotten(u) == 0

\* Phase 4: what today's window has already consumed, and its roll-over.
SpentToday(u) == IF resetDay[u] = day THEN dailySpent[u] ELSE 0

EnterWindow(u, m) ==
    IF dailyLimit = 0
    THEN UNCHANGED window
    ELSE /\ SpentToday(u) + m <= dailyLimit
         /\ dailySpent' = [dailySpent EXCEPT ![u] = SpentToday(u)]
         /\ resetDay' = [resetDay EXCEPT ![u] = day]

\* Phases 1 to 4, up to the target call: u signed for at most m wei with
\* this nonce and a deadline that has not passed.
RelayBegin(u, m, nonce, deadline) ==
    /\ inflight = {}                            \* nonReentrant
    /\ day <= deadline
    /\ nonce = nonces[u]
    /\ nonces' = [nonces EXCEPT ![u] = nonce + 1]
    /\ LazyGrant(u, m)
    /\ TankForRelay(u, m) >= m                  \* else TankExhausted
    /\ EnterWindow(u, m)
    /\ inflight' = {[user |-> u, maxGasCost |-> m, nonce |-> nonce,
                     windowed |-> dailyLimit # 0]}
    /\ UNCHANGED <<settings, balance, day, history>>

\* Phase 6: the three-way minimum, read against the settings as they are
\* after the target call.
Reimburse(c, measured, price) ==
    Least(Least(measured * price, c.maxGasCost), maxGasPerOp * price)

\* Mutant of GrantShare: own wei is spent first.
GrantShareLast(u, amount) ==
    IF amount <= Withdrawable(u) THEN 0 ELSE amount - Withdrawable(u)

\* Grant wei pays first, the deposit-backed remainder after it.
GrantShare(u, amount) == Least(grantBalance[u], amount)

ChargeWindow(u, amount) ==
    IF dailyLimit = 0
    THEN UNCHANGED dailySpent
    ELSE dailySpent' = [dailySpent EXCEPT ![u] = @ + amount]

RelaySettle(measured, price) ==
    \E c \in inflight :
        LET u == c.user
            paid == Reimburse(c, measured, price)
        IN  /\ paid <= tank[u]
            /\ paid <= totalTankBalance
            /\ paid <= balance
            /\ grantBalance' =
                 [grantBalance EXCEPT ![u] = @ - GrantShare(u, paid)]
            /\ tank' = [tank EXCEPT ![u] = @ - paid]
            /\ totalTankBalance' = totalTankBalance - paid
            /\ ChargeWindow(u, paid)
            /\ balance' = balance - paid
            /\ inflight' = {}
            /\ windowPaid' = IF c.windowed
                             THEN [windowPaid EXCEPT ![u] = @ + paid]
                             ELSE windowPaid
            /\ UNCHANGED <<grantsUsed, nonces, resetDay, gasReserve, settings,
                           day, contributed>>

(***************************************************************************)
(* Owner settings                                                          *)
(***************************************************************************)
SetGasGrant(g) ==
    /\ gasGrant' = g
    /\ UNCHANGED <<accounts, nonces, window, pools, grantsCap, maxGasPerOp,
                   dailyLimit, balance, day, inflight, history>>

SetGrantsCap(n) ==
    /\ grantsCap' = n
    /\ UNCHANGED <<accounts, nonces, window, pools, gasGrant, maxGasPerOp,
                   dailyLimit, balance, day, inflight, history>>

SetMaxGasPerOp(n) ==
    /\ maxGasPerOp' = n
    /\ UNCHANGED <<accounts, nonces, window, pools, gasGrant, grantsCap,
                   dailyLimit, balance, day, inflight, history>>

\* A new limit starts the history of reimbursements under it; a relay that
\* was admitted before it is not part of that history.
SetDailyLimit(l) ==
    /\ dailyLimit' = l
    /\ windowPaid' = [u \in Users |-> 0]
    /\ inflight' = {[c EXCEPT !.windowed = FALSE] : c \in inflight}
    /\ UNCHANGED <<accounts, nonces, window, pools, gasGrant, grantsCap,
                   maxGasPerOp, balance, day, contributed>>

\* Midnight falls between transactions.
NextDay ==
    /\ inflight = {}
    /\ day < MaxDay
    /\ day' = day + 1
    /\ windowPaid' = [u \in Users |-> 0]
    /\ UNCHANGED <<accounts, nonces, window, pools, settings, balance,
                   inflight, contributed>>

OwnerStep ==
    \/ \E g \in GasGrants : SetGasGrant(g)
    \/ \E n \in GrantCaps : SetGrantsCap(n)
    \/ \E n \in OpCaps : SetMaxGasPerOp(n)
    \/ \E l \in DailyLimits : SetDailyLimit(l)
    \/ \E a \in Amounts : DepositReserve(a)
    \/ RecoverReserve

UserStep ==
    \E u \in Users :
        \/ \E a \in Amounts : Deposit(u, a) \/ WithdrawTank(u, a)
        \/ GrantCredit(u)
        \/ \E m \in Amounts, n \in 0..MaxNonce, deadline \in 0..MaxDay :
               RelayBegin(u, m, n, deadline)

RelayerStep ==
    \E measured \in GasMeasures, price \in GasPrices :
        RelaySettle(measured, price)

ChainStep == NextDay \/ \E a \in Amounts : ForceSend(a)

Next == OwnerStep \/ UserStep \/ RelayerStep \/ ChainStep

Spec == Init /\ [][Next]_vars

-----------------------------------------------------------------------------
(***************************************************************************)
(* Properties                                                              *)
(***************************************************************************)

\* The accounting invariant of the contract: tracked wei is backed by native
\* wei, also while a target is executing and may call back in.
Solvent == gasReserve + totalTankBalance <= balance

\* The counter recoverReserve relies on is the sum of the tanks: otherwise
\* the owner could sweep wei that a user still owns.
TotalIsSumOfTanks == totalTankBalance = SumFunction(tank)

\* Unspent grant wei is part of the tank: otherwise withdrawTank underflows
\* and the user is locked out of the deposit.
GrantWithinTank == \A u \in Users : grantBalance[u] <= tank[u]

\* Grants are spend-only: whatever the order of grants, relays, deposits and
\* withdrawals, nobody takes out more than they put in.
GrantsAreSpendOnly ==
    \A u \in Users : tank[u] - grantBalance[u] <= contributed[u]

\* The daily ceiling bounds what was really reimbursed today under it, not
\* only the counter the contract keeps.
DailyCeiling ==
    dailyLimit # 0 => \A u \in Users : windowPaid[u] <= dailyLimit

\* Why DailyCeiling holds: the stored counter covers what the history counts,
\* and a relay admitted under the present limit still fits under it.
WindowInv ==
    /\ \A u \in Users : windowPaid[u] <= SpentToday(u)
    /\ \A c \in inflight : c.windowed =>
          /\ dailyLimit # 0
          /\ resetDay[c.user] = day
          /\ windowPaid[c.user] + c.maxGasCost <= dailyLimit

\* Once admitted, a relay can be reimbursed up to what its user signed,
\* whatever runs during the target call: the settlement never reverts.
AdmittedIsCovered ==
    \A c \in inflight :
        /\ c.maxGasCost <= tank[c.user]
        /\ c.nonce < nonces[c.user]

\* The tank implements the custody ledger: the own wei of a user is the part
\* of the tank that is not unspent grant.
Ledger == INSTANCE CustodyLedger WITH
    reserve <- gasReserve,
    grant <- grantBalance,
    own <- [u \in Users |-> tank[u] - grantBalance[u]]

\* Every step moves money the way the ledger allows: only a grant lowers the
\* reserve, only the owner of a tank takes wei out, grant wei is spent first.
ImplementsLedger == Ledger!Spec

\* What the notice of the contract says of relayers: they are never out of
\* pocket. The reimbursement is the smallest of cost and two ceilings.
RelayerNeverOutOfPocket ==
    [][\A c \in inflight, measured \in GasMeasures, price \in GasPrices :
         RelaySettle(measured, price) =>
             Reimburse(c, measured, price) = measured * price]_vars
=============================================================================
