---------------------------- MODULE CustodyLedger ----------------------------
(***************************************************************************)
(* What AxiomGasTank promises about the money it holds, without relays,    *)
(* windows, settings or counters: a reserve, and per user a spend-only     *)
(* grant and the user's own wei.  A step is described by how it changes    *)
(* the three amounts, never by who calls or by how much is asked.          *)
(***************************************************************************)
EXTENDS Integers

CONSTANT Users

VARIABLES reserve, grant, own

vars == <<reserve, grant, own>>

\* f changes at u at most.
OnlyAt(f, u) == f' = [f EXCEPT ![u] = f'[u]]

Init ==
    /\ reserve = 0
    /\ grant = [u \in Users |-> 0]
    /\ own = [u \in Users |-> 0]

Fund == reserve' > reserve /\ UNCHANGED <<grant, own>>

Credit(u) ==
    /\ OnlyAt(own, u)
    /\ own'[u] > own[u]
    /\ UNCHANGED <<reserve, grant>>

\* A user takes out own wei only; the grant stays.
Withdraw(u) ==
    /\ OnlyAt(own, u)
    /\ 0 <= own'[u] /\ own'[u] < own[u]
    /\ UNCHANGED <<reserve, grant>>

\* A grant is paid by the reserve, once, in full and never on credit.
Issue(u) ==
    /\ OnlyAt(grant, u)
    /\ grant'[u] > grant[u]
    /\ grant'[u] - grant[u] = reserve - reserve'
    /\ reserve' >= 0
    /\ UNCHANGED own

\* A relay consumes the grant first and own wei only once it is used up. It
\* charges the one user who signed, and never the reserve.
Spend(u) ==
    /\ OnlyAt(grant, u) /\ OnlyAt(own, u)
    /\ 0 <= grant'[u] /\ grant'[u] <= grant[u]
    /\ 0 <= own'[u] /\ own'[u] <= own[u]
    /\ own'[u] < own[u] => grant'[u] = 0
    /\ UNCHANGED reserve

Next ==
    \/ Fund
    \/ \E u \in Users : Credit(u) \/ Withdraw(u) \/ Issue(u) \/ Spend(u)

Spec == Init /\ [][Next]_vars
=============================================================================
