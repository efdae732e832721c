------------------------- MODULE DelegationRegistry -------------------------
(***************************************************************************)
(* AxiomDelegationRegistry: an agent's owner signs a delegation, anybody   *)
(* installs it, and its delegate then spends its own coins in the agent's  *)
(* name within a cap per call and a cap per window of time.                *)
(*                                                                         *)
(* A selector root stands for the (target, selector) pairs it has a proof  *)
(* for.  delegatedExecute debits before it calls out and changes nothing   *)
(* after, so what its target calls back into is a later step.  Coins stay  *)
(* far below 2^128, where the window's counter would be cut.               *)
(***************************************************************************)
EXTENDS Integers

CONSTANTS
    Agents,         \* token ids of the agent NFT
    Users,
    Delegations,    \* what users have signed, with the signer
    NoDelegation,   \* an empty entry of _delegations
    Targets,        \* (target, selector) pairs
    Values,         \* the coins a call sends
    MaxTime         \* bound: time

ASSUME RegistryAssumption ==
    /\ Delegations \subseteq
           [agentTokenId : Agents, delegate : Users, perTxCap : Nat, windowCap : Nat,
            windowSeconds : Nat, expiresAt : Nat, allowed : SUBSET Targets, nonce : Nat,
            signer : Users]
    /\ NoDelegation \notin Delegations
    /\ Values \subseteq Nat /\ MaxTime \in Nat

VARIABLES
    now,            \* block.timestamp
    ownerOf,        \* nft.ownerOf
    delegation,     \* _delegations
    usedNonces,
    spent, windowId, \* windows
    paused,
    ended,          \* history: delegations that were in force and are no more
    sent            \* history: what the delegation in force has sent in the running window

window == <<spent, windowId>>
vars == <<now, ownerOf, delegation, usedNonces, window, paused, ended, sent>>

TypeOK ==
    /\ now \in 0..MaxTime
    /\ ownerOf \in [Agents -> Users]
    /\ delegation \in [Agents -> Delegations \union {NoDelegation}]
    /\ usedNonces \in [Agents -> SUBSET Nat]
    /\ spent \in [Agents -> Nat] /\ windowId \in [Agents -> Nat]
    /\ paused \in BOOLEAN
    /\ ended \subseteq Delegations
    /\ sent \in [Agents -> Nat]

Init ==
    /\ now = 0
    /\ ownerOf \in [Agents -> Users]
    /\ delegation = [a \in Agents |-> NoDelegation]
    /\ usedNonces = [a \in Agents |-> {}]
    /\ spent = [a \in Agents |-> 0] /\ windowId = [a \in Agents |-> 0]
    /\ paused = FALSE
    /\ ended = {} /\ sent = [a \in Agents |-> 0]

InForce(a) == delegation[a] # NoDelegation
Windowed(d) == d.windowSeconds # 0
WindowAt(d, time) == time \div d.windowSeconds

Ends(a) == ended' = IF InForce(a) THEN ended \union {delegation[a]} ELSE ended

\* Mutant: the nonce is left unused.
KeepNonce(a, n) == usedNonces' = usedNonces
UseNonce(a, n) == usedNonces' = [usedNonces EXCEPT ![a] = @ \union {n}]

\* Anybody brings a delegation the present owner has signed, whenever that was.
InstallDelegation(d) ==
    LET a == d.agentTokenId
    IN  /\ d.allowed # {}
        /\ (d.windowCap = 0) <=> (d.windowSeconds = 0)
        /\ d.nonce \notin usedNonces[a]
        /\ d.expiresAt > now
        /\ d.signer = ownerOf[a]
        /\ UseNonce(a, d.nonce)
        /\ delegation' = [delegation EXCEPT ![a] = d]
        /\ Ends(a) /\ sent' = [sent EXCEPT ![a] = 0]
        /\ UNCHANGED <<now, ownerOf, window, paused>>

\* The present owner's call.
RevokeDelegation(a) ==
    /\ delegation' = [delegation EXCEPT ![a] = NoDelegation]
    /\ Ends(a) /\ sent' = [sent EXCEPT ![a] = 0]
    /\ UNCHANGED <<now, ownerOf, usedNonces, window, paused>>

\* What the window has spent already, nothing if it is another window's count.
SpentInWindow(a, d) == IF windowId[a] = WindowAt(d, now) THEN spent[a] ELSE 0
\* Mutant: a call is charged alone.
NothingSpent(a, d) == 0
AlreadySpent(a, d) == SpentInWindow(a, d)

Debit(a, d, value) ==
    /\ AlreadySpent(a, d) + value <= d.windowCap
    /\ spent' = [spent EXCEPT ![a] = AlreadySpent(a, d) + value]
    /\ windowId' = [windowId EXCEPT ![a] = WindowAt(d, now)]

\* The delegate's call, with its own coins.
DelegatedExecute(a, target, value) ==
    LET d == delegation[a]
    IN  /\ ~paused
        /\ InForce(a) /\ now <= d.expiresAt
        /\ value <= d.perTxCap /\ target \in d.allowed
        /\ IF Windowed(d) THEN Debit(a, d, value) ELSE UNCHANGED window
        /\ sent' = [sent EXCEPT ![a] = IF Windowed(d) THEN @ + value ELSE @]
        /\ UNCHANGED <<now, ownerOf, delegation, usedNonces, paused, ended>>

\* The agent is sold: the registry hears nothing of it.
Transfer(a, to) ==
    /\ ownerOf' = [ownerOf EXCEPT ![a] = to]
    /\ UNCHANGED <<now, delegation, usedNonces, window, paused, ended, sent>>

SetPaused ==
    /\ paused' = ~paused
    /\ UNCHANGED <<now, ownerOf, delegation, usedNonces, window, ended, sent>>

\* A second passes; what was sent counts for the window it was sent in.
SamePeriod(a) ==
    InForce(a) /\ Windowed(delegation[a])
        => WindowAt(delegation[a], now + 1) = WindowAt(delegation[a], now)
Tick ==
    /\ now < MaxTime /\ now' = now + 1
    /\ sent' = [a \in Agents |-> IF SamePeriod(a) THEN sent[a] ELSE 0]
    /\ UNCHANGED <<ownerOf, delegation, usedNonces, window, paused, ended>>

Next ==
    \/ \E d \in Delegations : InstallDelegation(d)
    \/ \E a \in Agents : RevokeDelegation(a)
    \/ \E a \in Agents, target \in Targets, value \in Values :
           DelegatedExecute(a, target, value)
    \/ \E a \in Agents, to \in Users : Transfer(a, to)
    \/ SetPaused \/ Tick

Spec == Init /\ [][Next]_vars

(***************************************************************************)
(* Properties                                                              *)
(***************************************************************************)

\* What an owner revoked or replaced never comes into force again, though anybody
\* still has its signature and may install it, also after the agent was sold and
\* bought back.
EndedStaysEnded == \A a \in Agents : InForce(a) => delegation[a] \notin ended

\* A delegation never sends more in a window than its owner signed, whatever other
\* delegations, with windows of other lengths, were in force before it in the window.
WindowHonoured ==
    \A a \in Agents :
        InForce(a) /\ Windowed(delegation[a]) => sent[a] <= delegation[a].windowCap
=============================================================================
