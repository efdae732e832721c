----------------------------- MODULE RelayerQueue -----------------------------
(***************************************************************************)
(* The sponsored-op pipeline of the backend: the route that admits a       *)
(* signed request, the in-memory queue, the worker and reconcile timers,   *)
(* and the first-relay faucet, over the sequential nonces of the gas tank. *)
(*                                                                         *)
(* Node runs one callback at a time: what lies between two awaits is one   *)
(* step.  The route awaits the simulation before it enqueues, so an op is  *)
(* enqueued with a nonce that was current at some earlier moment: any      *)
(* nonce up to the present one.  The broadcast, the faucet's balance read  *)
(* and its mint are awaits of their own, and their answers come in any     *)
(* order.  A log scan reads the height, awaits the logs of the fixed       *)
(* window below it and matches them with the records there are by then;    *)
(* the timer starts the next one whether or not it is back.  A failed scan *)
(* is a step that does not happen: the timer runs it again.                *)
(***************************************************************************)
EXTENDS Integers, Sequences, FiniteSets

CONSTANTS
    Wallets,
    MaxInflight,    \* AXIOM_RELAYER_SPONSOR_MAX_INFLIGHT_PER_USER
    BatchMax,       \* AXIOM_RELAYER_BATCH_MAX
    MaxRecords,     \* bound: records ever enqueued
    MaxRelays,       \* bound: relays per user on chain
    MaxCalls,       \* bound: faucet calls of a user waiting for the balance
    MaxScans,       \* bound: log scans under way with different windows
    MaxRestarts     \* bound: process restarts

ASSUME RelayerAssumption ==
    /\ MaxInflight \in Nat \ {0} /\ BatchMax \in Nat \ {0}
    /\ MaxRecords \in Nat /\ MaxRelays \in Nat /\ MaxCalls \in Nat
    /\ MaxScans \in Nat /\ MaxRestarts \in Nat

VARIABLES
    records,    \* the queue's records, in insertion order
    fauceted,   \* Faucet.fauceted
    gating,     \* faucet calls of each user that await balanceOf
    chainNonce, \* AxiomGasTank.nonces
    relayed,    \* (user, nonce) pairs of the Relayed logs
    recent,     \* those of the last logLookbackBlocks blocks
    scans,      \* the logs in the window of each scan under way
    nextId,     \* seq of nextId()
    restarts

chain == <<chainNonce, relayed, recent>>
faucet == <<fauceted, gating>>
queueVars == <<records, faucet, chain, scans, nextId, restarts>>

Statuses == {"queued", "submitted", "confirmed", "dead-lettered"}

\* call: the broadcast or the mint is open until it fails or, a mint, is sent.
Records == [id: Nat, user: Wallets, nonce: Nat, kind: {"relay", "faucet"},
            status: Statuses, call: {"open", "sent", "over"}]

QueueTypeOK ==
    /\ records \in Seq(Records)
    /\ fauceted \in SUBSET Wallets
    /\ gating \in [Wallets -> 0..MaxCalls]
    /\ chainNonce \in [Wallets -> Nat]
    /\ relayed \in SUBSET (Wallets \X Nat)
    /\ recent \in SUBSET relayed
    /\ scans \in SUBSET (SUBSET relayed)
    /\ nextId \in Nat
    /\ restarts \in 0..MaxRestarts

QueueInit ==
    /\ records = <<>>
    /\ fauceted = {}
    /\ gating = [u \in Wallets |-> 0]
    /\ chainNonce = [u \in Wallets |-> 0]
    /\ relayed = {} /\ recent = {} /\ scans = {}
    /\ nextId = 0
    /\ restarts = 0

Inflight(r) == r.status \in {"queued", "submitted"}
InflightOf(u) == {i \in DOMAIN records : records[i].user = u /\ Inflight(records[i])}
Key(r) == <<r.user, r.nonce>>

(***************************************************************************)
(* The queue                                                               *)
(***************************************************************************)
\* Mutant of HasRoom: an op that is submitted no longer counts.
HasRoomQueuedOnly(u) ==
    Cardinality({i \in InflightOf(u) : records[i].status = "queued"}) < MaxInflight

HasRoom(u) == Cardinality(InflightOf(u)) < MaxInflight

NewRecord(u, n, kind) ==
    [id |-> nextId, user |-> u, nonce |-> n, kind |-> kind,
     status |-> "queued", call |-> "open"]

Enqueue(u, n, kind) ==
    /\ nextId < MaxRecords
    /\ records' = Append(records, NewRecord(u, n, kind))
    /\ nextId' = nextId + 1

\* markConfirmed and markFailed rewrite the record whatever its status is.
Answered(i, call, status) ==
    records' = [records EXCEPT ![i].call = call, ![i].status = status]

Queued == {i \in DOMAIN records : records[i].status = "queued"}
Batch == {i \in Queued : Cardinality({j \in Queued : j < i}) < BatchMax}

\* The worker timer drains without a submitter: it only marks the oldest
\* queued records as submitted.
WorkerTick ==
    /\ Queued # {}
    /\ records' = [i \in DOMAIN records |->
                     IF i \in Batch
                     THEN [records[i] EXCEPT !.status = "submitted"]
                     ELSE records[i]]
    /\ UNCHANGED <<faucet, chain, scans, nextId, restarts>>

\* Mutant of Submitted: the map also holds records already confirmed.
SubmittedEver(key) ==
    {i \in DOMAIN records : /\ records[i].status \in {"submitted", "confirmed"}
                            /\ Key(records[i]) = key}

\* The submitted record a log of this key is matched with: the map keeps the
\* last one enqueued.
Submitted(key) ==
    {i \in DOMAIN records : records[i].status = "submitted" /\ Key(records[i]) = key}
\* Mutant of Matched: a log is matched on its user alone.
MatchedByUser(window) ==
    {i \in DOMAIN records : /\ records[i].status = "submitted"
                            /\ \E key \in window : key[1] = records[i].user}
Matched(window) ==
    {i \in DOMAIN records :
        \E key \in window : /\ i \in Submitted(key)
                            /\ \A j \in Submitted(key) : j <= i}

\* reconcile() up to its await: the height fixes the blocks, and with them the
\* logs, that the scan will be told of. A window without logs changes nothing.
StartScan ==
    /\ recent # {}
    /\ Cardinality(scans) < MaxScans
    /\ scans' = scans \cup {recent}
    /\ UNCHANGED <<records, faucet, chain, nextId, restarts>>

\* The logs of a window arrive and meet the records that are submitted by now.
Reconcile(window) ==
    /\ window \in scans
    /\ scans' = scans \ {window}
    /\ records' = [i \in DOMAIN records |->
                     IF i \in Matched(window)
                     THEN [records[i] EXCEPT !.status = "confirmed"]
                     ELSE records[i]]
    /\ UNCHANGED <<faucet, chain, nextId, restarts>>

(***************************************************************************)
(* The faucet                                                              *)
(***************************************************************************)
\* dripOnFirstRelay up to its balance read: a remembered user ends here.
FaucetCall(u) ==
    IF u \in fauceted \/ gating[u] = MaxCalls
    THEN UNCHANGED gating
    ELSE gating' = [gating EXCEPT ![u] = @ + 1]

\* The read says the user holds enough.
GateRich(u) ==
    /\ gating[u] > 0
    /\ gating' = [gating EXCEPT ![u] = @ - 1]
    /\ fauceted' = fauceted \cup {u}
    /\ UNCHANGED <<records, chain, scans, nextId, restarts>>

\* The read says the user holds too little, or fails: the drip is enqueued
\* unless the inflight cap of the user rejects it.
GatePoor(u) ==
    /\ gating[u] > 0
    /\ gating' = [gating EXCEPT ![u] = @ - 1]
    /\ IF HasRoom(u)
       THEN /\ Enqueue(u, 0, "faucet")
            /\ fauceted' = fauceted \cup {u}
       ELSE /\ fauceted' = fauceted \ {u}
            /\ UNCHANGED <<records, nextId>>
    /\ UNCHANGED <<chain, scans, restarts>>

\* The mint ends. `sent`: the transfer went out, also when its answer did not
\* come back and the drip counts as failed.
MintEnds(i, sent, ok) ==
    LET u == records[i].user IN
    /\ records[i].kind = "faucet" /\ records[i].call = "open"
    /\ ok => sent
    /\ Answered(i, IF sent THEN "sent" ELSE "over", IF ok THEN "confirmed" ELSE "dead-lettered")
    /\ fauceted' = IF ok THEN fauceted ELSE fauceted \ {u}
    /\ UNCHANGED <<gating, chain, scans, nextId, restarts>>

\* POST /v1/relayer/faucet/:address
Claim(u) ==
    /\ FaucetCall(u)
    /\ UNCHANGED <<records, fauceted, chain, scans, nextId, restarts>>

(***************************************************************************)
(* POST /v1/relayer/sponsor, after signature, deadline, ceiling and rate    *)
(***************************************************************************)
Sponsor(u, n) ==
    /\ n <= chainNonce[u]           \* the simulation passed, maybe a while ago
    /\ HasRoom(u)
    /\ Enqueue(u, n, "relay")
    /\ FaucetCall(u)
    /\ UNCHANGED <<fauceted, chain, scans, restarts>>

\* sendTransaction rejects: the node refused the transaction, or its answer
\* was lost and the tank may relay it, or has done so. That it resolves only
\* fills in txHash: such a record simply never fails.
BroadcastFails(i) ==
    /\ records[i].kind = "relay" /\ records[i].call = "open"
    /\ Answered(i, "over", "dead-lettered")
    /\ UNCHANGED <<faucet, chain, scans, nextId, restarts>>

(***************************************************************************)
(* The chain and the process                                               *)
(***************************************************************************)
\* The tank relays the next nonce of a user: a transaction of this backend,
\* whatever became of its record, or another relayer's, for relay() is
\* permissionless. What it reverts (InvalidNonce, TankExhausted) or the chain
\* drops is a step that does not happen.
Relay(u) ==
    /\ chainNonce[u] <= MaxRelays
    /\ chainNonce' = [chainNonce EXCEPT ![u] = @ + 1]
    /\ relayed' = relayed \cup {<<u, chainNonce[u]>>}
    /\ recent' = recent \cup {<<u, chainNonce[u]>>}
    /\ UNCHANGED <<records, faucet, scans, nextId, restarts>>

\* The chain grows by more than the window: an old relay is out of its reach
\* for good. The relays of a user leave in the order of their nonces.
LogLeaves(key) ==
    /\ \A other \in recent : other[1] = key[1] => key[2] <= other[2]
    /\ recent' = recent \ {key}
    /\ UNCHANGED <<records, faucet, chainNonce, relayed, scans, nextId, restarts>>

Restart ==
    /\ restarts < MaxRestarts
    /\ restarts' = restarts + 1
    /\ records' = <<>>
    /\ fauceted' = {}
    /\ gating' = [u \in Wallets |-> 0]
    /\ scans' = {}
    /\ UNCHANGED <<chain, nextId>>

Scanned == \E window \in scans : Reconcile(window)

QueueNext ==
    \/ \E u \in Wallets : \/ Claim(u) \/ GateRich(u) \/ GatePoor(u)
                        \/ Relay(u)
                        \/ \E n \in 0..MaxRelays : Sponsor(u, n)
    \/ \E i \in DOMAIN records :
          \/ BroadcastFails(i)
          \/ \E sent, ok \in BOOLEAN : MintEnds(i, sent, ok)
    \/ \E key \in recent : LogLeaves(key)
    \/ Scanned
    \/ WorkerTick \/ StartScan \/ Restart

QueueSpec == QueueInit /\ [][QueueNext]_queueVars

\* The two timers fire for as long as the process lives, a log scan that keeps
\* being retried succeeds in the end, and one of those under way is answered. Nothing is assumed
\* of the chain, so a log may leave the window before any scan has seen it.
Fairness ==
    /\ WF_queueVars(WorkerTick)
    /\ WF_queueVars(StartScan)
    /\ WF_queueVars(Scanned)
FairQueueSpec == QueueSpec /\ Fairness

-----------------------------------------------------------------------------
(***************************************************************************)
(* Properties                                                              *)
(***************************************************************************)

\* The cap holds although many requests await their simulation at once and
\* the faucet enqueues for the same user behind their back.
InflightBounded ==
    \A u \in Wallets : Cardinality(InflightOf(u)) <= MaxInflight

\* A sponsored op is only reported confirmed when the tank has relayed that
\* user's nonce: retries, duplicates and restarts never confirm an op ahead
\* of the chain.
ConfirmedWasRelayed ==
    \A i \in DOMAIN records :
        records[i].kind = "relay" /\ records[i].status = "confirmed"
            => Key(records[i]) \in relayed

\* What the faucet says of its permissionless mint: one drip per address per
\* process lifetime, however relays and claims of the address overlap.
DripsOf(u) ==
    {i \in DOMAIN records : /\ records[i].user = u /\ records[i].kind = "faucet"
                            /\ records[i].call = "sent"}
OneDripPerLifetime == \A u \in Wallets : Cardinality(DripsOf(u)) <= 1

\* An op the tank has relayed frees its inflight slot in the end, also when
\* it shares its nonce with a duplicate or with the faucet record, or its log
\* comes between two scans: unless the log leaves the window first.
Occupies(id, of) ==
    \E i \in DOMAIN records : /\ records[i].id = id /\ Inflight(records[i])
                              /\ Key(records[i]) \in of
RelayedFreesSlot ==
    \A id \in 0..(MaxRecords - 1) : Occupies(id, recent) ~> ~Occupies(id, recent)

\* What the comment in the scan's error branch takes for granted, a next pass
\* with a wider window. The window is fixed, so an op whose log has left it
\* keeps its slot until the process restarts.
EveryRelayedFreesSlot ==
    \A id \in 0..(MaxRecords - 1) : Occupies(id, relayed) ~> ~Occupies(id, relayed)
=============================================================================
