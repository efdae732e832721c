---------------------------- MODULE Orchestrator ----------------------------
(***************************************************************************)
(* POST /v1/orchestrator/tick (routers/orchestrator.ts) and the strategy   *)
(* runner behind it (orchestrator/index.ts), whose transactions share one  *)
(* account with the proof keeper (keepers/index.ts).                       *)
(*                                                                         *)
(* The runner numbers its transactions itself (NonceManager); the keeper   *)
(* asks the node.  What the model says of either is how they are used: a   *)
(* number is taken before the gas is estimated and is never given back,    *)
(* and the node mines an account's transactions in order of their numbers. *)
(***************************************************************************)
EXTENDS Broadcaster, Requests

CONSTANTS
    tickTopic,      \* [Tokens -> Topics]: tick.<id>
    MaxSweeps       \* bound

ASSUME OrchestratorAssumption ==
    /\ tickTopic \in [Tokens -> Topics]
    /\ MaxSweeps \in Nat

VARIABLES
    tick,           \* the tick request a job runs
    inFlightTicks,  \* tokens whose slot is taken
    nextNonce,      \* NonceManager's next number; -1 before it has asked the node
    mined,          \* how many transactions of the account are mined
    pool,           \* numbers of its transactions that are not
    sweep,          \* where the keeper's sweep waits
    sweepNonce,
    sweeps          \* sweeps started so far

accountVars == <<mined, pool>>
sweepVars == <<sweep, sweepNonce, sweeps>>
tickVars == <<tick, inFlightTicks, nextNonce>>
orchestratorVars == <<tickVars, accountVars, sweepVars>>

NoTick == [pc |-> "none", token |-> None, stream |-> FALSE, nonce |-> 0]

TickTypeOK ==
    /\ tick \in [Jobs -> [pc : {"none", "root", "infer", "settle", "send", "receipt"},
                          token : Tokens \union {None}, stream : BOOLEAN, nonce : Nat]]
    /\ inFlightTicks \subseteq Tokens
    /\ nextNonce \in Nat \union {-1} /\ mined \in Nat
    /\ \A n \in pool : n \in Nat /\ n >= mined
    /\ sweep \in {"idle", "derive", "gas", "send"} /\ sweepNonce \in Nat
    /\ sweeps \in 0..MaxSweeps

(***************************************************************************)
(* The account, external: the node's pending count, and how it takes a     *)
(* transaction.                                                            *)
(***************************************************************************)
Pending ==
    CHOOSE n \in mined..(mined + Cardinality(pool)) :
        n \notin pool /\ \A k \in mined..(n - 1) : k \in pool

\* A number that is mined, or that another transaction waits with, is refused.
Refuses(nonce) == nonce < mined \/ nonce \in pool

Mine ==
    /\ mined \in pool
    /\ mined' = mined + 1
    /\ pool' = pool \ {mined}
    /\ UNCHANGED <<tickVars, sweepVars, hubVars>>

\* Nothing of the account can be mined: numbers wait behind one nobody has.
Gap ==
    /\ \E n \in pool : n > Pending
    /\ \A j \in Jobs : tick[j].pc = "send" => tick[j].nonce # Pending

(***************************************************************************)
(* The request.                                                            *)
(***************************************************************************)
Running(j) == tick[j].pc \notin {"none", "root"}

\* First await: the token's data root.
RequestTick(j, token, stream) ==
    /\ tick[j].pc = "none"
    /\ tick' = [tick EXCEPT ![j] = [NoTick EXCEPT !.pc = "root", !.token = token,
                                                  !.stream = stream]]
    /\ UNCHANGED <<inFlightTicks, nextNonce, accountVars, sweepVars, hubVars>>

\* 403: a client key with a plan, or a test source that is not allowed; 503: no
\* runner; 409: the token's slot is taken.
RefuseTick(j) ==
    /\ tick[j].pc = "root"
    /\ tick' = [tick EXCEPT ![j] = NoTick]
    /\ UNCHANGED <<inFlightTicks, nextNonce, accountVars, sweepVars, hubVars>>

\* Mutant: the slot stays taken.
KeepSlot(slots, token) == slots

ReleaseTickSlot(slots, token) == slots \ {token}

\* Nobody listens to the stream: the slot is taken and given back.
NoSubscriber(j) ==
    /\ tick[j].pc = "root" /\ tick[j].stream
    /\ tick[j].token \notin inFlightTicks
    /\ ~HasSubscribers(tickTopic[tick[j].token])
    /\ inFlightTicks' =
         ReleaseTickSlot(inFlightTicks \union {tick[j].token}, tick[j].token)
    /\ tick' = [tick EXCEPT ![j] = NoTick]
    /\ UNCHANGED <<nextNonce, accountVars, sweepVars, hubVars>>

TryAcquireTickSlot(token) == token \notin inFlightTicks

\* The slot is taken and runTick starts.  A streaming request is answered at once.
StartTick(j) ==
    /\ tick[j].pc = "root"
    /\ TryAcquireTickSlot(tick[j].token)
    /\ tick[j].stream => HasSubscribers(tickTopic[tick[j].token])
    /\ inFlightTicks' = inFlightTicks \union {tick[j].token}
    /\ tick' = [tick EXCEPT ![j].pc = "infer"]
    /\ UNCHANGED <<nextNonce, accountVars, sweepVars, hubVars>>

\* A token of the model's answer goes to the stream; sockets may break on it, and
\* the other subscribers are served.
StreamToken(j) ==
    /\ tick[j].pc = "infer" /\ tick[j].stream
    /\ \E broken \in SUBSET Recipients(tickTopic[tick[j].token]) :
          broken # {} /\ SendToTopic(tickTopic[tick[j].token], broken)
    /\ UNCHANGED orchestratorVars

\* The run is over, with a result or an error: who has had no answer gets it, the
\* topic hears of it, and the slot is free.
Settle(j) ==
    /\ tick' = [tick EXCEPT ![j] = NoTick]
    /\ inFlightTicks' = ReleaseTickSlot(inFlightTicks, tick[j].token)
    /\ SendToTopic(tickTopic[tick[j].token], {})

\* Inference ends, if the download of the agent's data does, which has no timeout:
\* it fails, or says hold, and the tick is over; or it says act.
InferHold(j) ==
    /\ tick[j].pc = "infer"
    /\ Settle(j)
    /\ UNCHANGED <<nextNonce, accountVars, sweepVars>>

InferAct(j) ==
    /\ tick[j].pc = "infer"
    /\ tick' = [tick EXCEPT ![j].pc = "settle"]
    /\ UNCHANGED <<inFlightTicks, nextNonce, accountVars, sweepVars, hubVars>>

\* settleOnChain, once the strategy has been read.  It skips: no plan, no root, the
\* strategy has expired, the day's limit is used up; or the read fails.
SkipSettlement(j) ==
    /\ tick[j].pc = "settle"
    /\ Settle(j)
    /\ UNCHANGED <<nextNonce, accountVars, sweepVars>>

\* There is a plan, and the strategy allows it: the vault's execute gets its number.
TakeNonce(j) ==
    /\ tick[j].pc = "settle"
    /\ LET n == IF nextNonce = -1 THEN Pending ELSE nextNonce
       IN  /\ nextNonce' = n + 1
           /\ tick' = [tick EXCEPT ![j].pc = "send", ![j].nonce = n]
    /\ UNCHANGED <<inFlightTicks, accountVars, sweepVars, hubVars>>

\* The estimate reverts, the node cannot be asked or refuses the number: the tick
\* fails, and its number is not used.
SendFails(j) ==
    /\ tick[j].pc = "send"
    /\ Settle(j)
    /\ UNCHANGED <<nextNonce, accountVars, sweepVars>>

\* Broadcast: the request is answered "pending", and the receipt is waited for.
Broadcast(j) ==
    /\ tick[j].pc = "send" /\ ~Refuses(tick[j].nonce)
    /\ pool' = pool \union {tick[j].nonce}
    /\ tick' = [tick EXCEPT ![j].pc = "receipt"]
    /\ UNCHANGED <<inFlightTicks, nextNonce, mined, sweepVars, hubVars>>

\* A fault: the node took it, but its answer is lost, and the tick counts as failed.
BroadcastLost(j) ==
    /\ tick[j].pc = "send" /\ ~Refuses(tick[j].nonce)
    /\ pool' = pool \union {tick[j].nonce}
    /\ Settle(j)
    /\ UNCHANGED <<nextNonce, mined, sweepVars>>

\* Mutant: the receipt is awaited with a confirmation more than there will be.
ConfirmedTwice(nonce) == nonce + 1 < mined

Confirmed(nonce) == nonce < mined

\* tx.wait returns, or throws because the transaction reverted.
Receipt(j) ==
    /\ tick[j].pc = "receipt" /\ Confirmed(tick[j].nonce)
    /\ Settle(j)
    /\ UNCHANGED <<nextNonce, accountVars, sweepVars>>

(***************************************************************************)
(* The keeper: on its interval it sweeps the expired proofs it knows of.   *)
(* sweepOnce never throws, and does not wait for its transaction.          *)
(***************************************************************************)
StartSweep ==
    /\ sweep = "idle" /\ sweeps < MaxSweeps
    /\ sweep' = "derive" /\ sweeps' = sweeps + 1
    /\ UNCHANGED <<sweepNonce, tickVars, accountVars, hubVars>>

\* Candidates from the logs or the operator's list; or there are none.
DeriveCandidates ==
    /\ sweep = "derive"
    /\ sweep' \in {"idle", "gas"}
    /\ UNCHANGED <<sweepNonce, sweeps, tickVars, accountVars, hubVars>>

\* Gas is above the cap: the sweep is skipped.  Otherwise the wallet asks the node
\* for the number.
GasPrice ==
    /\ sweep = "gas"
    /\ \/ sweep' = "idle" /\ UNCHANGED sweepNonce
       \/ sweep' = "send" /\ sweepNonce' = Pending
    /\ UNCHANGED <<sweeps, tickVars, accountVars, hubVars>>

CleanExpiredProofs ==
    /\ sweep = "send"
    /\ sweep' = "idle" /\ sweepNonce' = 0
    /\ \/ ~Refuses(sweepNonce) /\ pool' = pool \union {sweepNonce}
       \/ UNCHANGED pool
    /\ UNCHANGED <<sweeps, tickVars, mined, hubVars>>

OrchestratorInit ==
    /\ tick = [j \in Jobs |-> NoTick]
    /\ inFlightTicks = {} /\ nextNonce = -1
    /\ mined = 0 /\ pool = {}
    /\ sweep = "idle" /\ sweepNonce = 0 /\ sweeps = 0

\* A new process: whatever ran is gone; the account is what it was.
OrchestratorRestart ==
    /\ tick' = [j \in Jobs |-> NoTick]
    /\ inFlightTicks' = {} /\ nextNonce' = -1
    /\ sweep' = "idle" /\ sweepNonce' = 0
    /\ UNCHANGED <<accountVars, sweeps>>

TickStep(j) ==
    \/ RefuseTick(j) \/ NoSubscriber(j) \/ StartTick(j)
    \/ InferHold(j) \/ InferAct(j) \/ SkipSettlement(j) \/ TakeNonce(j)
    \/ SendFails(j) \/ Broadcast(j) \/ Receipt(j)

KeeperStep == DeriveCandidates \/ GasPrice \/ CleanExpiredProofs

(***************************************************************************)
(* What the slots promise.                                                 *)
(***************************************************************************)

\* A token's slot is taken exactly while one tick of that token runs, and never two
\* of them: through every way out of the handler, the streaming one that nobody
\* listens to included.  A slot that is not given back refuses the token for good; one
\* given back early lets two settlements of a token race.
SlotIsRun ==
    /\ inFlightTicks = {tick[j].token : j \in {k \in Jobs : Running(k)}}
    /\ \A j, k \in Jobs : Running(j) /\ Running(k) /\ tick[j].token = tick[k].token => j = k

\* A tick that has got past its inference comes to an end and frees its slot; unless
\* a number of the account has been taken and not used, behind which its transaction,
\* for which there is no timeout, waits until somebody else fills the gap.
Settling(j) == tick[j].pc \in {"settle", "send", "receipt"}
TickSettles == \A j \in Jobs : Settling(j) ~> (~Running(j) \/ Gap)
=============================================================================
