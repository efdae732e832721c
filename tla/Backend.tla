------------------------------- MODULE Backend -------------------------------
(***************************************************************************)
(* The backend process (index.ts, server.ts): one event loop, in which the *)
(* handlers of several requests and the timers interleave at their awaits, *)
(* over the state they share; and its restarts.  A job is a request; it    *)
(* is a tick, a re-key, a key registration, a chat turn or a read of the   *)
(* chat history.                                                           *)
(***************************************************************************)
EXTENDS Orchestrator, ChatHistory

CONSTANTS
    MaxRequests,    \* bound: requests of a run
    MaxFaults       \* bound: lost answers, failed writes, restarts

ASSUME BackendAssumption == MaxRequests \in Nat /\ MaxFaults \in Nat

VARIABLES
    requests, faults,
    load            \* what the clients of this run ask for, see Loads

vars == <<hubVars, orchestratorVars, custodyVars, chatVars, requests, faults, load>>

\* Ticks and sockets share no state with keys, blobs and chats, only the process: a
\* run has one of the two, which keeps their states from multiplying.
Loads == {"ticks", "data"}

TypeOK ==
    /\ HubTypeOK /\ TickTypeOK /\ CustodyTypeOK /\ ChatTypeOK
    /\ requests \in 0..MaxRequests /\ faults \in 0..MaxFaults
    /\ load \in Loads

Fault == faults < MaxFaults /\ faults' = faults + 1 /\ UNCHANGED load
NoFault == UNCHANGED <<faults, load>>

Free(j) ==
    /\ tick[j].pc = "none" /\ IdleRekey(j)
    /\ turn[j].pc = "none" /\ history[j] = << >>

Admit(j) ==
    /\ Free(j)
    /\ requests < MaxRequests /\ requests' = requests + 1
    /\ NoFault

KeepTicks == UNCHANGED <<hubVars, orchestratorVars>>
KeepCustody == UNCHANGED custodyVars
KeepChat == UNCHANGED chatVars

Request(j) ==
    /\ Admit(j)
    /\ \/ /\ load = "ticks"
          /\ \E t \in Tokens : \E stream \in BOOLEAN : RequestTick(j, t, stream)
          /\ KeepCustody /\ KeepChat
       \/ /\ load = "data"
          /\ \E t \in Tokens : RequestMint(j, t) \/ RequestTransfer(j, t)
          /\ KeepTicks /\ KeepChat
       \/ /\ load = "data"
          /\ \E w \in Wallets : StartTurn(j, w) \/ RequestHistory(j, w)
          /\ KeepTicks /\ KeepCustody

\* A step of a request that runs.
Continue(j) ==
    /\ UNCHANGED requests
    /\ \/ TickStep(j) /\ KeepCustody /\ KeepChat /\ NoFault
       \/ CustodyStep(j) /\ KeepTicks /\ KeepChat /\ NoFault
       \/ RegisterKey(j, FALSE) /\ KeepTicks /\ KeepChat /\ NoFault
       \/ (\E seals \in BOOLEAN : UploadRekeyed(j, FALSE, seals))
             /\ KeepTicks /\ KeepChat /\ NoFault
       \/ (StreamFails(j) \/ StreamEnds(j) \/ PersistFails(j)
             \/ \E b \in TurnBlobs : PersistTranscript(j, b))
             /\ KeepTicks /\ KeepCustody /\ NoFault
       \/ NextTranscript(j)
             /\ UNCHANGED <<rekey, vaultVars, uploaded, delivered>> /\ KeepTicks /\ NoFault

\* The same with a fault in it: the node's answer is lost, the vault's file is not
\* written, a stream's socket breaks.
Falter(j) ==
    /\ Fault /\ UNCHANGED requests
    /\ \/ (BroadcastLost(j) \/ StreamToken(j)) /\ KeepCustody /\ KeepChat
       \/ (RegisterKey(j, TRUE) \/ UploadRekeyed(j, TRUE, TRUE)) /\ KeepTicks /\ KeepChat

Sockets ==
    /\ load = "ticks" /\ HubNext
    /\ UNCHANGED <<orchestratorVars, custodyVars, chatVars, requests, faults, load>>

Account == Mine /\ UNCHANGED <<custodyVars, chatVars, requests, faults, load>>

Keeper ==
    /\ load = "ticks" /\ (StartSweep \/ KeeperStep)
    /\ UNCHANGED <<custodyVars, chatVars, requests, faults, load>>

\* The process ends, by a crash or by a signal, which waits for the indexer's and the
\* event store's files but for no request; and it starts again.
Restart ==
    /\ Fault /\ UNCHANGED requests
    /\ HubRestart /\ OrchestratorRestart /\ CustodyRestart /\ ChatRestart

Init ==
    /\ HubInit /\ OrchestratorInit /\ CustodyInit /\ ChatInit
    /\ requests = 0 /\ faults = 0
    /\ load \in Loads

Next ==
    \/ \E j \in Jobs : Request(j) \/ Continue(j) \/ Falter(j)
    \/ Sockets \/ Account \/ Keeper \/ Restart

Spec == Init /\ [][Next]_vars

\* A tick that has an answer of the model gets on: the node answers or times out, and
\* the chain mines what it can. Nothing is assumed of a tick that still waits for its
\* agent's data, whose download has no timeout, or of any other request.
SettlingGoesOn(j) == Settling(j) /\ Continue(j)

FairSpec ==
    /\ Spec
    /\ \A j \in Jobs : WF_vars(SettlingGoesOn(j))
    /\ WF_vars(Account)
=============================================================================
