----------------------------- MODULE Broadcaster -----------------------------
(***************************************************************************)
(* The WebSocket clients of the backend: the registry and its topic index  *)
(* (ws/broadcaster.ts), the upgrade handler and the heartbeat (server.ts). *)
(*                                                                         *)
(* A client is one connection.  Topics are subscription patterns; a        *)
(* pattern's prefix is what the index is keyed by, and covers says which   *)
(* topics start with a prefix.                                             *)
(***************************************************************************)
EXTENDS Integers, FiniteSets

CONSTANTS
    Clients,        \* connections
    Topics,         \* patterns and topics
    Everything,     \* the topic "*"
    topicsOf,       \* [Clients -> SUBSET Topics]: asked for in the upgrade's query
    prefixOf,       \* [Topics -> prefixes]
    covers,         \* [prefixes -> SUBSET Topics]
    MaxClients,     \* wsMaxClients
    MaxMissed       \* wsMaxMissedPings

ASSUME BroadcasterAssumption ==
    /\ Everything \in Topics
    /\ topicsOf \in [Clients -> SUBSET Topics]
    /\ \A t \in Topics : t \in covers[prefixOf[t]]
    /\ MaxClients \in Nat /\ MaxMissed \in Nat

VARIABLES
    clients,        \* _clients
    topicIndex,     \* _topicIndex; the code has no entry where this one is empty
    socket,         \* readyState: "none", "open", or "closing" before its close event
    missedPings     \* of an open socket; nobody looks at it any more of another

hubVars == <<clients, topicIndex, socket, missedPings>>

IndexKeys == {prefixOf[t] : t \in Topics}
PrefixesOf(c) == {prefixOf[t] : t \in topicsOf[c]}

HubTypeOK ==
    /\ clients \subseteq Clients
    /\ topicIndex \in [IndexKeys -> SUBSET Clients]
    /\ socket \in [Clients -> {"none", "open", "closing"}]
    /\ missedPings \in [Clients -> 0..MaxMissed]

IndexAdd(index, c) ==
    [p \in IndexKeys |-> IF p \in PrefixesOf(c) THEN index[p] \union {c} ELSE index[p]]

\* Mutant: only the first prefix of the client is cleaned.
IndexRemoveFirst(index, gone) ==
    [p \in IndexKeys |->
        IF p = prefixOf[Everything] THEN index[p] \ gone ELSE index[p]]

IndexRemove(index, gone) == [p \in IndexKeys |-> index[p] \ gone]

Unregister(gone) ==
    /\ clients' = clients \ gone
    /\ topicIndex' = IndexRemove(topicIndex, gone)

\* A socket that cannot be written to, or is silent too long, is terminated and its
\* client is forgotten; its close event comes later.
Terminate(gone) ==
    /\ Unregister(gone)
    /\ socket' = [c \in Clients |-> IF c \in gone THEN "closing" ELSE socket[c]]
    /\ missedPings' = [c \in Clients |-> IF c \in gone THEN 0 ELSE missedPings[c]]

\* Whom sendToTopic and broadcast find: every subscription that is a prefix.
Recipients(topic) ==
    {c \in UNION {topicIndex[p] : p \in {q \in IndexKeys : topic \in covers[q]}} :
        socket[c] = "open"}

\* Sending terminates the recipients whose socket throws.
SendToTopic(topic, broken) ==
    /\ broken \subseteq Recipients(topic)
    /\ Terminate(broken)

\* What the orchestrator asks: the exact topic or "*", not a prefix.
HasSubscribers(topic) ==
    \E c \in clients : topic \in topicsOf[c] \/ Everything \in topicsOf[c]

(***************************************************************************)
(* A client connects, answers a ping, is pinged, and goes.                 *)
(***************************************************************************)
\* One too many is closed before anything is kept of it.
Upgrade(c) ==
    /\ socket[c] = "none"
    /\ Cardinality(clients) < MaxClients
    /\ socket' = [socket EXCEPT ![c] = "open"]
    /\ clients' = clients \union {c}
    /\ topicIndex' = IndexAdd(topicIndex, c)
    /\ UNCHANGED missedPings

Pong(c) ==
    /\ socket[c] = "open" /\ missedPings[c] > 0
    /\ missedPings' = [missedPings EXCEPT ![c] = 0]
    /\ UNCHANGED <<clients, topicIndex, socket>>

\* Mutant: one ping more than allowed.
SilentLate(c) == missedPings[c] > MaxMissed

Silent(c) == missedPings[c] >= MaxMissed

\* Every registered open socket is pinged, or terminated after MaxMissed silent ones.
Heartbeat ==
    LET open   == {c \in clients : socket[c] = "open"}
        silent == {c \in open : Silent(c)}
    IN  /\ open # {}
        /\ Unregister(silent)
        /\ socket' = [c \in Clients |-> IF c \in silent THEN "closing" ELSE socket[c]]
        /\ missedPings' = [c \in Clients |-> IF c \in silent THEN 0
                                              ELSE IF c \in open THEN missedPings[c] + 1
                                              ELSE missedPings[c]]

\* The peer's close frame, or the end of its connection: the socket cannot be
\* written to any more, and its client stays registered until the close event.
PeerCloses(c) ==
    /\ socket[c] = "open"
    /\ socket' = [socket EXCEPT ![c] = "closing"]
    /\ missedPings' = [missedPings EXCEPT ![c] = 0]
    /\ UNCHANGED <<clients, topicIndex>>

\* The error event: unregister now, and once more when the socket is closed.
SocketError(c) ==
    /\ socket[c] # "none"
    /\ Terminate({c})

\* The close event: unregister, for a client that may be gone already.
SocketClose(c) ==
    /\ socket[c] = "closing"
    /\ Unregister({c})
    /\ socket' = [socket EXCEPT ![c] = "none"]
    /\ UNCHANGED missedPings

HubInit ==
    /\ clients = {}
    /\ topicIndex = [p \in IndexKeys |-> {}]
    /\ socket = [c \in Clients |-> "none"]
    /\ missedPings = [c \in Clients |-> 0]

\* A new process: the sockets died with the old one.
HubRestart ==
    /\ clients' = {}
    /\ topicIndex' = [p \in IndexKeys |-> {}]
    /\ socket' = [c \in Clients |-> "none"]
    /\ missedPings' = [c \in Clients |-> 0]

HubNext ==
    \/ Heartbeat
    \/ \E c \in Clients :
          \/ Upgrade(c) \/ Pong(c)
          \/ PeerCloses(c) \/ SocketError(c) \/ SocketClose(c)

\* The index holds a client under exactly its own prefixes, exactly while it is
\* registered, and whoever is registered has a close event still to come: removed by
\* the heartbeat, by a failed send in the middle of a fan-out that goes on to others,
\* by an error, and once more by its own close event, which may come long after the
\* peer has closed, no client stays behind for good, or is missed by a send.
IndexIsClients ==
    /\ \A p \in IndexKeys : topicIndex[p] = {c \in clients : p \in PrefixesOf(c)}
    /\ \A c \in clients : socket[c] # "none"
=============================================================================
