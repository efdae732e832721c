----------------------------- MODULE ChatHistory -----------------------------
(***************************************************************************)
(* Chat turns and their transcripts (routers/chat.ts): a turn streams the  *)
(* provider's answer, and when the stream is over its transcript is        *)
(* uploaded and an event with its root appended to the event store, from   *)
(* which the history of a wallet is read.                                  *)
(***************************************************************************)
EXTENDS OracleCustody

CONSTANTS
    Wallets,
    TurnBlobs,      \* roots that transcripts get
    HistoryLimit,   \* events a history request reads
    StoreLimit      \* DEFAULT_EVENT_LIMIT

ASSUME ChatAssumption ==
    /\ TurnBlobs \subseteq Blobs /\ None \notin Wallets
    /\ HistoryLimit \in Nat \ {0} /\ StoreLimit \in Nat \ {0}

VARIABLES
    turn,           \* the chat turn a job runs
    history,        \* the roots a job's history request has still to download
    transcripts     \* the chat::transcript bucket of the event store, oldest first

chatVars == <<turn, history, transcripts>>

NoTurn == [pc |-> "none", wallet |-> None]
Transcript == [wallet : Wallets, root : TurnBlobs]

ChatTypeOK ==
    /\ turn \in [Jobs -> [pc : {"none", "stream", "upload"}, wallet : Wallets \union {None}]]
    /\ history \in [Jobs -> Seq(TurnBlobs)]
    /\ transcripts \in Seq(Transcript) /\ Len(transcripts) <= StoreLimit

StartTurn(j, wallet) ==
    /\ turn[j].pc = "none"
    /\ turn' = [turn EXCEPT ![j] = [pc |-> "stream", wallet |-> wallet]]
    /\ UNCHANGED <<history, transcripts>>

\* The provider refuses, fails or is aborted by an error: an error frame or status
\* is the answer, and there is no transcript.
StreamFails(j) ==
    /\ turn[j].pc = "stream"
    /\ turn' = [turn EXCEPT ![j] = NoTurn]
    /\ UNCHANGED <<history, transcripts>>

\* The stream is over and the response with it: persistChatTranscript begins.
StreamEnds(j) ==
    /\ turn[j].pc = "stream"
    /\ turn' = [turn EXCEPT ![j].pc = "upload"]
    /\ UNCHANGED <<history, transcripts>>

\* The upload ends in its own time, so transcripts get in line as they are uploaded,
\* not as they were said; a full bucket forgets its oldest.
PersistTranscript(j, root) ==
    /\ turn[j].pc = "upload"
    /\ \A i \in DOMAIN transcripts : transcripts[i].root # root
    /\ transcripts' =
         Append(IF Len(transcripts) >= StoreLimit THEN Tail(transcripts) ELSE transcripts,
                [wallet |-> turn[j].wallet, root |-> root])
    /\ turn' = [turn EXCEPT ![j] = NoTurn]
    /\ UNCHANGED history

\* A failed upload is logged.
PersistFails(j) ==
    /\ turn[j].pc = "upload"
    /\ turn' = [turn EXCEPT ![j] = NoTurn]
    /\ UNCHANGED <<history, transcripts>>

(***************************************************************************)
(* GET /v1/chat/history, for a wallet whose proof is good: the store's     *)
(* first HistoryLimit transcripts, of them the wallet's, each downloaded.  *)
(***************************************************************************)
GetAll(limit) == SubSeq(transcripts, 1, IF Len(transcripts) < limit
                                        THEN Len(transcripts) ELSE limit)

HistoryOf(wallet) ==
    LET shown == GetAll(HistoryLimit)
        own[i \in 0..Len(shown)] ==
            IF i = 0 THEN << >>
            ELSE IF shown[i].wallet = wallet THEN Append(own[i - 1], shown[i].root)
            ELSE own[i - 1]
    IN  own[Len(shown)]

RequestHistory(j, wallet) ==
    /\ history[j] = << >> /\ HistoryOf(wallet) # << >>
    /\ history' = [history EXCEPT ![j] = HistoryOf(wallet)]
    /\ UNCHANGED <<turn, transcripts>>

\* The next transcript: from the cache, or a download begins.
NextTranscript(j) ==
    /\ history[j] # << >> /\ loading[j] = None
    /\ Download(j, Head(history[j]))
    /\ history' = [history EXCEPT ![j] = Tail(@)]
    /\ UNCHANGED <<turn, transcripts>>

ChatInit ==
    /\ turn = [j \in Jobs |-> NoTurn]
    /\ history = [j \in Jobs |-> << >>]
    /\ transcripts = << >>

\* The store's file has what was flushed; here, all of it.
ChatRestart ==
    /\ turn' = [j \in Jobs |-> NoTurn]
    /\ history' = [j \in Jobs |-> << >>]
    /\ UNCHANGED transcripts

\* What the code says of a history: every transcript persisted for the wallet is
\* returned.  Reading the store's oldest entries over all wallets, it stops showing
\* new ones once there are more than the limit.
HistoryIsComplete ==
    \A i \in DOMAIN transcripts :
        Contains(HistoryOf(transcripts[i].wallet), transcripts[i].root)
=============================================================================
