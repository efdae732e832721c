------------------------------- MODULE Indexer -------------------------------
(***************************************************************************)
(* The event indexer (indexer/index.ts) over a chain that grows and        *)
(* reorganises, with its checkpoint file and the event store it fills.     *)
(* What lies between two awaits of a poll tick is one action; the chain,   *)
(* the store's other writers and a crash may come in between.              *)
(***************************************************************************)
EXTENDS EventStore

CONSTANTS
    Foreign,        \* events other parts of the process append
    Window,         \* POLL_WINDOW_BLOCKS
    SafeDepth,      \* REORG_SAFE_DEPTH
    StartBlock,     \* INDEXER_START_BLOCK, or 0
    MaxHead, MaxForks, MaxDepth, MaxFailures     \* bounds

ASSUME IndexerAssumption ==
    /\ Foreign \subseteq Logs
    /\ Window \in Nat /\ SafeDepth \in Nat /\ StartBlock \in Nat
    /\ Window > SafeDepth   \* otherwise the cursor would never move
    /\ {MaxHead, MaxForks, MaxDepth, MaxFailures} \subseteq Nat

VARIABLES
    chain,          \* block 1, 2, ...: the fork it was made on and its logs
    fork,           \* how often the chain has reorganised
    nextBlock,      \* the cursor
    lastBlockHash,  \* of block nextBlock - 1; 0 when unknown
    pc,             \* where the poll tick waits
    poll,           \* its local variables
    checkpoint,     \* the checkpoint file; 0 when there is none
    floor,          \* history: the block the cursor last jumped to
    deep,           \* history: "open", "noticed", "missed" or "none", see DeepReorg
    written,        \* history: the last save reached the file
    failures          \* failures of the node, the disk or the process so far

chainVars == <<chain, fork>>
watcherVars == <<nextBlock, lastBlockHash, pc, poll, checkpoint>>
indexerVars == <<storeVars, chainVars, watcherVars, floor, deep, written, failures>>

OnChain == Logs \ Foreign
Hash(n) == chain[n].fork + 1
Head1 == Len(chain)
NoPoll == [latest |-> 0, from |-> 0, to |-> 0]
Least(a, b) == IF a < b THEN a ELSE b
Monus(a, b) == IF a > b THEN a - b ELSE 0

\* A block carries at most one log.
Blocks == [fork : Nat, logs : {{}} \union {{l} : l \in OnChain}]

IndexerTypeOK ==
    /\ StoreTypeOK
    /\ chain \in Seq(Blocks) /\ fork \in Nat
    /\ nextBlock \in Nat /\ lastBlockHash \in Nat /\ checkpoint \in Nat /\ floor \in Nat
    /\ pc \in {"idle", "check", "logs", "flush", "hash", "save"}
    /\ poll \in [latest : Nat, from : Nat, to : Nat]
    /\ failures \in 0..MaxFailures
    /\ deep \in {"none", "open", "noticed", "missed"} /\ written \in BOOLEAN

(***************************************************************************)
(* The chain.  A log is mined only once; a reorganisation replaces the     *)
(* last blocks.                                                            *)
(***************************************************************************)
Mined(blocks) == UNION {blocks[n].logs : n \in DOMAIN blocks}

Block(logs) == [fork |-> fork, logs |-> logs]

MineBlock ==
    /\ Head1 < MaxHead
    /\ \E logs \in {{}} \union {{l} : l \in OnChain \ Mined(chain)} :
          chain' = Append(chain, Block(logs))
    /\ UNCHANGED <<fork, storeVars, watcherVars, floor, deep, written, failures>>

\* A reorganisation below the cursor, or where a tick is about to put it, is one the
\* indexer must find out about.  It can, by the hash it remembers, if it is between two
\* ticks: then the reorganisation is open until the roll-back, and noticed until the next
\* checkpoint.  In all other cases it is missed, and so is one deeper than a roll-back
\* goes, wherever the cursor is: the store keeps an event in the block it was first read
\* from, and a later roll-back would drop it without going back to where it is now.
Settled == IF pc = "flush" THEN Monus(poll.to, SafeDepth) + 1 ELSE nextBlock

DeepReorg(first) ==
    deep' = IF Head1 - first >= 2 * SafeDepth THEN "missed"
            ELSE IF first >= Settled THEN deep
            ELSE IF /\ pc = "idle" /\ lastBlockHash # 0 /\ deep # "missed"
                    /\ first >= Monus(nextBlock - 1, 2 * SafeDepth)
                 THEN "open" ELSE "missed"

Reorg ==
    /\ fork < MaxForks
    /\ \E depth \in 1..Least(MaxDepth, Head1) :
         LET first == Head1 - depth + 1
             kept  == SubSeq(chain, 1, first - 1)
             free  == OnChain \ Mined(kept)
         IN  /\ \E l \in {{}} \union {{x} : x \in free} : \E n \in first..Head1 :
                   chain' = kept \o [i \in 1..depth |->
                       [fork |-> fork + 1, logs |-> IF first + i - 1 = n THEN l ELSE {}]]
             /\ fork' = fork + 1
             /\ DeepReorg(first)
    /\ UNCHANGED <<storeVars, watcherVars, floor, written, failures>>

Failure == failures < MaxFailures /\ failures' = failures + 1

(***************************************************************************)
(* pollTick.  Awaits: the head; the block below the cursor, if its hash is *)
(* known; the logs; the flush; the block the new cursor follows; the       *)
(* checkpoint file.                                                        *)
(***************************************************************************)
ReadHead ==
    /\ pc = "idle"
    /\ poll' = [NoPoll EXCEPT !.latest = Head1]
    /\ pc' = "check"
    /\ UNCHANGED <<storeVars, chainVars, nextBlock, lastBlockHash, checkpoint,
                   floor, deep, written, failures>>

RollbackTarget(checkBlock) == Monus(checkBlock, 2 * SafeDepth)

\* The hash that is remembered is of another block than the chain now has there.
HashDiffers ==
    /\ lastBlockHash # 0 /\ nextBlock > 1
    /\ nextBlock - 1 <= Head1
    /\ Hash(nextBlock - 1) # lastBlockHash

\* The range to read from cursor c on: the cursor is clamped to the head.
Range1(c) ==
    LET from == Least(c, poll.latest)
    IN  [poll EXCEPT !.from = from, !.to = Least(from + Window - 1, poll.latest)]

\* A cursor of 0 stands for a lost checkpoint (a roll-back to block 0 looks the
\* same): the indexer jumps to the last window and stores a system.resync event.
ScanFrom(c, store) ==
    LET jump == Monus(poll.latest, Window)
    IN  IF c = 0
        THEN /\ nextBlock' = jump /\ poll' = Range1(jump) /\ floor' = jump
             /\ PutDebounced(Append1(store, [key |-> Resync, blockNumber |-> jump]))
        ELSE /\ nextBlock' = c /\ poll' = Range1(c) /\ floor' = floor
             /\ PutDebounced(store)

\* The remembered hash is unknown, or right, or its block is gone; or, a fault,
\* the block cannot be read, which counts as right.
HashPasses ==
    /\ pc = "check"
    /\ \/ ~HashDiffers /\ UNCHANGED <<deep, failures>>
       \/ /\ HashDiffers /\ Failure
          /\ deep' = IF deep = "open" THEN "missed" ELSE deep
    /\ ScanFrom(nextBlock, Stored)
    /\ pc' = "logs"
    /\ UNCHANGED <<chainVars, lastBlockHash, checkpoint, written>>

\* The cursor goes back, and the store drops what it read at or above the block
\* that differs.
HashFails ==
    /\ pc = "check"
    /\ HashDiffers
    /\ LET checkBlock == nextBlock - 1
       IN  ScanFrom(RollbackTarget(checkBlock), RollbackToBlock(Stored, checkBlock))
    /\ lastBlockHash' = 0
    /\ deep' = IF deep = "open" THEN "noticed" ELSE deep
    /\ pc' = "logs"
    /\ UNCHANGED <<chainVars, checkpoint, written, failures>>

\* What decodeAxiomLog makes of a log.  A log that does not decode (a dead letter,
\* counted and left) or that nobody watches is not a member of Logs.
Decode(l, n) == [key |-> l, blockNumber |-> n]

\* The logs of these blocks, delivered one by one in chain order, but for one of a block.
Deliver(from, to, lost) ==
    LET store[n \in 0..to] ==
            IF n = 0 THEN Stored
            ELSE IF n < from \/ n = lost \/ chain[n].logs = {} THEN store[n - 1]
            ELSE Append1(store[n - 1], Decode(CHOOSE l \in chain[n].logs : TRUE, n))
    IN  store[to]

\* The logs arrive and are delivered, and the flush begins.
PollLogs ==
    /\ pc = "logs"
    /\ Put(Deliver(poll.from, poll.to, 0))
    /\ Flush
    /\ pc' = "flush"
    /\ UNCHANGED <<chainVars, nextBlock, lastBlockHash, poll, checkpoint, floor, deep,
                   written, failures>>

\* One delivery fails.  The others are made, but the tick ends there, and its
\* window is read again.
DeliveryFails ==
    /\ pc = "logs"
    /\ Failure
    /\ \E lost \in poll.from..poll.to :
          /\ lost > 0 /\ chain[lost].logs # {}
          /\ PutDebounced(Deliver(poll.from, poll.to, lost))
    /\ pc' = "idle" /\ poll' = NoPoll
    /\ UNCHANGED <<chainVars, nextBlock, lastBlockHash, checkpoint, floor, deep, written>>

\* The node does not answer: the tick is over, to be retried after a pause.
PollFails ==
    /\ pc \in {"idle", "logs"}
    /\ Failure
    /\ pc' = "idle" /\ poll' = NoPoll
    /\ UNCHANGED <<storeVars, chainVars, nextBlock, lastBlockHash, checkpoint,
                   floor, deep, written>>

\* Mutant: the cursor stays on the last block it may count as read.
AdvanceShort ==
    /\ pc = "flush" /\ flushing = 0
    /\ nextBlock' = Monus(poll.to, SafeDepth)
    /\ pc' = "hash"
    /\ UNCHANGED <<storeVars, chainVars, lastBlockHash, poll, checkpoint,
                   floor, deep, written, failures>>

\* Once the flush has resolved the cursor moves to what is deep enough.
Advance ==
    /\ pc = "flush" /\ flushing = 0
    /\ nextBlock' = Monus(poll.to, SafeDepth) + 1
    /\ pc' = "hash"
    /\ UNCHANGED <<storeVars, chainVars, lastBlockHash, poll, checkpoint,
                   floor, deep, written, failures>>

\* The hash of the block below the cursor; unknown if it cannot be read.
ReadHash ==
    /\ pc = "hash"
    /\ LET safeBlock == nextBlock - 1
       IN  \/ /\ lastBlockHash' = IF safeBlock \in DOMAIN chain THEN Hash(safeBlock) ELSE 0
             /\ UNCHANGED failures
          \/ /\ lastBlockHash' = 0
             /\ Failure
    /\ pc' = "save"
    /\ UNCHANGED <<storeVars, chainVars, nextBlock, poll, checkpoint, floor, deep, written>>

\* saveCheckpoint: an error is logged, and the tick goes on.
SaveCheckpoint ==
    /\ pc = "save"
    /\ \/ /\ checkpoint' = nextBlock
          /\ deep' = IF deep = "noticed" THEN "none" ELSE deep
          /\ UNCHANGED failures
       \/ Failure /\ UNCHANGED <<checkpoint, deep>>
    /\ pc' = "idle" /\ poll' = NoPoll
    /\ UNCHANGED <<storeVars, chainVars, nextBlock, lastBlockHash, floor, written>>

(***************************************************************************)
(* The rest of the process: another writer of the store, the saves, and    *)
(* a crash, after which the file and the checkpoint are all there is.      *)
(***************************************************************************)
AppendForeign(l) ==
    /\ l \notin seenKeys
    /\ PutDebounced(Append1(Stored, [key |-> l, blockNumber |-> 0]))
    /\ UNCHANGED <<chainVars, watcherVars, floor, deep, written, failures>>

Timer == PersistDebounced /\ UNCHANGED <<chainVars, watcherVars, floor, deep, written, failures>>

Save ==
    /\ \/ SaveBuckets /\ UNCHANGED <<written, failures>>
       \/ WriteFile(FALSE) /\ written' = TRUE /\ UNCHANGED failures
       \/ WriteFile(TRUE) /\ written' = FALSE /\ Failure
    /\ UNCHANGED <<chainVars, watcherVars, floor, deep>>

Recover(saved) ==
    /\ Load
    /\ nextBlock' = IF saved # 0 THEN saved ELSE StartBlock
    /\ checkpoint' = saved
    /\ lastBlockHash' = 0
    /\ pc' = "idle" /\ poll' = NoPoll
    /\ deep' = IF deep = "none" /\ written THEN "none" ELSE "missed"
    /\ written' = TRUE
    /\ floor' = IF saved # 0 THEN floor ELSE StartBlock
    /\ UNCHANGED chainVars

\* The process dies at any moment; the checkpoint file may be unreadable then.
Crash ==
    /\ Failure
    /\ \E saved \in {checkpoint, 0} : Recover(saved)

IndexerInit ==
    /\ StoreInit
    /\ chain = << >> /\ fork = 0
    /\ nextBlock = StartBlock /\ lastBlockHash = 0
    /\ pc = "idle" /\ poll = NoPoll /\ checkpoint = 0
    /\ floor = StartBlock /\ deep = "none" /\ written = TRUE
    /\ failures = 0

Poll ==
    \/ ReadHead \/ HashPasses \/ HashFails \/ PollLogs \/ Advance \/ ReadHash
    \/ SaveCheckpoint

IndexerNext ==
    \/ MineBlock \/ Reorg \/ Poll \/ DeliveryFails \/ PollFails
    \/ (\E l \in Foreign : AppendForeign(l)) \/ Timer \/ Save \/ Crash

IndexerSpec == IndexerInit /\ [][IndexerNext]_indexerVars

\* The poll loop re-arms itself after every tick, failed ones included, and a save
\* that was queued runs.
FairIndexerSpec == IndexerSpec /\ WF_indexerVars(Poll) /\ WF_indexerVars(Save)

(***************************************************************************)
(* What the indexer promises.                                              *)
(***************************************************************************)

InStore(l) == l \in seenKeys \union pushedOut

\* Every event of the chain below the cursor, from where the cursor last jumped to, is in
\* the store, or newer ones of its kind pushed it out: through windows that are read
\* again, shallow reorganisations in the middle of a tick, deep ones that the hash gives
\* away, failed deliveries, and restarts from the checkpoint, whose cursor must never be
\* ahead of the file.  What the code cannot notice is "missed": a deep reorganisation
\* while the hash is unknown, and a crash after a save failed.
NoGap ==
    deep \in {"none", "noticed"} =>
        \A n \in DOMAIN chain : floor <= n /\ n < nextBlock =>
            \A l \in chain[n].logs : InStore(l)

\* When the chain has stopped growing, the cursor stops at its safe depth: no
\* window is read for ever, and no reorganisation throws it back for ever.
CursorCatchesUp == <>[](nextBlock = Monus(Head1, SafeDepth) + 1)

OnFile(l) == l \in KeysOf(file) \union pushedOut

\* What the code says of the flush before the checkpoint: a kill can never skip
\* blocks that are not persisted.
KillSkipsNothing ==
    deep = "none" =>
        \A n \in DOMAIN chain : floor <= n /\ n < checkpoint =>
            \A l \in chain[n].logs : OnFile(l)

\* It holds as long as no save has failed, or a later one has not.
CheckpointCovered == written => KillSkipsNothing
=============================================================================
