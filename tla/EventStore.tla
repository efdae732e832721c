----------------------------- MODULE EventStore -----------------------------
(***************************************************************************)
(* The backend's event store (events/store.ts): one bounded list per kind  *)
(* of event, deduplicated by chain, transaction and log index, kept in     *)
(* memory and written to one file by a debounced timer or by a flush.      *)
(*                                                                         *)
(* A log is a member of Logs: its identity is the key the code             *)
(* deduplicates by, and kindOf gives the bucket it belongs to.  A stored   *)
(* event remembers the block it was read from.  Resync is the entry the    *)
(* indexer makes when it jumps ahead; its transaction hash is always null, *)
(* so that all of them share one key.                                      *)
(***************************************************************************)
EXTENDS Integers, Sequences

CONSTANTS
    Logs,       \* what contracts emit
    Kinds,      \* source and name: the bucket an event goes to
    kindOf,     \* [Logs \union {Resync} -> Kinds]
    Resync,     \* the indexer's own system.resync entry
    Cap         \* how many events a bucket keeps (DEFAULT_EVENT_LIMIT)

ASSUME StoreAssumption ==
    /\ Resync \notin Logs
    /\ kindOf \in [Logs \union {Resync} -> Kinds]
    /\ Cap \in Nat \ {0}

VARIABLES
    buckets,    \* what each bucket holds, oldest first
    seenKeys,   \* the keys that append compares a new event with
    pushedOut,  \* history: the keys of events that newer ones pushed out
    file,       \* the buckets in events.json
    debounce,   \* the write timer is armed
    saves,      \* saves that are queued or running
    writing,    \* << >>, or the snapshot that is being written
    flushing    \* how many saves a pending flush still waits for

persistVars == <<file, writing, saves, flushing>>
memoryVars == <<buckets, seenKeys, pushedOut>>
storeVars == <<memoryVars, debounce, persistVars>>

Keys == Logs \union {Resync}
Event == [key : Keys, blockNumber : Nat]

KeysIn(bucket) == {bucket[i].key : i \in DOMAIN bucket}
KeysOf(bs) == UNION {KeysIn(bs[k]) : k \in Kinds}
NoBuckets == [k \in Kinds |-> << >>]

StoreTypeOK ==
    /\ buckets \in [Kinds -> Seq(Event)]
    /\ \A k \in Kinds : Len(buckets[k]) <= Cap
    /\ seenKeys \in SUBSET Keys /\ pushedOut \in SUBSET Keys
    /\ file \in [Kinds -> Seq(Event)]
    /\ debounce \in BOOLEAN
    /\ saves \in Nat /\ flushing \in 0..saves
    /\ writing = << >> \/ (Len(writing) = 1 /\ writing[1] \in [Kinds -> Seq(Event)])
    /\ writing # << >> => saves > 0

(***************************************************************************)
(* append: an event that is known is left alone; into a full bucket it     *)
(* pushes the oldest one out, whose key is forgotten.                      *)
(***************************************************************************)
Store == [buckets : [Kinds -> Seq(Event)], seenKeys : SUBSET Keys, pushedOut : SUBSET Keys]

\* Mutant: a full bucket grows.
EvictNot(bucket) == bucket

Evict(bucket) == IF Len(bucket) >= Cap THEN Tail(bucket) ELSE bucket

\* Mutant: the key of the event that is pushed out is kept.
EvictedNone(bucket) == {}

Evicted(bucket) == IF Len(bucket) >= Cap THEN {Head(bucket).key} ELSE {}

Append1(store, event) ==
    LET kind   == kindOf[event.key]
        bucket == store.buckets[kind]
    IN  IF event.key \in store.seenKeys
        THEN store
        ELSE [buckets   |-> [store.buckets EXCEPT ![kind] = Append(Evict(bucket), event)],
              seenKeys  |-> (store.seenKeys \ Evicted(bucket)) \union {event.key},
              pushedOut |-> store.pushedOut \union Evicted(bucket)]

Stored == [buckets |-> buckets, seenKeys |-> seenKeys, pushedOut |-> pushedOut]

(***************************************************************************)
(* rollbackToBlock: what was read at or above the cutoff goes.             *)
(***************************************************************************)
Below(bucket, cutoff) ==
    LET kept[n \in 0..Len(bucket)] ==
            IF n = 0 THEN << >>
            ELSE IF bucket[n].blockNumber < cutoff THEN Append(kept[n - 1], bucket[n])
            ELSE kept[n - 1]
    IN  kept[Len(bucket)]

RollbackToBlock(store, cutoff) ==
    LET kept == [k \in Kinds |-> Below(store.buckets[k], cutoff)]
    IN  [store EXCEPT !.buckets = kept, !.seenKeys = KeysOf(kept)]

\* What the handlers leave in memory.  Any change arms the timer.
Put(store) ==
    /\ buckets' = store.buckets
    /\ seenKeys' = store.seenKeys
    /\ pushedOut' = store.pushedOut

PutDebounced(store) ==
    /\ Put(store)
    /\ debounce' = (debounce \/ store # Stored)
    /\ UNCHANGED persistVars

(***************************************************************************)
(* Persistence.  Saves run one after another (persistChain); a save takes  *)
(* its snapshot when its turn comes and then replaces the file as a whole  *)
(* (a temporary file is renamed).  An error of the write is logged and     *)
(* forgotten: whoever awaits the save goes on as if it had succeeded.      *)
(***************************************************************************)
EnqueuePersist == saves' = saves + 1

\* The debounce timer fires.
PersistDebounced ==
    /\ debounce
    /\ debounce' = FALSE
    /\ EnqueuePersist
    /\ UNCHANGED <<memoryVars, file, writing, flushing>>

\* Mutant: flush does not wait for its own save.
FlushUnawaited ==
    /\ debounce' = FALSE
    /\ EnqueuePersist
    /\ flushing' = saves
    /\ UNCHANGED <<file, writing>>

\* flush: it resolves when the save it adds is over.
Flush ==
    /\ debounce' = FALSE
    /\ EnqueuePersist
    /\ flushing' = saves + 1
    /\ UNCHANGED <<file, writing>>

SaveBuckets ==
    /\ saves > 0 /\ writing = << >>
    /\ writing' = <<buckets>>
    /\ UNCHANGED <<memoryVars, file, debounce, saves, flushing>>

WriteFile(fails) ==
    /\ writing # << >>
    /\ file' = IF fails THEN file ELSE writing[1]
    /\ writing' = << >>
    /\ saves' = saves - 1
    /\ flushing' = IF flushing = 0 THEN 0 ELSE flushing - 1
    /\ UNCHANGED <<memoryVars, debounce>>

\* A new process reads the file.
Load ==
    /\ buckets' = file
    /\ seenKeys' = KeysOf(file)
    /\ debounce' = FALSE
    /\ writing' = << >> /\ saves' = 0 /\ flushing' = 0
    /\ UNCHANGED <<file, pushedOut>>

StoreInit ==
    /\ buckets = NoBuckets
    /\ seenKeys = {} /\ pushedOut = {}
    /\ file = NoBuckets
    /\ debounce = FALSE
    /\ writing = << >> /\ saves = 0 /\ flushing = 0

(***************************************************************************)
(* What the store promises.                                                *)
(***************************************************************************)

\* No event is held twice, and the keys the store compares with are exactly the
\* keys it holds, through evictions, rollbacks and restarts: a key that stays
\* behind loses an event for good, a key that is missing stores one twice.
SeenIsStored ==
    /\ seenKeys = KeysOf(buckets)
    /\ \A k \in Kinds : \A i, j \in DOMAIN buckets[k] :
          buckets[k][i].key = buckets[k][j].key => i = j
=============================================================================
