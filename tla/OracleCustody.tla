---------------------------- MODULE OracleCustody ----------------------------
(***************************************************************************)
(* The oracle's re-key path (oracle/routes.ts, reached by the challenge    *)
(* stage of POST /v1/agents/:id/transfer), the vault of sealed data keys   *)
(* it burns rows of (oracle/storage.ts), the hashes it has seen            *)
(* (storage/0g.ts), and the cache of blobs that all downloads share.       *)
(*                                                                         *)
(* A row of the vault is known by a number: the n-th key registered for    *)
(* its token.  0 stands for no row.                                        *)
(***************************************************************************)
EXTENDS Requests, Integers, FiniteSets, SequencesExt

CONSTANTS
    Blobs,          \* roots of stored blobs
    rootOf,         \* [Tokens -> Blobs]: a token's data hash, which is its blob's root
    sizeOf,         \* [Blobs -> Nat \ {0}]
    MaxEntries,     \* AXIOM_BLOB_CACHE_MAX_ENTRIES
    MaxBytes,       \* BLOB_CACHE_MAX_BYTES
    MaxKeys         \* bound: keys registered per token

ASSUME CustodyAssumption ==
    /\ rootOf \in [Tokens -> Blobs] /\ sizeOf \in [Blobs -> Nat \ {0}]
    /\ MaxEntries \in Nat \ {0} /\ MaxBytes \in Nat /\ MaxKeys \in Nat
    /\ None \notin Blobs

VARIABLES
    rekey,          \* the re-key or mint registration a job runs
    entries,        \* [Tokens -> 0..MaxKeys]: the vault's row in memory
    dekFile,        \* and in its file
    blobCache,      \* roots, the least recently used first
    blobCacheBytes,
    loading,        \* the root a job is downloading; it may outlive the request
    keys,           \* history: keys registered
    uploaded,       \* history: keys whose blob was uploaded again under a fresh key
    delivered,      \* history: keys whose re-key was answered
    unsaved,        \* history: tokens whose last write failed, until one succeeds
    lost            \* history: tokens whose key went with a refused write and a restart

cacheVars == <<blobCache, blobCacheBytes, loading>>
vaultVars == <<entries, dekFile, keys, unsaved, lost>>
custodyVars == <<rekey, vaultVars, cacheVars, uploaded, delivered>>

NoRekey == [pc |-> "none", token |-> None, row |-> 0]

CustodyTypeOK ==
    /\ rekey \in [Jobs -> [pc : {"none", "hash", "download", "upload", "possess", "register"},
                           token : Tokens \union {None}, row : 0..MaxKeys]]
    /\ {entries, dekFile, keys} \subseteq [Tokens -> 0..MaxKeys]
    /\ blobCache \in Seq(Blobs)
    /\ blobCacheBytes \in Nat
    /\ loading \in [Jobs -> Blobs \union {None}]
    /\ {uploaded, delivered} \subseteq [Tokens -> SUBSET (1..MaxKeys)]
    /\ unsaved \subseteq Tokens /\ lost \subseteq Tokens

(***************************************************************************)
(* downloadBlobCached: a hit makes the entry the freshest; a miss is       *)
(* awaited, then put, counted, and made room for.  Two misses of one root  *)
(* may be in flight: the second put replaces the first one's entry where   *)
(* it stands, and its bytes are counted again.                             *)
(***************************************************************************)
SizeOf(roots) == SumFunction([i \in DOMAIN roots |-> sizeOf[roots[i]]])
Cached(root) == \E i \in DOMAIN blobCache : blobCache[i] = root

Touch(root) ==
    LET i == CHOOSE i \in DOMAIN blobCache : blobCache[i] = root
    IN  Append(RemoveAt(blobCache, i), root)

\* How many of the oldest entries have to go.
Excess(roots, bytes) ==
    LET Fits(k) == /\ Len(roots) - k <= MaxEntries
                   /\ bytes - SizeOf(SubSeq(roots, 1, k)) <= MaxBytes
    IN  IF \E k \in 0..Len(roots) : Fits(k)
        THEN Min({k \in 0..Len(roots) : Fits(k)})
        ELSE Len(roots)

\* Mutant: entries are counted, not bytes.
AddedOne(root) == blobCacheBytes + 1

AddedBytes(root) == blobCacheBytes + sizeOf[root]

FillCache(root) ==
    LET roots == IF Cached(root) THEN blobCache ELSE Append(blobCache, root)
        bytes == AddedBytes(root)
        k     == Excess(roots, bytes)
    IN  /\ blobCache' = SubSeq(roots, k + 1, Len(roots))
        /\ blobCacheBytes' = bytes - SizeOf(SubSeq(roots, 1, k))

\* A download begins, unless the cache has the blob.
Download(j, root) ==
    IF Cached(root)
    THEN blobCache' = Touch(root) /\ UNCHANGED <<blobCacheBytes, loading>>
    ELSE loading' = [loading EXCEPT ![j] = root] /\ UNCHANGED <<blobCache, blobCacheBytes>>

(***************************************************************************)
(* The vault.  A write that fails is logged and forgotten.                 *)
(***************************************************************************)
WriteEntries(fails, token) ==
    /\ dekFile' = IF fails THEN dekFile ELSE entries'
    /\ unsaved' = IF fails THEN unsaved \union {token} ELSE {}

Persist(token, fails) ==
    /\ keys' = [keys EXCEPT ![token] = @ + 1]
    /\ entries' = [entries EXCEPT ![token] = keys[token] + 1]
    /\ lost' = lost \ {token}
    /\ WriteEntries(fails, token)

\* Whatever row the token has by now goes.
Delete(token, fails) ==
    /\ entries' = [entries EXCEPT ![token] = 0]
    /\ IF entries[token] = 0 THEN UNCHANGED <<dekFile, unsaved>>
                             ELSE WriteEntries(fails, token)
    /\ UNCHANGED <<keys, lost>>

IdleRekey(j) == rekey[j].pc = "none" /\ loading[j] = None

(***************************************************************************)
(* POST /oracle/v1/agents/mint: with proof of possession the blob has to   *)
(* be downloaded first; then the key is registered.                        *)
(***************************************************************************)
RequestMint(j, token) ==
    /\ IdleRekey(j)
    /\ Download(j, rootOf[token])
    /\ rekey' = [rekey EXCEPT ![j] =
           [pc |-> IF Cached(rootOf[token]) THEN "register" ELSE "possess",
            token |-> token, row |-> 0]]
    /\ UNCHANGED <<vaultVars, uploaded, delivered>>

RegisterKey(j, fails) ==
    /\ rekey[j].pc = "register" /\ keys[rekey[j].token] < MaxKeys
    /\ Persist(rekey[j].token, fails)
    /\ rekey' = [rekey EXCEPT ![j] = NoRekey]
    /\ UNCHANGED <<cacheVars, uploaded, delivered>>

(***************************************************************************)
(* transferValidity.  Awaits: the token's data hash; the blob; the upload. *)
(***************************************************************************)
RequestTransfer(j, token) ==
    /\ IdleRekey(j)
    /\ rekey' = [rekey EXCEPT ![j] = [pc |-> "hash", token |-> token, row |-> 0]]
    /\ UNCHANGED <<vaultVars, cacheVars, uploaded, delivered>>

\* The vault has the key, or the sender brought it sealed (row 0); if neither, the
\* request is refused.
LookupKey(j) ==
    /\ rekey[j].pc = "hash"
    /\ LET token == rekey[j].token
           root  == rootOf[token]
       IN  /\ \E row \in {0, entries[token]} :
                 rekey' = [rekey EXCEPT ![j].row = row,
                               ![j].pc = IF Cached(root) THEN "upload" ELSE "download"]
           /\ Download(j, root)
    /\ UNCHANGED <<vaultVars, uploaded, delivered>>

\* The request fails: its hash, key, blob or new blob cannot be had, or the blob does
\* not decrypt.  After 20 s a download is not waited for any longer, but goes on.
RekeyFails(j) ==
    /\ rekey[j].pc # "none"
    /\ rekey' = [rekey EXCEPT ![j] = NoRekey]
    /\ UNCHANGED <<vaultVars, cacheVars, uploaded, delivered>>

DownloadDone(j) ==
    /\ loading[j] # None
    /\ FillCache(loading[j])
    /\ loading' = [loading EXCEPT ![j] = None]
    /\ rekey' = [rekey EXCEPT ![j].pc =
           CASE @ = "download" -> "upload" [] @ = "possess" -> "register" [] OTHER -> @]
    /\ UNCHANGED <<vaultVars, uploaded, delivered>>

DownloadFails(j) ==
    /\ loading[j] # None
    /\ loading' = [loading EXCEPT ![j] = None]
    /\ rekey' = [rekey EXCEPT ![j] = NoRekey]
    /\ UNCHANGED <<vaultVars, blobCache, blobCacheBytes, uploaded, delivered>>

\* Mutant: the row goes before the upload, which fails.
BurnBeforeUpload(j, fails, seals) ==
    /\ rekey[j].pc = "upload"
    /\ IF rekey[j].row = 0 THEN UNCHANGED vaultVars ELSE Delete(rekey[j].token, fails)
    /\ rekey' = [rekey EXCEPT ![j] = NoRekey]
    /\ UNCHANGED <<cacheVars, uploaded, delivered>>

\* The new blob is uploaded.  Then, without another await, the row is deleted if it
\* gave the key, and the fresh key is sealed to the receiver, which throws if the
\* receiver's public key is not a point of the curve, and signed.
UploadRekeyed(j, fails, seals) ==
    /\ rekey[j].pc = "upload"
    /\ LET token == rekey[j].token
           row   == rekey[j].row
           used  == IF row = 0 THEN {} ELSE {row}
       IN  /\ IF row = 0 THEN UNCHANGED vaultVars ELSE Delete(token, fails)
           /\ uploaded' = [uploaded EXCEPT ![token] = @ \union used]
           /\ delivered' = [delivered EXCEPT ![token] = IF seals THEN @ \union used ELSE @]
    /\ rekey' = [rekey EXCEPT ![j] = NoRekey]
    /\ UNCHANGED cacheVars

CustodyInit ==
    /\ rekey = [j \in Jobs |-> NoRekey]
    /\ entries = [t \in Tokens |-> 0] /\ dekFile = entries
    /\ blobCache = << >> /\ blobCacheBytes = 0
    /\ loading = [j \in Jobs |-> None]
    /\ keys = entries
    /\ uploaded = [t \in Tokens |-> {}] /\ delivered = uploaded
    /\ unsaved = {} /\ lost = {}

\* A new process loads the file.
CustodyRestart ==
    /\ rekey' = [j \in Jobs |-> NoRekey]
    /\ entries' = dekFile
    /\ blobCache' = << >> /\ blobCacheBytes' = 0
    /\ loading' = [j \in Jobs |-> None]
    /\ unsaved' = {}
    /\ lost' = lost \union {t \in unsaved : entries[t] # 0 /\ dekFile[t] = 0}
    /\ UNCHANGED <<dekFile, keys, uploaded, delivered>>

CustodyStep(j) ==
    \/ LookupKey(j) \/ RekeyFails(j) \/ DownloadDone(j) \/ DownloadFails(j)

(***************************************************************************)
(* What the vault and the cache promise.                                   *)
(***************************************************************************)

\* A token whose key was registered is without one only after a blob of that token
\* was uploaded again under a fresh key: through failures on either side of the
\* upload, registrations in the middle of it, and restarts; unless the disk refused to
\* write the key and a restart then found it missing.  The sender of an agent has
\* nothing else to decrypt it with.
KeyKept ==
    \A t \in Tokens : keys[t] > 0 /\ entries[t] = 0 /\ t \notin lost => uploaded[t] # {}

\* The cache stays within its two bounds, and never takes itself for emptier than it
\* is, although several misses of one root overlap and a replaced entry is counted
\* twice.
CacheBounded ==
    /\ Len(blobCache) <= MaxEntries
    /\ SizeOf(blobCache) <= blobCacheBytes
    /\ SizeOf(blobCache) <= MaxBytes
    /\ \A i, k \in DOMAIN blobCache : blobCache[i] = blobCache[k] => i = k

\* What the code says of the vault: a row is burned once the re-key has fully
\* succeeded, the new blob durable and sealed to the receiver.
BurnedIsDelivered ==
    \A t \in Tokens : keys[t] > 0 /\ entries[t] = 0 /\ t \notin lost =>
        keys[t] \in delivered[t]
=============================================================================
