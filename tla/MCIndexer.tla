------------------------------ MODULE MCIndexer ------------------------------
(***************************************************************************)
(* The indexer and its store on small chains: a log and an event           *)
(* of another part of the process, which shares its bucket of one entry.   *)
(***************************************************************************)
EXTENDS Indexer

CONSTANTS l1, note, kA, kB, resync

MCKindOf == [l \in Logs \union {resync} |-> IF l = resync THEN kB ELSE kA]
=============================================================================
