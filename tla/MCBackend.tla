------------------------------ MODULE MCBackend ------------------------------
(***************************************************************************)
(* One token with two requests at a time, over two sockets: one follows    *)
(* the token's ticks, the other every topic.                               *)
(***************************************************************************)
EXTENDS Backend

CONSTANTS j1, j2, tok, c1, c2, all, tickTok, blob, said1, said2, w1, w2

MCTopicsOf == [c \in Clients |-> IF c = c1 THEN {tickTok} ELSE {all, tickTok}]
MCPrefixOf == [t \in Topics |-> t]
MCCovers == [t \in Topics |-> IF t = all THEN Topics ELSE {t}]
MCTickTopic == [t \in Tokens |-> tickTok]
MCRootOf == [t \in Tokens |-> blob]
MCSizeOf == [b \in Blobs |-> IF b = blob THEN 2 ELSE 1]
=============================================================================
