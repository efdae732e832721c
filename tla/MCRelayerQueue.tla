--------------------------- MODULE MCRelayerQueue ---------------------------
(* Small instance of RelayerQueue.                                          *)
EXTENDS RelayerQueue

CONSTANT u1

MCOneUser == {u1}
=============================================================================
