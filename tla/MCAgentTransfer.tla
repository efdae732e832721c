--------------------------- MODULE MCAgentTransfer ---------------------------
(* Two accounts, two data hashes and three TEE keys, two of them at a time. *)
EXTENDS AgentTransfer, TLC

CONSTANTS u1, u2, d1, d2, n1, s1, s2, s3

MCUsers == {u1, u2}
MCDatas == {d1, d2}
MCNonces == {n1}
MCSigners == {s1, s2, s3}
MCProof(data, to, until) == [data |-> data, to |-> to, nonce |-> n1, validUntil |-> until]
MCProofs == {MCProof(d1, u2, 1), MCProof(d1, u1, 2), MCProof(d2, u2, 1)}
MCSignerSymmetry == Permutations({s2, s3})
===============================================================================
