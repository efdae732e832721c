------------------------ MODULE MCDelegationRegistry ------------------------
(* One agent, two owners and five delegations: windows of one, two and      *)
(* three seconds, one without a window, and two that share a nonce.         *)
EXTENDS DelegationRegistry

CONSTANTS a1, u1, u2, t1, t2

MCDelegation(delegate, perTx, cap, seconds, until, nonce, signer) ==
    [agentTokenId |-> a1, delegate |-> delegate, perTxCap |-> perTx, windowCap |-> cap,
     windowSeconds |-> seconds, expiresAt |-> until, allowed |-> {t1}, nonce |-> nonce,
     signer |-> signer]

MCDelegations ==
    {MCDelegation(u1, 2, 2, 1, 5, 1, u1), MCDelegation(u2, 2, 3, 2, 4, 2, u1),
     MCDelegation(u2, 1, 2, 2, 5, 1, u2), MCDelegation(u1, 1, 0, 0, 3, 3, u2),
     MCDelegation(u1, 1, 2, 3, 6, 4, u1)}
=============================================================================
