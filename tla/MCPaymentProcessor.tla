-------------------------- MODULE MCPaymentProcessor --------------------------
(* A creator u1 and another user u2, one agent, two tokens. *)
EXTENDS PaymentProcessor, TLC

CONSTANTS u1, u2, a1, tA, tB

MCUsers == {u1, u2}
MCAgents == {a1}
MCTokens == {tA, tB}
MCCreatorOf == a1 :> u1
===============================================================================
