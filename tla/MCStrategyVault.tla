---------------------------- MODULE MCStrategyVault ----------------------------
(* One agent's two actions, and a second agent that shares the vault's coins. *)
EXTENDS StrategyVault, TLC

CONSTANTS a1, a2, x1, x2

MCAgents == {a1, a2}
MCActions == {x1, x2}
MCActionValue == x1 :> 1 @@ x2 :> 2
MCRoots == {{x1}, {x1, x2}}
===============================================================================
