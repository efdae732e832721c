------------------------------ MODULE Requests ------------------------------
(***************************************************************************)
(* What the parts of the backend have in common: the requests that may be  *)
(* in the process at once, and the tokens they are about.                  *)
(***************************************************************************)
CONSTANTS Jobs, Tokens, None

ASSUME RequestsAssumption == None \notin Jobs \union Tokens
=============================================================================
