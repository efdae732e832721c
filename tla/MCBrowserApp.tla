---------------------------- MODULE MCBrowserApp ----------------------------
(***************************************************************************)
(* One page of each kind, two operations at a time, two transactions.      *)
(***************************************************************************)
EXTENDS BrowserApp

CONSTANTS me, them, o1, o2, t1, t2

MCCallLists == {<<"read", "wallet">>, <<"ask">>}
=============================================================================
