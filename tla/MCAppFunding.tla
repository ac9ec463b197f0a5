---------------------------- MODULE MCAppFunding ----------------------------
(***************************************************************************)
(* One tab.  A third account keeps a fresh one at hand in every state, so  *)
(* the application never runs out of indexes.                              *)
(***************************************************************************)
EXTENDS AppFunding

CONSTANTS t1, a1, a2, a3, r1, r2

OneTab == {t1}
MCAccounts == {a1, a2, a3}
MCRequests == {r1, r2}
=============================================================================
