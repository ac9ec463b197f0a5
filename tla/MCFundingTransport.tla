------------------------- MODULE MCFundingTransport -------------------------
(***************************************************************************)
(* Small instances of FundingTransport.  Requests and accounts are         *)
(* symmetric in the safety runs.                                           *)
(***************************************************************************)
EXTENDS FundingTransport, TLC

CONSTANTS t1, t2, a1, a2, r1, r2, r3

OneTab == {t1}
TwoTabs == {t1, t2}
MCAccounts == {a1, a2}
MCRequests == {r1, r2, r3}

Symmetry == Permutations(MCAccounts) \cup Permutations(MCRequests)
FlowSymmetry == Symmetry \cup Permutations(TwoTabs)
=============================================================================
