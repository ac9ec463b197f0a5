------------------------- MODULE MCDepositTransport -------------------------
EXTENDS DepositTransport, TLC

\* Calls and transfers are interchangeable.
Alike == Permutations(Calls) \cup Permutations(Transfers)
=============================================================================
