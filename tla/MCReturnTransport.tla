------------------------- MODULE MCReturnTransport -------------------------
EXTENDS ReturnTransport, TLC

\* Flows and requests are interchangeable.
Alike == Permutations(Flows) \cup Permutations(Requests)
=============================================================================
