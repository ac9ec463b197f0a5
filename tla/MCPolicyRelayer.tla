-------------------------- MODULE MCPolicyRelayer --------------------------
(***************************************************************************)
(* Rivals for the first nonce of an account: the buy that spends the       *)
(* bridged funding, and the batch that gives the funding back.             *)
(***************************************************************************)
EXTENDS PolicyRelayer

CONSTANTS buy, giveBack

MCAuths == {buy, giveBack}
MCSigned ==
  [a \in MCAuths |-> [nonce |-> 0, deadline |-> 1, calls |-> 1, fee |-> "none"]]
=============================================================================
