--------------------- MODULE MCPrivateLaunchpadAccount ---------------------
(***************************************************************************)
(* Five signed batches: two rivals for nonce 0, a later one that is gone   *)
(* after the first tick, one with a malformed fee, and an empty one.       *)
(***************************************************************************)
EXTENDS PrivateLaunchpadAccount

CONSTANTS buy, retry, sell, badFee, noop

MCAuths == {buy, retry, sell, badFee, noop}

Batch(n, d, c, f) == [nonce |-> n, deadline |-> d, calls |-> c, fee |-> f]

MCSigned ==
  [a \in MCAuths |->
     CASE a = buy    -> Batch(0, 0, 2, "paid")
       [] a = retry  -> Batch(0, 2, 2, "none")
       [] a = sell   -> Batch(1, 1, 1, "paid")
       [] a = badFee -> Batch(1, 2, 1, "malformed")
       [] a = noop   -> Batch(2, 2, 0, "none")]
=============================================================================
