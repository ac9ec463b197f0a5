-------------------------- MODULE AccountAuthority --------------------------
(***************************************************************************)
(* What a PrivateLaunchpadAccount promises its owner: a signed batch is    *)
(* spent whole, in one step, at the nonce it was signed for, before its    *)
(* deadline, or it leaves no trace at all.                                 *)
(***************************************************************************)
EXTENDS Integers

CONSTANTS
  Auths,    \* the batches the owner has signed
  Signed,   \* what each signature binds: [nonce, deadline, calls, fee]
  MaxTime   \* bound on block.timestamp

\* "malformed": one of fee amount and fee recipient is zero, the other is not.
FeeShape == {"none", "paid", "malformed"}

VARIABLES
  now,       \* block.timestamp of the next transaction
  code,      \* the account has been deployed
  nonce,     \* the account's nonce
  executed,  \* the batches that have spent a nonce
  performed, \* calls each batch has made to its targets
  paid       \* the batches whose relayer fee was paid

vars == <<now, code, nonce, executed, performed, paid>>

Init ==
  /\ now = 0
  /\ code = FALSE
  /\ nonce = 0
  /\ executed = {}
  /\ performed = [a \in Auths |-> 0]
  /\ paid = {}

Tick ==
  /\ now < MaxTime
  /\ now' = now + 1
  /\ UNCHANGED <<code, nonce, executed, performed, paid>>

Deploy ==
  /\ code' = TRUE
  /\ UNCHANGED <<now, nonce, executed, performed, paid>>

Execute(a) ==
  /\ Signed[a].nonce = nonce
  /\ now <= Signed[a].deadline
  /\ Signed[a].fee # "malformed"
  /\ code' = TRUE
  /\ nonce' = nonce + 1
  /\ executed' = executed \cup {a}
  /\ performed' = [performed EXCEPT ![a] = Signed[a].calls]
  /\ paid' = IF Signed[a].fee = "paid" THEN paid \cup {a} ELSE paid
  /\ UNCHANGED now

Next == Tick \/ Deploy \/ \E a \in Auths : Execute(a)

Spec == Init /\ [][Next]_vars
=============================================================================
