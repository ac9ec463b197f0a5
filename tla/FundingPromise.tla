--------------------------- MODULE FundingPromise ---------------------------
(***************************************************************************)
(* What the funding transport promises the owner of a private balance: at  *)
(* most one burn is open at a time, an open burn is closed by its          *)
(* delivery, and the only other way it leaves sight is to be lost.         *)
(***************************************************************************)
CONSTANTS Requests

VARIABLES
  open,      \* burned requests the browser has a record of
  delivered, \* requests Relay has filled on Robinhood
  lost       \* requests whose burn the browser has no record of

vars == <<open, delivered, lost>>

Init ==
  /\ open = {} \/ \E r \in Requests : open = {r}
  /\ delivered = {}
  /\ lost = {}

Burn(r) ==
  /\ open = {}
  /\ open' = {r}
  /\ UNCHANGED <<delivered, lost>>

Deliver(r) ==
  /\ delivered' = delivered \cup {r}
  /\ UNCHANGED <<open, lost>>

Close(r) ==
  /\ r \in delivered
  /\ open' = open \ {r}
  /\ UNCHANGED <<delivered, lost>>

Lose(r) ==
  /\ r \notin lost
  /\ lost' = lost \cup {r}
  /\ open' = open \ {r}
  /\ UNCHANGED delivered

Next == \E r \in Requests : Burn(r) \/ Deliver(r) \/ Close(r) \/ Lose(r)

Spec == Init /\ [][Next]_vars
=============================================================================
