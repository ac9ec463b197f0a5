----------------------- MODULE PrivateLaunchpadAccount -----------------------
(***************************************************************************)
(* The execution account R2 and its factory, transaction by transaction.   *)
(*                                                                         *)
(* world is everything an EVM revert rolls back: the account's storage and *)
(* the effects of the calls it made.  stack holds the account's frames of  *)
(* the current transaction, innermost first, each with the world it will   *)
(* restore if it reverts.  While a frame waits for one of its calls the    *)
(* callee has control and may enter the account again, so every entry      *)
(* point is enabled on a non-empty stack too; only the code's own guards   *)
(* keep it out.  An entry whose guard fails reverts without a trace and is *)
(* a stuttering step.                                                      *)
(***************************************************************************)
EXTENDS Integers, Sequences

CONSTANTS Auths,          \* the batches the owner has signed
          Signed,         \* what each signature binds: nonce, deadline, calls, fee
          MaxTime,        \* bound on block.timestamp
          Direct,         \* marks the frame of executeDirect
          MaxDirectCalls, \* bound on the calls of a direct batch
          MaxDepth        \* bound on nested account frames

VARIABLES now, world, stack

vars == <<now, world, stack>>

World == [code: BOOLEAN, nonce: Nat, executing: BOOLEAN,
          executed: SUBSET Auths, performed: [Auths -> Nat],
          paid: SUBSET Auths]

Frame == [auth: Auths \cup {Direct}, left: Nat, feeDue: BOOLEAN, saved: World]

\* The world outside the current transaction: what the chain shows once every
\* open frame has reverted.
Settled == IF stack = <<>> THEN world ELSE stack[Len(stack)].saved

Authority == INSTANCE AccountAuthority WITH
  code <- Settled.code, nonce <- Settled.nonce,
  executed <- Settled.executed, performed <- Settled.performed,
  paid <- Settled.paid

SignedBatch == [nonce: Nat, deadline: Nat, calls: Nat, fee: Authority!FeeShape]

ASSUME AccountAssumption ==
  /\ Signed \in [Auths -> SignedBatch]
  /\ Direct \notin Auths
  /\ {MaxTime, MaxDirectCalls} \subseteq Nat
  /\ MaxDepth \in Nat \ {0}

(***************************************************************************)
(* The frames.                                                             *)
(***************************************************************************)
Top == Head(stack)

\* An external call of the innermost frame is under way.
InCall == stack # <<>> => Top.left > 0 \/ Top.feeDue

Push(a, calls, fee) ==
  stack' = <<[auth |-> a, left |-> calls, feeDue |-> fee, saved |-> world]>>
           \o stack

Init ==
  /\ now = 0
  /\ world = [code |-> FALSE, nonce |-> 0, executing |-> FALSE,
              executed |-> {}, performed |-> [a \in Auths |-> 0], paid |-> {}]
  /\ stack = <<>>

\* Time stands still inside a transaction.
Tick ==
  /\ stack = <<>>
  /\ now < MaxTime
  /\ now' = now + 1
  /\ UNCHANGED <<world, stack>>

(***************************************************************************)
(* Entry points.                                                           *)
(***************************************************************************)
\* factory.deploy: returns early when the account has code.
Deploy ==
  /\ InCall
  /\ world' = [world EXCEPT !.code = TRUE]
  /\ UNCHANGED <<now, stack>>

\* Mutant: without the AlreadyExecuting check.
UnlockedMayExecute(w, a) ==
  /\ now <= Signed[a].deadline
  /\ Signed[a].nonce = w.nonce
  /\ Signed[a].fee # "malformed"

\* Mutant: without the DeadlineExpired check.
TimelessMayExecute(w, a) ==
  /\ ~w.executing
  /\ Signed[a].nonce = w.nonce
  /\ Signed[a].fee # "malformed"

\* The checks of execute, on the world w it runs in.
MayExecute(w, a) ==
  /\ ~w.executing
  /\ now <= Signed[a].deadline
  /\ Signed[a].nonce = w.nonce
  /\ Signed[a].fee # "malformed"

\* Mutant: the nonce is not advanced.
ReplayableEnter(a) ==
  /\ InCall
  /\ Len(stack) < MaxDepth
  /\ MayExecute(world, a)
  /\ Push(a, Signed[a].calls, Signed[a].fee = "paid")
  /\ world' = [world EXCEPT !.code = TRUE,
                            !.executing = TRUE,
                            !.executed = @ \cup {a}]
  /\ UNCHANGED now

Enter(a) ==
  /\ InCall
  /\ Len(stack) < MaxDepth
  /\ MayExecute(world, a)
  /\ Push(a, Signed[a].calls, Signed[a].fee = "paid")
  /\ world' = [code |-> TRUE,
               nonce |-> Signed[a].nonce + 1,
               executing |-> TRUE,
               executed |-> world.executed \cup {a},
               performed |-> world.performed,
               paid |-> world.paid]
  /\ UNCHANGED now

\* A relayer or a re-entering callee calls execute on deployed code.
Execute(a) == world.code /\ Enter(a)

\* factory.deployAndExecute: the deployment is part of the frame's effects.
DeployAndExecute(a) == ~world.code /\ Enter(a)

\* The owner is an EOA, so it can only be the sender of a transaction.
ExecuteDirect ==
  /\ stack = <<>>
  /\ world.code
  /\ ~world.executing
  /\ \E n \in 0..MaxDirectCalls : Push(Direct, n, FALSE)
  /\ world' = [world EXCEPT !.executing = TRUE]
  /\ UNCHANGED now

(***************************************************************************)
(* The body of a frame: _executeCalls, _payFee, return, revert.            *)
(***************************************************************************)
CallReturns ==
  /\ stack # <<>>
  /\ Top.left > 0
  /\ stack' = [stack EXCEPT ![1].left = @ - 1]
  /\ world' = IF Top.auth = Direct THEN world
              ELSE [world EXCEPT !.performed[Top.auth] = @ + 1]
  /\ UNCHANGED now

FeeReturns ==
  /\ stack # <<>>
  /\ Top.left = 0
  /\ Top.feeDue
  /\ stack' = [stack EXCEPT ![1].feeDue = FALSE]
  /\ world' = [world EXCEPT !.paid = @ \cup {Top.auth}]
  /\ UNCHANGED now

\* Mutant: the success flag of a call is not checked, the batch goes on.
IgnoredRevert ==
  /\ stack # <<>>
  /\ Top.left > 0
  /\ stack' = [stack EXCEPT ![1].left = @ - 1]
  /\ UNCHANGED <<now, world>>

\* ZeroTarget, CallFailed, InvalidFee, or the callee or the sender ran out of
\* gas: the frame reverts and takes everything below it along.
Revert ==
  /\ stack # <<>>
  /\ world' = Top.saved
  /\ stack' = Tail(stack)
  /\ UNCHANGED now

Return ==
  /\ stack # <<>>
  /\ Top.left = 0
  /\ ~Top.feeDue
  /\ world' = [world EXCEPT !.executing = FALSE]
  /\ stack' = Tail(stack)
  /\ UNCHANGED now

Next ==
  \/ Tick
  \/ Deploy
  \/ \E a \in Auths : Execute(a)
  \/ \E a \in Auths : DeployAndExecute(a)
  \/ ExecuteDirect
  \/ CallReturns
  \/ FeeReturns
  \/ Revert
  \/ Return

Spec == Init /\ [][Next]_vars

(***************************************************************************)
(* Properties.                                                             *)
(***************************************************************************)
TypeOK ==
  /\ now \in 0..MaxTime
  /\ world \in World
  /\ stack \in Seq(Frame)

\* No callee gets back into the account while one of its batches runs: frames
\* never nest (the executing flag of execute and executeDirect).
NoReentry == Len(stack) <= 1

\* The executing flag is private and has no other reset: left behind by a
\* transaction it would brick the account and all it holds.
LockReleased == stack = <<>> => ~world.executing

\* A batch's calls and its fee happen together or not at all, whatever a callee
\* does and wherever the batch reverts (_executeCalls, _payFee).
WholeBatchOrNothing ==
  \A a \in Auths :
    /\ Settled.performed[a] = IF a \in Settled.executed
                              THEN Signed[a].calls ELSE 0
    /\ a \in Settled.paid <=>
         a \in Settled.executed /\ Signed[a].fee = "paid"

\* Two batches signed for one nonce, a retry and its original say, never both
\* take effect: at most one executed batch per nonce.
OncePerNonce ==
  \A a, b \in world.executed : Signed[a].nonce = Signed[b].nonce => a = b

\* Batches take effect in the order they were signed for: every nonce below the
\* account's has been spent by a batch, none above it has.
NoncesSpentInOrder ==
  {Signed[a].nonce : a \in world.executed} = {n \in 0..world.nonce : n < world.nonce}

\* Every transaction is one step of the abstract account or changes nothing.
ImplementsAuthority == Authority!Spec
=============================================================================
