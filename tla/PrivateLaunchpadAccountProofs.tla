-------------------- MODULE PrivateLaunchpadAccountProofs --------------------
(***************************************************************************)
(* The account keeps its promises for every set of signed batches, every   *)
(* number of calls and every behaviour of the callees.                     *)
(*                                                                         *)
(* The argument: outside a transaction the world is Consistent.  The       *)
(* executing flag allows one frame, and Progress ties the world inside     *)
(* that frame to the world it saved: spent nonce, calls made so far, fee   *)
(* due or paid.  When the frame returns, the two together are again a      *)
(* Consistent world; when it reverts, the saved world is one already.      *)
(***************************************************************************)
EXTENDS PrivateLaunchpadAccount, TLAPS

Consistent(w) ==
  /\ ~w.executing
  /\ \A a \in w.executed : Signed[a].nonce < w.nonce
  /\ \A a, b \in w.executed : Signed[a].nonce = Signed[b].nonce => a = b
  /\ \A n \in Nat : n < w.nonce => \E a \in w.executed : Signed[a].nonce = n
  /\ \A a \in Auths :
       /\ w.performed[a] = IF a \in w.executed THEN Signed[a].calls ELSE 0
       /\ a \in w.paid <=> a \in w.executed /\ Signed[a].fee = "paid"

\* What a frame of a signed batch has done to the world it saved.
BatchProgress(f) ==
  /\ MayExecute(f.saved, f.auth)
  /\ world.code
  /\ world.nonce = f.saved.nonce + 1
  /\ world.executed = f.saved.executed \cup {f.auth}
  /\ f.left <= Signed[f.auth].calls
  /\ world.performed = [f.saved.performed EXCEPT
                          ![f.auth] = Signed[f.auth].calls - f.left]
  /\ f.feeDue => Signed[f.auth].fee = "paid"
  /\ world.paid = IF Signed[f.auth].fee = "paid" /\ ~f.feeDue
                  THEN f.saved.paid \cup {f.auth} ELSE f.saved.paid

\* A direct batch touches neither the nonce nor the signed batches.
DirectProgress(f) ==
  /\ ~f.feeDue
  /\ f.saved.code
  /\ world = [f.saved EXCEPT !.executing = TRUE]

Progress(f) ==
  /\ world.executing
  /\ Consistent(f.saved)
  /\ IF f.auth = Direct THEN DirectProgress(f) ELSE BatchProgress(f)

IInv ==
  /\ TypeOK
  /\ \/ stack = <<>> /\ Consistent(world)
     \/ \E f \in Frame : stack = <<f>> /\ Progress(f)

\* Sequences of length at most one, the only ones that occur.
LEMMA OneFrame ==
  ASSUME NEW f
  PROVE  /\ <<f>> # <<>> /\ Len(<<f>>) = 1 /\ Head(<<f>>) = f
         /\ Tail(<<f>>) = <<>> /\ <<f>>[1] = f /\ <<f>> \o <<>> = <<f>>
  OBVIOUS

LEMMA ReplaceTop ==
  ASSUME NEW f, NEW g
  PROVE  [<<f>> EXCEPT ![1] = g] = <<g>>
  OBVIOUS

LEMMA InitInv == Init => IInv
  BY AccountAssumption DEF Init, IInv, TypeOK, Consistent, World

\* Entering a frame: only from the empty stack, because an open frame holds the
\* executing flag.
LEMMA EnterInv ==
  ASSUME IInv, NEW a \in Auths, Enter(a)
  PROVE  IInv'
<1>1. stack = <<>> /\ Consistent(world)
  BY DEF IInv, Progress, Enter, MayExecute
<1>2. PICK f \in Frame :
        f = [auth |-> a, left |-> Signed[a].calls,
             feeDue |-> Signed[a].fee = "paid", saved |-> world]
  <2>1. Signed[a].calls \in Nat /\ world \in World
    BY AccountAssumption DEF IInv, TypeOK, SignedBatch
  <2>2. [auth |-> a, left |-> Signed[a].calls,
         feeDue |-> Signed[a].fee = "paid", saved |-> world] \in Frame
    BY <2>1 DEF Frame
  <2> QED
    BY <2>2
<1>3. stack' = <<f>>
  BY <1>1, <1>2 DEF Enter, Push
<1>4. world' \in World
  BY AccountAssumption DEF Enter, IInv, TypeOK, World, SignedBatch
<1>5. f.auth = a /\ a # Direct /\ f.saved = world /\ f.left = Signed[a].calls
      /\ f.feeDue = (Signed[a].fee = "paid")
  BY <1>2, AccountAssumption
<1>6. world'.executing /\ world'.performed = world.performed
  BY DEF Enter
<1>7. world.performed = [world.performed EXCEPT ![a] = Signed[a].calls - f.left]
  <2>1. a \notin world.executed
    BY <1>1, AccountAssumption
    DEF Consistent, Enter, MayExecute, IInv, TypeOK, World, SignedBatch
  <2>2. world.performed[a] = 0
    BY <1>1, <2>1 DEF Consistent
  <2>3. Signed[a].calls - f.left = 0
    BY <1>5, AccountAssumption DEF SignedBatch
  <2>4. world.performed \in [Auths -> Nat]
    BY DEF IInv, TypeOK, World
  <2> QED
    BY <2>2, <2>3, <2>4
<1>8. BatchProgress(f)'
  <2>1. /\ world'.code
        /\ world'.nonce = world.nonce + 1
        /\ world'.executed = world.executed \cup {a}
        /\ world'.paid = world.paid
        /\ now' = now
    BY DEF Enter, MayExecute
  <2>2. MayExecute(f.saved, f.auth)'
    BY <1>5, <2>1 DEF Enter, MayExecute
  <2>3. f.left <= Signed[a].calls
    BY <1>5, AccountAssumption DEF SignedBatch
  <2> QED
    BY <2>1, <2>2, <2>3, <1>5, <1>6, <1>7 DEF BatchProgress
<1>9. Progress(f)'
  BY <1>1, <1>5, <1>6, <1>8 DEF Progress, Consistent
<1> QED
  <2>1. TypeOK'
    BY <1>2, <1>3, <1>4 DEF IInv, TypeOK, Enter
  <2> QED
    BY <2>1, <1>2, <1>3, <1>9 DEF IInv

\* A direct frame opens from the empty stack, too.
LEMMA DirectInv ==
  ASSUME IInv, ExecuteDirect
  PROVE  IInv'
<1>1. stack = <<>> /\ Consistent(world)
  BY DEF IInv, ExecuteDirect
<1>2. PICK n \in 0..MaxDirectCalls : Push(Direct, n, FALSE)
  BY DEF ExecuteDirect
<1>3. PICK f \in Frame :
        f = [auth |-> Direct, left |-> n, feeDue |-> FALSE, saved |-> world]
  <2>1. n \in Nat /\ world \in World
    BY AccountAssumption DEF IInv, TypeOK
  <2>2. [auth |-> Direct, left |-> n, feeDue |-> FALSE, saved |-> world] \in Frame
    BY <2>1 DEF Frame
  <2> QED
    BY <2>2
<1>4. stack' = <<f>>
  BY <1>1, <1>2, <1>3 DEF Push
<1>5. f.auth = Direct /\ f.saved = world /\ ~f.feeDue
  BY <1>3
<1>6. world' = [world EXCEPT !.executing = TRUE] /\ now' = now /\ world.code
  BY DEF ExecuteDirect
<1>7. world' \in World /\ world'.executing
  BY <1>6 DEF IInv, TypeOK, World
<1>8. Progress(f)'
  BY <1>1, <1>5, <1>6, <1>7 DEF Progress, DirectProgress, Consistent
<1> QED
  <2>1. TypeOK'
    BY <1>4, <1>6, <1>7 DEF IInv, TypeOK
  <2> QED
    BY <2>1, <1>4, <1>8 DEF IInv

\* The open frame of a non-empty stack.
LEMMA OpenFrame ==
  ASSUME IInv, stack # <<>>
  PROVE  \E f \in Frame : /\ stack = <<f>> /\ Progress(f)
                          /\ Top = f /\ Tail(stack) = <<>>
  BY OneFrame DEF IInv, Top

LEMMA CallReturnsInv ==
  ASSUME IInv, CallReturns
  PROVE  IInv'
<1>1. PICK f \in Frame : stack = <<f>> /\ Progress(f) /\ Top = f
  BY OpenFrame DEF CallReturns
<1>2. PICK g \in Frame : g = [f EXCEPT !.left = @ - 1]
  BY <1>1 DEF CallReturns, Frame
<1>3. stack' = <<g>>
  BY <1>1, <1>2 DEF CallReturns
<1>4. /\ g.auth = f.auth /\ g.left = f.left - 1 /\ f.left > 0
      /\ g.feeDue = f.feeDue /\ g.saved = f.saved
  BY <1>1, <1>2 DEF CallReturns, Frame
<1>5. now' = now
  BY DEF CallReturns
<1>6. CASE f.auth = Direct
  <2>1. world' = world
    BY <1>1, <1>6 DEF CallReturns
  <2>2. Progress(g)'
    BY <1>1, <1>4, <1>5, <1>6, <2>1 DEF Progress, DirectProgress, Consistent
  <2> QED
    BY <1>3, <1>5, <2>1, <2>2 DEF IInv, TypeOK
<1>7. CASE f.auth # Direct
  <2> DEFINE a == f.auth
  <2>1. a \in Auths
    BY <1>7 DEF Frame
  <2>2. BatchProgress(f) /\ Consistent(f.saved) /\ world.executing
    BY <1>1, <1>7 DEF Progress
  <2>3. world' = [world EXCEPT !.performed[a] = @ + 1]
    BY <1>1, <1>7 DEF CallReturns
  <2>4. world \in World /\ f.saved \in World
    BY DEF IInv, TypeOK, Frame
  <2>5. /\ world'.code = world.code /\ world'.nonce = world.nonce
        /\ world'.executing = world.executing
        /\ world'.executed = world.executed /\ world'.paid = world.paid
        /\ world'.performed = [world.performed EXCEPT ![a] = @ + 1]
        /\ world' \in World
    BY <2>1, <2>3, <2>4 DEF World
  <2>6. world'.performed = [f.saved.performed EXCEPT
                               ![a] = Signed[a].calls - g.left]
    <3>1. f.left \in Nat /\ Signed[a].calls \in Nat
      BY <2>1, AccountAssumption DEF Frame, SignedBatch
    <3>2. world.performed = [f.saved.performed EXCEPT
                                ![a] = Signed[a].calls - f.left]
      BY <2>2 DEF BatchProgress
    <3>3. f.saved.performed \in [Auths -> Nat]
      BY <2>4 DEF World
    <3> QED
      BY <1>4, <2>1, <2>5, <3>1, <3>2, <3>3
  <2>7. g.left <= Signed[a].calls
    BY <1>4, <2>1, <2>2, AccountAssumption DEF BatchProgress, Frame, SignedBatch
  <2>8. BatchProgress(g)'
    BY <1>4, <1>5, <2>2, <2>5, <2>6, <2>7 DEF BatchProgress, MayExecute
  <2>9. Progress(g)'
    BY <1>4, <1>7, <2>2, <2>5, <2>8 DEF Progress, Consistent
  <2> QED
    BY <1>3, <1>5, <2>5, <2>9 DEF IInv, TypeOK
<1> QED
  BY <1>6, <1>7

LEMMA FeeReturnsInv ==
  ASSUME IInv, FeeReturns
  PROVE  IInv'
<1>1. PICK f \in Frame : stack = <<f>> /\ Progress(f) /\ Top = f
  BY OpenFrame DEF FeeReturns
<1>2. PICK g \in Frame : g = [f EXCEPT !.feeDue = FALSE]
  BY DEF Frame
<1>3. stack' = <<g>>
  <2>1. stack' = [stack EXCEPT ![1] = [stack[1] EXCEPT !.feeDue = FALSE]]
    BY DEF FeeReturns
  <2> QED
    BY <1>1, <1>2, <2>1, OneFrame, ReplaceTop
<1>4. /\ g.auth = f.auth /\ g.left = f.left /\ g.saved = f.saved
      /\ f.feeDue /\ ~g.feeDue
  BY <1>1, <1>2 DEF FeeReturns, Frame
<1>5. f.auth \in Auths /\ f.auth # Direct
  BY <1>1, <1>4 DEF Progress, DirectProgress, Frame
<1>6. BatchProgress(f) /\ Consistent(f.saved) /\ world.executing
  BY <1>1, <1>5 DEF Progress
<1>7. /\ world' = [world EXCEPT !.paid = @ \cup {f.auth}]
      /\ now' = now
  BY <1>1 DEF FeeReturns
<1>8. /\ world'.code = world.code /\ world'.nonce = world.nonce
      /\ world'.executing = world.executing
      /\ world'.executed = world.executed
      /\ world'.performed = world.performed
      /\ world'.paid = world.paid \cup {f.auth}
      /\ world' \in World
  BY <1>5, <1>7 DEF IInv, TypeOK, World
<1>9. BatchProgress(g)'
  BY <1>4, <1>6, <1>7, <1>8 DEF BatchProgress, MayExecute
<1>10. Progress(g)'
  BY <1>4, <1>5, <1>6, <1>8, <1>9 DEF Progress, Consistent
<1> QED
  BY <1>3, <1>7, <1>8, <1>10 DEF IInv, TypeOK

LEMMA RevertInv ==
  ASSUME IInv, Revert
  PROVE  IInv'
<1>1. PICK f \in Frame : stack = <<f>> /\ Progress(f) /\ Top = f
                         /\ Tail(stack) = <<>>
  BY OpenFrame DEF Revert
<1>2. stack' = <<>> /\ world' = f.saved /\ now' = now
  BY <1>1 DEF Revert
<1>3. Consistent(world)'
  BY <1>1, <1>2 DEF Progress, Consistent
<1> QED
  BY <1>2, <1>3 DEF IInv, TypeOK, Frame

\* A finished batch leaves a Consistent world: all its calls are made, its fee
\* is paid, and it is the one batch of the nonce it spent.
LEMMA Finished ==
  ASSUME IInv, NEW f \in Frame, Progress(f), f.left = 0, ~f.feeDue
  PROVE  Consistent([world EXCEPT !.executing = FALSE])
<1> DEFINE w == [world EXCEPT !.executing = FALSE]
           s == f.saved
           a == f.auth
<1>1. world \in World /\ s \in World
  BY DEF IInv, TypeOK, Frame
<1>2. /\ ~w.executing /\ w.nonce = world.nonce /\ w.executed = world.executed
      /\ w.performed = world.performed /\ w.paid = world.paid
  BY <1>1 DEF World
<1>3. CASE a = Direct
  BY <1>1, <1>2, <1>3 DEF Progress, DirectProgress, Consistent, World
<1>4. CASE a # Direct
  <2>1. a \in Auths
    BY <1>4 DEF Frame
  <2>2. BatchProgress(f) /\ Consistent(s)
    BY <1>4 DEF Progress
  <2>3. /\ Signed[a].nonce = s.nonce /\ s.nonce \in Nat
        /\ w.nonce = s.nonce + 1 /\ w.executed = s.executed \cup {a}
    BY <1>1, <1>2, <2>2 DEF BatchProgress, MayExecute, World
  <2>4. s.executed \subseteq Auths /\ \A b \in Auths : Signed[b].nonce \in Nat
    BY <1>1, AccountAssumption DEF World, SignedBatch
  <2>5. \A b \in s.executed : Signed[b].nonce < s.nonce
    BY <2>2 DEF Consistent
  <2> HIDE DEF w
  <2>6. ASSUME NEW b \in w.executed
        PROVE  Signed[b].nonce < w.nonce
    <3>1. CASE b = a
      BY <2>3, <3>1
    <3>2. CASE b \in s.executed
      BY <2>3, <2>4, <2>5, <3>2
    <3> QED
      BY <2>3, <3>1, <3>2
  <2>7. \A b, c \in w.executed : Signed[b].nonce = Signed[c].nonce => b = c
    BY <2>2, <2>3, <2>4, <2>5 DEF Consistent
  <2>8. \A n \in Nat : n < w.nonce => \E b \in w.executed : Signed[b].nonce = n
    BY <2>2, <2>3 DEF Consistent
  <2>9. ASSUME NEW b \in Auths
        PROVE  /\ w.performed[b] = IF b \in w.executed THEN Signed[b].calls ELSE 0
               /\ b \in w.paid <=> b \in w.executed /\ Signed[b].fee = "paid"
    <3>1. w.performed = [s.performed EXCEPT ![a] = Signed[a].calls]
      BY <1>2, <2>1, <2>2, AccountAssumption DEF BatchProgress, SignedBatch
    <3>2. s.performed \in [Auths -> Nat]
      BY <1>1 DEF World
    <3>3. w.paid = IF Signed[a].fee = "paid" THEN s.paid \cup {a} ELSE s.paid
      BY <1>2, <2>2 DEF BatchProgress
    <3>4. a \notin s.executed
      BY <2>3, <2>5
    <3>5. /\ s.performed[b] = IF b \in s.executed THEN Signed[b].calls ELSE 0
          /\ b \in s.paid <=> b \in s.executed /\ Signed[b].fee = "paid"
      BY <2>2 DEF Consistent
    <3>6. w.performed[b] = IF b \in w.executed THEN Signed[b].calls ELSE 0
      BY <2>1, <2>3, <3>1, <3>2, <3>5
    <3>7. b \in w.paid <=> b \in w.executed /\ Signed[b].fee = "paid"
      BY <2>3, <3>3, <3>5
    <3> QED
      BY <3>6, <3>7
  <2> QED
    BY <1>2, <2>6, <2>7, <2>8, <2>9 DEF Consistent, w
<1> QED
  BY <1>3, <1>4

LEMMA ReturnInv ==
  ASSUME IInv, Return
  PROVE  IInv'
<1>1. PICK f \in Frame : stack = <<f>> /\ Progress(f) /\ Top = f
                         /\ Tail(stack) = <<>>
  BY OpenFrame DEF Return
<1>2. /\ stack' = <<>> /\ now' = now
      /\ world' = [world EXCEPT !.executing = FALSE]
      /\ f.left = 0 /\ ~f.feeDue
  BY <1>1 DEF Return
<1>3. Consistent(world')
  BY <1>1, <1>2, Finished
<1>4. Consistent(world)'
  BY <1>3 DEF Consistent
<1>5. world' \in World
  BY <1>2 DEF IInv, TypeOK, World
<1> QED
  BY <1>2, <1>4, <1>5 DEF IInv, TypeOK

LEMMA StepInv == IInv /\ [Next]_vars => IInv'
<1> SUFFICES ASSUME IInv, [Next]_vars
             PROVE  IInv'
  OBVIOUS
<1>1. CASE Tick
  <2>1. stack = <<>> /\ stack' = <<>> /\ world' = world /\ now' \in 0..MaxTime
    BY <1>1, AccountAssumption DEF Tick, IInv, TypeOK
  <2> QED
    BY <2>1 DEF IInv, TypeOK, Consistent
<1>2. CASE Deploy
  <2>1. world' = [world EXCEPT !.code = TRUE] /\ stack' = stack /\ now' = now
    BY <1>2 DEF Deploy
  <2>2. /\ world' \in World /\ world'.code
        /\ world'.nonce = world.nonce /\ world'.executing = world.executing
        /\ world'.executed = world.executed
        /\ world'.performed = world.performed /\ world'.paid = world.paid
    BY <2>1 DEF IInv, TypeOK, World
  <2>3. ASSUME stack = <<>>, Consistent(world)
        PROVE  Consistent(world)'
    BY <2>2, <2>3 DEF Consistent
  <2>4. ASSUME NEW f \in Frame, stack = <<f>>, Progress(f)
        PROVE  Progress(f)'
    <3>1. CASE f.auth = Direct
      <4>1. world.code /\ world \in World
        BY <1>2, <2>4, <3>1 DEF Progress, DirectProgress, IInv, TypeOK, Frame, World
      <4>2. world' = world
        BY <2>1, <4>1 DEF World
      <4> QED
        BY <2>4, <2>1, <4>2 DEF Progress, DirectProgress, Consistent, BatchProgress, MayExecute
    <3>2. CASE f.auth # Direct
      BY <2>1, <2>2, <2>4, <3>2 DEF Progress, BatchProgress, MayExecute, Consistent
    <3> QED
      BY <3>1, <3>2
  <2> QED
    BY <2>1, <2>2, <2>3, <2>4 DEF IInv, TypeOK
<1>3. ASSUME NEW a \in Auths, Execute(a)
      PROVE  IInv'
  BY <1>3, EnterInv DEF Execute
<1>4. ASSUME NEW a \in Auths, DeployAndExecute(a)
      PROVE  IInv'
  BY <1>4, EnterInv DEF DeployAndExecute
<1>5. CASE ExecuteDirect
  BY <1>5, DirectInv
<1>6. CASE CallReturns
  BY <1>6, CallReturnsInv
<1>7. CASE FeeReturns
  BY <1>7, FeeReturnsInv
<1>8. CASE Revert
  BY <1>8, RevertInv
<1>9. CASE Return
  BY <1>9, ReturnInv
<1>10. CASE UNCHANGED vars
  BY <1>10 DEF vars, IInv, TypeOK, Consistent, Progress, BatchProgress,
               DirectProgress, MayExecute
<1> QED
  BY <1>1, <1>2, <1>3, <1>4, <1>5, <1>6, <1>7, <1>8, <1>9, <1>10 DEF Next

\* The inductive invariant holds in every reachable state.
THEOREM Invariance == Spec => []IInv
  BY InitInv, StepInv, PTL DEF Spec

\* The account's state stays well formed, whatever the batches and callees.
THEOREM TypeCorrect == Spec => []TypeOK
<1>1. IInv => TypeOK
  BY DEF IInv
<1> QED
  BY <1>1, Invariance, PTL

\* No callee re-enters a running batch (the executing flag).
THEOREM Reentrancy == Spec => []NoReentry
<1>1. IInv => NoReentry
  BY OneFrame DEF IInv, NoReentry
<1> QED
  BY <1>1, Invariance, PTL

\* The executing flag never outlives the transaction that set it.
THEOREM LockReset == Spec => []LockReleased
<1>1. IInv => LockReleased
  BY OneFrame DEF IInv, LockReleased, Consistent
<1> QED
  BY <1>1, Invariance, PTL

LEMMA SettledConsistent == IInv => Consistent(Settled)
<1>1. ASSUME IInv, stack = <<>>
      PROVE  Consistent(Settled)
  BY <1>1, OneFrame DEF IInv, Settled
<1>2. ASSUME IInv, stack # <<>>
      PROVE  Consistent(Settled)
  BY <1>2, OneFrame DEF IInv, Settled, Progress
<1> QED
  BY <1>1, <1>2

\* A batch takes effect whole, fee included, or not at all.
THEOREM Atomicity == Spec => []WholeBatchOrNothing
<1>1. IInv => WholeBatchOrNothing
  BY SettledConsistent DEF WholeBatchOrNothing, Consistent
<1> QED
  BY <1>1, Invariance, PTL

\* The nonces a consistent world has spent, and a batch more while one runs.
LEMMA SpentNonces == IInv => OncePerNonce /\ NoncesSpentInOrder
<1> SUFFICES ASSUME IInv
             PROVE  OncePerNonce /\ NoncesSpentInOrder
  OBVIOUS
<1>1. ASSUME NEW w \in World, Consistent(w)
      PROVE  /\ \A a \in w.executed : Signed[a].nonce \in 0..w.nonce
                                      /\ Signed[a].nonce < w.nonce
             /\ \A a, b \in w.executed :
                  Signed[a].nonce = Signed[b].nonce => a = b
             /\ \A n \in 0..w.nonce :
                  n < w.nonce => \E a \in w.executed : Signed[a].nonce = n
  BY <1>1, AccountAssumption DEF Consistent, World, SignedBatch
<1>2. CASE stack = <<>>
  <2>1. world \in World /\ Consistent(world)
    BY <1>2, OneFrame DEF IInv, TypeOK
  <2> QED
    BY <1>1, <2>1 DEF OncePerNonce, NoncesSpentInOrder
<1>3. CASE stack # <<>>
  <2>1. PICK f \in Frame : Progress(f)
    BY <1>3 DEF IInv
  <2>2. f.saved \in World /\ Consistent(f.saved) /\ world \in World
    BY <2>1 DEF Frame, Progress, IInv, TypeOK
  <2>3. CASE f.auth = Direct
    <3>1. world.nonce = f.saved.nonce /\ world.executed = f.saved.executed
      BY <2>1, <2>2, <2>3 DEF Progress, DirectProgress, World
    <3> QED
      BY <1>1, <2>2, <3>1 DEF OncePerNonce, NoncesSpentInOrder
  <2>4. CASE f.auth # Direct
    <3> DEFINE s == f.saved
               a == f.auth
    <3>1. /\ a \in Auths /\ Signed[a].nonce = s.nonce /\ s.nonce \in Nat
          /\ world.nonce = s.nonce + 1 /\ world.executed = s.executed \cup {a}
      BY <2>1, <2>2, <2>4 DEF Progress, BatchProgress, MayExecute, Frame, World
    <3>2. OncePerNonce
      BY <1>1, <2>2, <3>1 DEF OncePerNonce
    <3>3. NoncesSpentInOrder
      <4>1. ASSUME NEW b \in world.executed
            PROVE  Signed[b].nonce \in {n \in 0..world.nonce : n < world.nonce}
        <5>1. CASE b = a
          BY <3>1, <5>1
        <5>2. CASE b \in s.executed
          BY <1>1, <2>2, <3>1, <5>2
        <5> QED
          BY <3>1, <5>1, <5>2
      <4>2. ASSUME NEW n \in 0..world.nonce, n < world.nonce
            PROVE  \E b \in world.executed : Signed[b].nonce = n
        <5>1. CASE n = s.nonce
          BY <3>1, <5>1
        <5>2. CASE n # s.nonce
          BY <1>1, <2>2, <3>1, <4>2, <5>2
        <5> QED
          BY <5>1, <5>2
      <4> QED
        BY <4>1, <4>2 DEF NoncesSpentInOrder
    <3> QED
      BY <3>2, <3>3
  <2> QED
    BY <2>3, <2>4
<1> QED
  BY <1>2, <1>3

\* Of the batches signed for one nonce at most one is ever executed.
THEOREM ReplayProtection == Spec => []OncePerNonce
  BY SpentNonces, Invariance, PTL

\* The account spends its nonces one after the other.
THEOREM NonceOrder == Spec => []NoncesSpentInOrder
  BY SpentNonces, Invariance, PTL

(***************************************************************************)
(* Refinement: what the chain shows between transactions is a behaviour of *)
(* AccountAuthority.  A batch takes effect when its frame returns; every   *)
(* other step inside a transaction is invisible.                           *)
(***************************************************************************)
LEMMA SettledUnchanged ==
  ASSUME Settled' = Settled, now' = now
  PROVE  UNCHANGED Authority!vars
  BY DEF Authority!vars

LEMMA ReturnStep ==
  ASSUME IInv, Return
  PROVE  [Authority!Next]_(Authority!vars)
<1>1. PICK f \in Frame : stack = <<f>> /\ Progress(f) /\ Top = f
                         /\ Tail(stack) = <<>>
  BY OpenFrame DEF Return
<1>2. /\ stack' = <<>> /\ now' = now
      /\ world' = [world EXCEPT !.executing = FALSE]
      /\ f.left = 0 /\ ~f.feeDue
  BY <1>1 DEF Return
<1>3. Settled = f.saved /\ Settled' = world'
  BY <1>1, <1>2, OneFrame DEF Settled
<1>4. world \in World /\ f.saved \in World
  BY DEF IInv, TypeOK, Frame
<1>5. /\ world'.code = world.code /\ world'.nonce = world.nonce
      /\ world'.executed = world.executed
      /\ world'.performed = world.performed /\ world'.paid = world.paid
  BY <1>2, <1>4 DEF World
<1>6. CASE f.auth = Direct
  <2>1. /\ world.code = f.saved.code /\ world.nonce = f.saved.nonce
        /\ world.executed = f.saved.executed
        /\ world.performed = f.saved.performed /\ world.paid = f.saved.paid
    BY <1>1, <1>4, <1>6 DEF Progress, DirectProgress, World
  <2> QED
    BY <1>2, <1>3, <1>5, <2>1 DEF Authority!vars
<1>7. CASE f.auth # Direct
  <2>1. f.auth \in Auths
    BY <1>7 DEF Frame
  <2>2. BatchProgress(f)
    BY <1>1, <1>7 DEF Progress
  <2>3. Signed[f.auth].calls - f.left = Signed[f.auth].calls
    BY <1>2, <2>1, AccountAssumption DEF SignedBatch
  <2>4. f.saved.performed \in [Auths -> Nat]
    BY <1>4 DEF World
  <2>5. Authority!Execute(f.auth)
    BY <1>2, <1>3, <1>5, <2>2, <2>3, <2>4
    DEF BatchProgress, MayExecute, Authority!Execute
  <2> QED
    BY <2>1, <2>5 DEF Authority!Next
<1> QED
  BY <1>6, <1>7

LEMMA RefinementStep ==
  ASSUME IInv, IInv', [Next]_vars
  PROVE  [Authority!Next]_(Authority!vars)
<1>1. CASE Tick
  <2>1. stack' = stack /\ world' = world /\ now < MaxTime /\ now' = now + 1
    BY <1>1 DEF Tick
  <2>2. Settled' = Settled
    BY <2>1 DEF Settled
  <2> QED
    BY <2>1, <2>2 DEF Authority!Next, Authority!Tick
<1>2. CASE Deploy
  <2>1. world' = [world EXCEPT !.code = TRUE] /\ stack' = stack /\ now' = now
    BY <1>2 DEF Deploy
  <2>2. CASE stack = <<>>
    <3>1. Settled = world /\ Settled' = world'
      BY <2>1, <2>2, OneFrame DEF Settled
    <3>2. /\ world'.code /\ world'.nonce = world.nonce
          /\ world'.executed = world.executed
          /\ world'.performed = world.performed /\ world'.paid = world.paid
      BY <2>1 DEF IInv, TypeOK, World
    <3> QED
      BY <2>1, <3>1, <3>2 DEF IInv, TypeOK, World, Authority!Next, Authority!Deploy
  <2>3. CASE stack # <<>>
    <3>1. Settled' = Settled
      BY <2>1, <2>3 DEF Settled
    <3> QED
      BY <2>1, <3>1, SettledUnchanged
  <2> QED
    BY <2>2, <2>3
<1>3. ASSUME NEW a \in Auths, Enter(a)
      PROVE  Settled' = Settled /\ now' = now
  <2>1. stack = <<>>
    BY <1>3 DEF IInv, Progress, Enter, MayExecute
  <2>2. PICK f : f.saved = world /\ stack' = <<f>>
    BY <1>3, <2>1 DEF Enter, Push
  <2>3. Settled = world /\ Settled' = f.saved
    BY <2>1, <2>2, OneFrame DEF Settled
  <2> QED
    BY <1>3, <2>2, <2>3 DEF Enter
<1>4. CASE ExecuteDirect
  <2>1. PICK n \in 0..MaxDirectCalls : Push(Direct, n, FALSE)
    BY <1>4 DEF ExecuteDirect
  <2>2. stack = <<>> /\ now' = now
    BY <1>4 DEF ExecuteDirect
  <2>3. PICK f : f.saved = world /\ stack' = <<f>>
    BY <2>1, <2>2 DEF Push
  <2>4. Settled = world /\ Settled' = f.saved
    BY <2>2, <2>3, OneFrame DEF Settled
  <2> QED
    BY <2>2, <2>3, <2>4, SettledUnchanged
<1>5. ASSUME CallReturns \/ FeeReturns
      PROVE  Settled' = Settled /\ now' = now
  <2>1. PICK f \in Frame : stack = <<f>>
    BY <1>5, OpenFrame DEF CallReturns, FeeReturns
  <2>2. PICK g : stack' = <<g>> /\ g.saved = f.saved
    <3>1. CASE CallReturns
      <4>1. stack' = [stack EXCEPT ![1] = [stack[1] EXCEPT !.left = @ - 1]]
        BY <3>1 DEF CallReturns
      <4>2. [f EXCEPT !.left = @ - 1].saved = f.saved
        BY DEF Frame
      <4>3. stack' = <<[f EXCEPT !.left = @ - 1]>>
        BY <2>1, <4>1, OneFrame, ReplaceTop
      <4> QED
        BY <4>2, <4>3
    <3>2. CASE FeeReturns
      <4>1. stack' = [stack EXCEPT ![1] = [stack[1] EXCEPT !.feeDue = FALSE]]
        BY <3>2 DEF FeeReturns
      <4>2. [f EXCEPT !.feeDue = FALSE].saved = f.saved
        BY DEF Frame
      <4>3. stack' = <<[f EXCEPT !.feeDue = FALSE]>>
        BY <2>1, <4>1, OneFrame, ReplaceTop
      <4> QED
        BY <4>2, <4>3
    <3> QED
      BY <1>5, <3>1, <3>2
  <2>3. Settled = f.saved /\ Settled' = g.saved
    BY <2>1, <2>2, OneFrame DEF Settled
  <2> QED
    BY <1>5, <2>2, <2>3 DEF CallReturns, FeeReturns
<1>6. CASE Revert
  <2>1. PICK f \in Frame : stack = <<f>> /\ Top = f /\ Tail(stack) = <<>>
    BY <1>6, OpenFrame DEF Revert
  <2>2. Settled = f.saved /\ Settled' = f.saved /\ now' = now
    BY <1>6, <2>1, OneFrame DEF Settled, Revert
  <2> QED
    BY <2>2, SettledUnchanged
<1>7. CASE UNCHANGED vars
  BY <1>7, SettledUnchanged DEF vars, Settled
<1> QED
  BY <1>1, <1>2, <1>3, <1>4, <1>5, <1>6, <1>7, ReturnStep, SettledUnchanged
  DEF Next, Execute, DeployAndExecute

\* Whatever callees and relayers do, the account is an AccountAuthority.
THEOREM Implementation == Spec => ImplementsAuthority
<1>1. Init => Authority!Init
  BY OneFrame DEF Init, Authority!Init, Settled
<1>2. IInv /\ IInv' /\ [Next]_vars => [Authority!Next]_(Authority!vars)
  BY RefinementStep
<1> QED
  BY <1>1, <1>2, Invariance, PTL DEF Spec, ImplementsAuthority, Authority!Spec
=============================================================================
