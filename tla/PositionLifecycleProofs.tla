----------------------- MODULE PositionLifecycleProofs -----------------------
(***************************************************************************)
(* Proofs about the lifecycle of a position, for every number of batches   *)
(* and of tokens.  With losses, timeouts and reloads or without: what the  *)
(* saved record claims of the chain is true, and the user's return closes  *)
(* a position only when all its tokens are sold.  Without losses and       *)
(* reloads: a closed position has left nothing behind, and only the user's *)
(* sale ends a held one.                                                   *)
(***************************************************************************)
EXTENDS PositionLifecycle, TLAPS

Ops == {"none", "launch", "buy", "retry", "sell", "back", "giveBack"}

ChainTypes == {usdg, tokens, nonce} \subseteq Nat /\ delivered \in BOOLEAN

BatchTypes == batches \in Seq(Batch) /\ Len(batches) <= MaxBatches

FlowTypes ==
  /\ at \in [Flows -> Stages]
  /\ op \in [Flows -> Ops] /\ op["auto"] \in {"none", "back", "giveBack"}
  /\ take \in [Flows -> Nat] /\ left \in [Flows -> Nat]
  /\ tx \in [Flows -> 0..Len(batches)]
  /\ busy \in BOOLEAN

\* The stages in which a flow has signed a batch.
InFlight == {"posting", "mining", "confirming"}

\* A flow that runs has something to do; the batch it waits for is of the kind it
\* has signed, and was broadcast if its hash is known.
InOrder(a, o, t) ==
  /\ a \notin {"idle", "off"} => o # "none"
  /\ a \in InFlight => t # 0 /\ batches[t].kind = KindOf[o]
  /\ a \in {"mining", "confirming"} => batches[t].fate \in Broadcasted
  /\ a = "mining" => o = "launch"

LifeInv ==
  /\ ChainTypes /\ BatchTypes /\ FlowTypes /\ pos \in Record
  /\ \A f \in Flows : InOrder(at[f], op[f], tx[f])
  /\ {pos.launchTx, pos.buyTx, pos.sellTx} \subseteq 0..Len(batches)
  /\ HashesAreReal

\* A step that leaves the hashes of the record alone.
QuietRecord ==
  /\ pos' \in Record
  /\ pos'.launchTx = pos.launchTx /\ pos'.buyTx = pos.buyTx /\ pos'.sellTx = pos.sellTx

\* A step after which every flow is where it was, or waits for no batch.
Calm(a, o) == a \notin InFlight /\ (a \notin {"idle", "off"} => o # "none")

Harmless ==
  /\ FlowTypes'
  /\ \A f \in Flows : \/ at'[f] = at[f] /\ op'[f] = op[f] /\ tx'[f] = tx[f]
                      \/ Calm(at'[f], op'[f])

-----------------------------------------------------------------------------
LEMMA HarmlessKeeps ==
  ASSUME LifeInv, Harmless, QuietRecord, batches' = batches, ChainTypes'
  PROVE  LifeInv'
<1>1. BatchTypes'
  BY DEF LifeInv, BatchTypes
<1>2. ASSUME NEW f \in Flows PROVE InOrder(at[f], op[f], tx[f])'
  <2>1. CASE at'[f] = at[f] /\ op'[f] = op[f] /\ tx'[f] = tx[f]
    BY <2>1 DEF LifeInv, InOrder
  <2>2. CASE Calm(at'[f], op'[f])
    BY <2>2 DEF Calm, InOrder, InFlight
  <2> QED BY <2>1, <2>2 DEF Harmless
<1>3. /\ HashesAreReal'
      /\ ({pos.launchTx, pos.buyTx, pos.sellTx} \subseteq 0..Len(batches))'
  BY DEF LifeInv, HashesAreReal, QuietRecord
<1> QED BY <1>1, <1>2, <1>3 DEF LifeInv, Harmless, QuietRecord

LEMMA GotoHarmless ==
  ASSUME LifeInv, NEW f \in Flows, NEW stage \in Stages \ InFlight,
         stage \in {"idle", "off"} \/ op[f] # "none",
         Goto(f, stage), batches' = batches
  PROVE  Harmless
<1>1. /\ at' = [at EXCEPT ![f] = stage] /\ busy' \in BOOLEAN
      /\ UNCHANGED <<op, take, left, tx>>
  BY DEF Goto
<1>2. FlowTypes'
  BY <1>1 DEF LifeInv, FlowTypes
<1>3. Calm(at'[f], op'[f])
  BY <1>1 DEF LifeInv, FlowTypes, Calm
<1>4. \A g \in Flows : g # f => at'[g] = at[g] /\ op'[g] = op[g] /\ tx'[g] = tx[g]
  BY <1>1 DEF LifeInv, FlowTypes
<1> QED BY <1>2, <1>3, <1>4 DEF Harmless

\* A flow that begins or goes on with what it may do next, and is not in flight.
LEMMA BeginHarmless ==
  ASSUME LifeInv, NEW f \in Flows, NEW stage \in Stages \ InFlight,
         NEW o \in Ops \ {"none"}, f = "auto" => o \in {"back", "giveBack"},
         at' = [at EXCEPT ![f] = stage], op' = [op EXCEPT ![f] = o],
         take' \in [Flows -> Nat], left' \in [Flows -> Nat], tx' = tx,
         busy' \in BOOLEAN, batches' = batches
  PROVE  Harmless
<1>1. "auto" \in Flows
  BY DEF Flows
<1>2. FlowTypes'
  BY <1>1 DEF LifeInv, FlowTypes
<1>3. Calm(at'[f], op'[f])
  BY DEF LifeInv, FlowTypes, Calm
<1>4. \A g \in Flows : g # f => at'[g] = at[g] /\ op'[g] = op[g] /\ tx'[g] = tx[g]
  BY DEF LifeInv, FlowTypes
<1> QED BY <1>2, <1>3, <1>4 DEF Harmless

\* The statuses the flows save.
LEMMA StatusQuiet ==
  ASSUME LifeInv,
         NEW s \in {"none", "funding", "launching", "buying", "held", "selling",
                    "returning", "return-failed", "buy-failed", "failed", "closed"},
         NEW n \in Nat, NEW b \in BOOLEAN,
         pos' = [pos EXCEPT !.status = s, !.amount = n, !.certain = b]
  PROVE  QuietRecord
BY DEF LifeInv, Record, QuietRecord

LEMMA QuietFacts ==
  ASSUME LifeInv
  PROVE  /\ pos \in Record /\ pos.amount \in Nat /\ pos.certain \in BOOLEAN
         /\ pos = [pos EXCEPT !.amount = pos.amount, !.certain = pos.certain]
         /\ {"user", "auto"} = Flows
         /\ \A f \in Flows : /\ at[f] \notin {"idle", "off"} => op[f] # "none"
                             /\ op[f] \in Ops /\ left[f] \in Nat /\ take[f] \in Nat
                             /\ tx[f] \in 0..Len(batches)
         /\ pos' = pos => QuietRecord
BY DEF LifeInv, Record, QuietRecord, InOrder, FlowTypes, Flows

-----------------------------------------------------------------------------
(***************************************************************************)
(* The ways a flow fails.                                                  *)
(***************************************************************************)
LEMMA AwaitHarmless ==
  ASSUME LifeInv, AwaitReturn, op["user"] # "none", batches' = batches
  PROVE  Harmless
<1>1. {"user", "auto"} = Flows
  BY DEF Flows
<1>2. FlowTypes'
  BY <1>1 DEF LifeInv, FlowTypes, AwaitReturn, Stages, Ops
<1>3. \A f \in Flows : Calm(at'[f], op'[f])
  BY <1>1 DEF LifeInv, FlowTypes, AwaitReturn, Calm, InFlight
<1> QED BY <1>2, <1>3 DEF Harmless

LEMMA ReturnFailsHarmless ==
  ASSUME LifeInv, NEW f \in Flows, at[f] \notin {"idle", "off"}, ReturnFails(f),
         batches' = batches
  PROVE  Harmless /\ QuietRecord
<1>1. QuietRecord
  BY StatusQuiet DEF LifeInv, ReturnFails, Status, Record, QuietRecord
<1>2. PICK stage \in {"idle", "waiting"} : Goto(f, stage)
  BY DEF ReturnFails
<1>3. Harmless
  BY <1>2, GotoHarmless, QuietFacts DEF Stages, InFlight
<1> QED BY <1>1, <1>3

LEMMA FailsHarmless ==
  ASSUME LifeInv, NEW f \in Flows, at[f] \notin {"idle", "off"},
         NEW sure \in BOOLEAN, NEW noted \in BOOLEAN, Fails(f, sure, noted),
         batches' = batches
  PROVE  Harmless /\ QuietRecord
<1> USE QuietFacts
<1>1. ASSUME op[f] = "launch" \/ op[f] \in Purchases PROVE f = "user"
  BY <1>1 DEF LifeInv, FlowTypes, Flows, Purchases
<1>2. CASE op[f] = "launch" /\ LaunchFails(sure, noted)
  <2>1. QuietRecord
    BY <1>2 DEF LaunchFails, QuietRecord, Record
  <2>2. CASE AwaitReturn
    BY <1>1, <1>2, <2>1, <2>2, AwaitHarmless
  <2>3. CASE Goto("user", "idle")
    BY <1>1, <1>2, <2>1, <2>3, GotoHarmless DEF Stages, InFlight
  <2> QED BY <1>2, <2>2, <2>3, <2>1 DEF LaunchFails
<1>3. CASE op[f] \in Purchases /\ BuyFails(sure, noted)
  <2>1. QuietRecord
    BY <1>3 DEF BuyFails, QuietRecord, Record
  <2>2. CASE AwaitReturn
    BY <1>1, <1>3, <2>1, <2>2, AwaitHarmless DEF Purchases
  <2>3. CASE Goto("user", "idle")
    BY <1>1, <1>3, <2>1, <2>3, GotoHarmless DEF Stages, InFlight
  <2> QED BY <1>3, <2>2, <2>3, <2>1 DEF BuyFails
<1>4. CASE op[f] = "sell" /\ Status("held") /\ Goto(f, "idle")
  <2>1. QuietRecord
    BY <1>4 DEF Status, QuietRecord, Record
  <2> QED BY <1>4, <2>1, GotoHarmless DEF Stages, InFlight
<1>5. CASE op[f] \in {"back", "giveBack"} /\ ReturnFails(f)
  BY <1>5, ReturnFailsHarmless
<1> QED BY <1>2, <1>3, <1>4, <1>5 DEF Fails

-----------------------------------------------------------------------------
(***************************************************************************)
(* The steps of a flow.                                                    *)
(***************************************************************************)
LEMMA SignKeeps ==
  ASSUME LifecycleAssumption, LifeInv, NEW f \in Flows, Sign(f)
  PROVE  LifeInv'
<1> USE QuietFacts
<1> DEFINE b == [kind |-> KindOf[op[f]], nonce |-> nonce, amount |-> take[f],
                 fate |-> "posted"]
<1>1. op[f] \in DOMAIN KindOf
  BY DEF Sign, KindOf, Ops
<1>2. b \in Batch
  BY <1>1 DEF LifeInv, ChainTypes, KindOf, Batch
<1>3. MaxBatches \in Nat /\ Len(batches) \in Nat
  BY DEF LifecycleAssumption, LifeInv, BatchTypes
<1>4. /\ batches' = Append(batches, b) /\ Len(batches) < MaxBatches
      /\ at' = [at EXCEPT ![f] = "posting"] /\ tx' = [tx EXCEPT ![f] = Len(batches) + 1]
      /\ at[f] = "signing"
      /\ UNCHANGED <<chain, pos, op, take, left, busy>>
  BY DEF Sign
<1>b. b.kind = KindOf[op[f]]
  OBVIOUS
<1> HIDE DEF b
<1>5. /\ BatchTypes' /\ Len(batches') = Len(batches) + 1
      /\ batches'[Len(batches) + 1] = b
      /\ \A i \in 1..Len(batches) : batches'[i] = batches[i]
  BY <1>2, <1>3, <1>4 DEF LifeInv, BatchTypes
<1>6. FlowTypes'
  <2>1. at' \in [Flows -> Stages]
    BY <1>4 DEF LifeInv, FlowTypes, Stages
  <2>2. tx' \in [Flows -> 0..Len(batches')]
    <3>1. 0..Len(batches) \subseteq 0..Len(batches')
      BY <1>3, <1>5
    <3>2. Len(batches) + 1 \in 0..Len(batches')
      BY <1>3, <1>5
    <3> QED BY <1>4, <3>1, <3>2 DEF LifeInv, FlowTypes
  <2> QED BY <1>4, <2>1, <2>2 DEF LifeInv, FlowTypes
<1>7. InOrder(at[f], op[f], tx[f])'
  <2>1. at'[f] = "posting" /\ tx'[f] = Len(batches) + 1 /\ op'[f] = op[f]
    BY <1>4 DEF LifeInv, FlowTypes
  <2>2. op[f] # "none" /\ batches'[tx'[f]].kind = KindOf[op[f]] /\ tx'[f] # 0
    BY <2>1, <1>3, <1>4, <1>5, <1>b
  <2> QED BY <2>1, <2>2 DEF InOrder
<1>8. ASSUME NEW g \in Flows \ {f} PROVE InOrder(at[g], op[g], tx[g])'
  <2>1. at'[g] = at[g] /\ op'[g] = op[g] /\ tx'[g] = tx[g]
    BY <1>4 DEF LifeInv, FlowTypes
  <2>2. InOrder(at[g], op[g], tx[g])
    BY DEF LifeInv
  <2>3. at[g] \in InFlight => tx[g] \in 1..Len(batches)
    BY <2>2, <1>3 DEF InOrder
  <2> QED BY <2>1, <2>2, <2>3, <1>5 DEF InOrder, InFlight
<1>9. (\A g \in Flows : InOrder(at[g], op[g], tx[g]))'
  BY <1>7, <1>8
<1>10. HashesAreReal'
  <2>1. \A n \in {pos.launchTx, pos.buyTx, pos.sellTx} :
          n # 0 => batches'[n] = batches[n]
    BY <1>3, <1>5 DEF LifeInv
  <2>2. pos' = pos
    BY <1>4
  <2> QED BY <2>1, <2>2 DEF LifeInv, HashesAreReal
<1>11. ({pos.launchTx, pos.buyTx, pos.sellTx} \subseteq 0..Len(batches))'
  BY <1>3, <1>4, <1>5 DEF LifeInv
<1> QED BY <1>4, <1>5, <1>6, <1>9, <1>10, <1>11 DEF LifeInv, ChainTypes, chain

\* The hash of a flow that knows it.
LEMMA AcceptedKeeps ==
  ASSUME LifecycleAssumption, LifeInv, NEW f \in Flows, Accepted(f)
  PROVE  LifeInv'
<1> USE QuietFacts
<1>1. /\ at[f] = "posting" /\ batches[tx[f]].fate \in Broadcasted
      /\ batches' = batches /\ UNCHANGED <<chain, op, take, left, tx>>
      /\ at' = [at EXCEPT ![f] = IF op[f] = "launch" THEN "mining" ELSE "confirming"]
      /\ busy' \in BOOLEAN
  BY DEF Accepted, Goto, Fate
<1>2. op[f] # "none" /\ tx[f] # 0 /\ batches[tx[f]].kind = KindOf[op[f]]
  BY <1>1 DEF LifeInv, InOrder, InFlight
<1>3. ChainTypes' /\ BatchTypes' /\ FlowTypes'
  BY <1>1 DEF LifeInv, ChainTypes, BatchTypes, FlowTypes, Stages, chain
<1>4. ASSUME NEW g \in Flows PROVE InOrder(at[g], op[g], tx[g])'
  <2>1. CASE g = f
    <3>1. /\ at'[g] \in {"mining", "confirming"} /\ op'[g] = op[f] /\ tx'[g] = tx[f]
          /\ at'[g] = "mining" => op[f] = "launch"
      BY <1>1, <2>1 DEF LifeInv, FlowTypes
    <3> QED BY <1>1, <1>2, <2>1, <3>1 DEF InOrder
  <2>2. CASE g # f
    <3>1. at'[g] = at[g] /\ op'[g] = op[g] /\ tx'[g] = tx[g] /\ InOrder(at[g], op[g], tx[g])
      BY <1>1, <2>2 DEF LifeInv, FlowTypes
    <3> QED BY <1>1, <3>1 DEF InOrder
  <2> QED BY <2>1, <2>2
<1>5. tx[f] \in 0..MaxBatches /\ tx[f] \in 0..Len(batches)
  BY DEF LifecycleAssumption, LifeInv, BatchTypes
<1>6. CASE op[f] \in Purchases
  <2>1. pos' = [pos EXCEPT !.status = "buying", !.buyTx = tx[f]]
    BY <1>6 DEF Accepted, Purchases
  <2>2. /\ pos' \in Record /\ pos'.buyTx = tx[f]
        /\ pos'.launchTx = pos.launchTx /\ pos'.sellTx = pos.sellTx
    BY <1>5, <2>1 DEF Record
  <2>3. KindOf[op[f]] = "buy"
    BY <1>6 DEF Purchases, KindOf
  <2>4. HashesAreReal' /\ ({pos.launchTx, pos.buyTx, pos.sellTx} \subseteq 0..Len(batches))'
    BY <1>1, <1>2, <1>5, <2>2, <2>3 DEF LifeInv, HashesAreReal
  <2> QED BY <1>3, <1>4, <2>2, <2>4 DEF LifeInv
<1>7. CASE op[f] = "sell"
  <2>1. pos' = [pos EXCEPT !.status = "selling", !.sellTx = tx[f]]
    BY <1>7 DEF Accepted, Purchases
  <2>2. /\ pos' \in Record /\ pos'.sellTx = tx[f]
        /\ pos'.launchTx = pos.launchTx /\ pos'.buyTx = pos.buyTx
    BY <1>5, <2>1 DEF Record
  <2>3. KindOf[op[f]] = "sell"
    BY <1>7 DEF KindOf
  <2>4. HashesAreReal' /\ ({pos.launchTx, pos.buyTx, pos.sellTx} \subseteq 0..Len(batches))'
    BY <1>1, <1>2, <1>5, <2>2, <2>3 DEF LifeInv, HashesAreReal
  <2> QED BY <1>3, <1>4, <2>2, <2>4 DEF LifeInv
<1>8. CASE op[f] \notin Purchases \cup {"sell"}
  <2>1. pos' = pos
    BY <1>8 DEF Accepted
  <2> QED BY <1>1, <1>3, <1>4, <2>1 DEF LifeInv, HashesAreReal
<1> QED BY <1>6, <1>7, <1>8

LEMMA LaunchedKeeps ==
  ASSUME LifecycleAssumption, LifeInv, Launched
  PROVE  LifeInv'
<1> USE QuietFacts
<1>1. /\ at["user"] = "mining" /\ batches[tx["user"]].fate = "executed"
      /\ batches' = batches /\ UNCHANGED <<chain, op, take, left, tx>>
      /\ at' = [at EXCEPT !["user"] = "confirming"] /\ busy' \in BOOLEAN
      /\ pos' = [pos EXCEPT !.launchTx = tx["user"]]
  BY DEF LifeInv, FlowTypes, Launched, Goto, Fate
<1>2. /\ tx["user"] # 0 /\ batches[tx["user"]].kind = KindOf["launch"]
      /\ op["user"] = "launch"
  BY <1>1 DEF LifeInv, InOrder, InFlight
<1>3. ChainTypes' /\ BatchTypes' /\ FlowTypes'
  BY <1>1 DEF LifeInv, ChainTypes, BatchTypes, FlowTypes, Stages, chain
<1>4. ASSUME NEW g \in Flows PROVE InOrder(at[g], op[g], tx[g])'
  <2>1. CASE g = "user"
    <3>1. at'[g] = "confirming" /\ op'[g] = "launch" /\ tx'[g] = tx["user"]
      BY <1>1, <1>2, <2>1 DEF LifeInv, FlowTypes
    <3> QED BY <1>1, <1>2, <3>1 DEF InOrder, Broadcasted
  <2>2. CASE g # "user"
    <3>1. at'[g] = at[g] /\ op'[g] = op[g] /\ tx'[g] = tx[g] /\ InOrder(at[g], op[g], tx[g])
      BY <1>1, <2>2 DEF LifeInv, FlowTypes
    <3> QED BY <1>1, <3>1 DEF InOrder
  <2> QED BY <2>1, <2>2
<1>5. tx["user"] \in 0..MaxBatches /\ tx["user"] \in 0..Len(batches)
  BY DEF LifecycleAssumption, LifeInv, BatchTypes
<1>6. /\ pos' \in Record /\ pos'.launchTx = tx["user"]
      /\ pos'.buyTx = pos.buyTx /\ pos'.sellTx = pos.sellTx
  BY <1>1, <1>5 DEF Record
<1>7. HashesAreReal' /\ ({pos.launchTx, pos.buyTx, pos.sellTx} \subseteq 0..Len(batches))'
  BY <1>1, <1>2, <1>5, <1>6 DEF LifeInv, HashesAreReal, KindOf
<1> QED BY <1>3, <1>4, <1>6, <1>7 DEF LifeInv

\* A flow goes on: its stage may change, its work and its batch do not.
LEMMA GoesOn ==
  ASSUME LifeInv, NEW f \in Flows, at[f] \notin {"idle", "off"},
         NEW stage \in Stages \ InFlight, Goto(f, stage),
         QuietRecord, UNCHANGED <<chain, batches>>
  PROVE  LifeInv'
<1>1. Harmless
  BY QuietFacts, GotoHarmless
<1>2. ChainTypes'
  BY DEF LifeInv, ChainTypes, chain
<1> QED BY <1>1, <1>2, HarmlessKeeps

LEMMA FailureKeeps ==
  ASSUME LifeInv, NEW f \in Flows, at[f] \notin {"idle", "off"},
         NEW sure \in BOOLEAN, NEW noted \in BOOLEAN, Fails(f, sure, noted),
         UNCHANGED <<chain, batches>>
  PROVE  LifeInv'
<1>1. Harmless /\ QuietRecord
  BY FailsHarmless
<1>2. ChainTypes'
  BY DEF LifeInv, ChainTypes, chain
<1> QED BY <1>1, <1>2, HarmlessKeeps

\* A flow begins a part of its work.
LEMMA BeginKeeps ==
  ASSUME LifeInv, NEW f \in Flows, NEW stage \in Stages \ InFlight,
         NEW o \in Ops \ {"none"}, f = "auto" => o \in {"back", "giveBack"},
         at' = [at EXCEPT ![f] = stage], op' = [op EXCEPT ![f] = o],
         take' \in [Flows -> Nat], left' \in [Flows -> Nat], tx' = tx,
         busy' \in BOOLEAN, QuietRecord, UNCHANGED <<chain, batches>>
  PROVE  LifeInv'
<1>1. Harmless
  BY BeginHarmless
<1>2. ChainTypes'
  BY DEF LifeInv, ChainTypes, chain
<1> QED BY <1>1, <1>2, HarmlessKeeps

\* Only the record changes.
LEMMA RecordKeeps ==
  ASSUME LifeInv, QuietRecord, UNCHANGED <<chain, batches, flow>>
  PROVE  LifeInv'
<1>1. Harmless
  BY DEF LifeInv, FlowTypes, Harmless, flow
<1>2. ChainTypes'
  BY DEF LifeInv, ChainTypes, chain
<1> QED BY <1>1, <1>2, HarmlessKeeps, batches' = batches

LEMMA StepKeeps ==
  ASSUME LifecycleAssumption, LifeInv, NEW f \in Flows, Step(f)
  PROVE  LifeInv'
<1> USE QuietFacts
<1>1. CASE Sign(f)
  BY <1>1, SignKeeps
<1>2. CASE SigningFails(f)
  BY <1>2, FailureKeeps DEF SigningFails
<1>3. CASE Accepted(f)
  BY <1>3, AcceptedKeeps
<1>4. CASE Rejected(f)
  BY <1>4, FailureKeeps DEF Rejected
<1>5. CASE NoAnswer(f)
  BY <1>5, FailureKeeps DEF NoAnswer
<1>6. CASE ReturnConfirmed(f)
  BY <1>6, GoesOn DEF ReturnConfirmed, Stages, InFlight
<1>7. CASE ConfirmedReverted(f)
  BY <1>7, FailureKeeps DEF ConfirmedReverted
<1>8. CASE NoReceipt(f)
  <2>0. at[f] = "confirming" /\ UNCHANGED <<chain, batches>>
    BY <1>8 DEF NoReceipt
  <2>1. CASE op[f] \in Purchases /\ BuyFails(FALSE, FALSE)
    BY <2>0, <2>1, FailureKeeps DEF Fails
  <2>2. CASE op[f] = "launch" /\ Status("launching") /\ Goto(f, "idle")
    <3>1. QuietRecord
      BY <2>2 DEF Status, QuietRecord, Record
    <3> QED BY <2>0, <2>2, <3>1, GoesOn DEF Stages, InFlight
  <2>3. CASE op[f] = "sell" /\ Status("selling") /\ Goto(f, "idle")
    <3>1. QuietRecord
      BY <2>3 DEF Status, QuietRecord, Record
    <3> QED BY <2>0, <2>3, <3>1, GoesOn DEF Stages, InFlight
  <2>4. CASE op[f] \in {"back", "giveBack"} /\ ReturnFails(f)
    BY <2>0, <2>4, FailureKeeps DEF Fails
  <2> QED BY <1>8, <2>1, <2>2, <2>3, <2>4 DEF NoReceipt
<1>9. CASE ReturnFunds(f)
  <2>1. /\ at[f] = "reading" /\ UNCHANGED <<chain, batches, pos, op, left, tx, busy>>
        /\ at' = [at EXCEPT ![f] = "signing"] /\ take' \in [Flows -> Nat]
    BY <1>9 DEF ReturnFunds, LifeInv, ChainTypes, FlowTypes
  <2>2. op[f] \in Ops \ {"none"} /\ (f = "auto" => op[f] \in {"back", "giveBack"})
    BY <2>1 DEF LifeInv, FlowTypes
  <2>3. op' = [op EXCEPT ![f] = op[f]] /\ left' \in [Flows -> Nat] /\ busy' \in BOOLEAN
    BY <2>1 DEF LifeInv, FlowTypes
  <2> QED BY <2>1, <2>2, <2>3, BeginKeeps DEF Stages, InFlight
<1>10. CASE ReturnRest(f)
  BY <1>10, GoesOn DEF ReturnRest, Stages, InFlight
<1>11. CASE NothingToReturn(f)
  <2>1. /\ at[f] = "reading" /\ op[f] = "back" /\ UNCHANGED <<chain, batches>>
    BY <1>11 DEF NothingToReturn
  <2>2. CASE /\ pos' = [pos EXCEPT !.status = "closed", !.amount = left[f]]
             /\ Goto(f, "off")
    <3>1. QuietRecord
      BY <2>2 DEF QuietRecord, Record
    <3> QED BY <2>1, <2>2, <3>1, GoesOn DEF Stages, InFlight
  <2>3. CASE ReturnFails(f)
    BY <2>1, <2>3, FailureKeeps DEF Fails
  <2> QED BY <1>11, <2>2, <2>3 DEF NothingToReturn
<1>12. CASE Returned(f)
  <2>1. QuietRecord
    BY <1>12 DEF Returned, QuietRecord, Record
  <2>2. PICK stage \in {"idle", "off", "done"} : Goto(f, stage)
    BY <1>12 DEF Returned
  <2> QED BY <1>12, <2>1, <2>2, GoesOn DEF Returned, Stages, InFlight
<1>13. CASE ReturnThrows(f)
  <2>1. Harmless /\ QuietRecord
    BY <1>13, ReturnFailsHarmless DEF ReturnThrows
  <2>2. ChainTypes'
    BY <1>13 DEF ReturnThrows, LifeInv, ChainTypes, chain
  <2> QED BY <1>13, <2>1, <2>2, HarmlessKeeps DEF ReturnThrows
<1> QED BY <1>1, <1>2, <1>3, <1>4, <1>5, <1>6, <1>7, <1>8, <1>9, <1>10, <1>11,
           <1>12, <1>13 DEF Step

-----------------------------------------------------------------------------
(***************************************************************************)
(* The user, the timer, and the page.                                      *)
(***************************************************************************)
LEMMA UserFlowKeeps ==
  ASSUME LifecycleAssumption, LifeInv, UserFlow
  PROVE  LifeInv'
<1> USE QuietFacts
<1>1. CASE LaunchFunded
  <2>1. QuietRecord
    BY <1>1 DEF LaunchFunded, Status, QuietRecord, Record
  <2> QED BY <1>1, <2>1, GoesOn DEF LaunchFunded, Stages, InFlight
<1>2. CASE Launched
  BY <1>2, LaunchedKeeps
<1>3. CASE LaunchThrows
  <2>1. op["user"] = "launch"
    BY <1>3 DEF LaunchThrows, LifeInv, InOrder
  <2> QED BY <1>3, <2>1, FailureKeeps DEF LaunchThrows, Fails
<1>4. CASE LaunchConfirmed
  <2>1. QuietRecord
    BY <1>4 DEF LaunchConfirmed, Status, QuietRecord, Record
  <2>2. take' \in [Flows -> Nat] /\ left' \in [Flows -> Nat]
    BY <1>4 DEF LaunchConfirmed, LifeInv, FlowTypes
  <2> QED BY <1>4, <2>1, <2>2, BeginKeeps DEF LaunchConfirmed, Begin, Stages, InFlight, Ops
<1>5. CASE Funded
  <2>1. QuietRecord
    BY <1>5 DEF Funded, Status, QuietRecord, Record
  <2> QED BY <1>5, <2>1, GoesOn DEF Funded, Stages, InFlight
<1>6. CASE FundingFails
  <2>1. QuietRecord
    BY <1>6 DEF FundingFails, QuietRecord, Record
  <2> QED BY <1>6, <2>1, GoesOn DEF FundingFails, Stages, InFlight
<1>7. CASE SeeUsdg
  <2>1. /\ at["user"] = "quoting" /\ UNCHANGED <<chain, batches, pos, op, left, tx>>
        /\ at' = [at EXCEPT !["user"] = "signing"] /\ busy' = TRUE
        /\ take' \in [Flows -> Nat] /\ left' \in [Flows -> Nat]
    BY <1>7 DEF SeeUsdg, Begin, LifeInv, FlowTypes
  <2>2. op["user"] \in Ops \ {"none"}
    BY <2>1
  <2>3. op' = [op EXCEPT !["user"] = op["user"]]
    BY <2>1 DEF LifeInv, FlowTypes
  <2> QED BY <2>1, <2>2, <2>3, BeginKeeps DEF Stages, InFlight
<1>8. CASE MissUsdg
  <2>1. QuietRecord
    BY <1>8 DEF MissUsdg, BuyFails, QuietRecord, Record
  <2>2. Goto("user", "idle") /\ at["user"] = "quoting" /\ UNCHANGED <<chain, batches>>
    BY <1>8 DEF MissUsdg, BuyFails
  <2> QED BY <2>1, <2>2, GoesOn DEF Stages, InFlight
<1>9. CASE BuyConfirmed
  <2>1. QuietRecord
    BY <1>9 DEF BuyConfirmed, QuietRecord, Record, LifecycleAssumption
  <2> QED BY <1>9, <2>1, GoesOn DEF BuyConfirmed, Stages, InFlight
<1>10. CASE SellConfirmed
  <2>1. QuietRecord
    BY <1>10 DEF SellConfirmed, QuietRecord, Record
  <2>2. take' \in [Flows -> Nat] /\ left' \in [Flows -> Nat]
    BY <1>10 DEF SellConfirmed, LifeInv, FlowTypes
  <2> QED BY <1>10, <2>1, <2>2, BeginKeeps DEF SellConfirmed, Begin, Stages, InFlight, Ops
<1>11. CASE CatchEnds
  <2>1. /\ at["user"] = "catching" /\ UNCHANGED <<chain, batches, pos, op, take, left, tx, busy>>
        /\ at' = [at EXCEPT !["user"] = "idle"]
    BY <1>11 DEF CatchEnds
  <2>2. op["user"] \in Ops \ {"none"}
    BY <2>1
  <2>3. /\ op' = [op EXCEPT !["user"] = op["user"]] /\ busy' \in BOOLEAN
        /\ take' \in [Flows -> Nat] /\ left' \in [Flows -> Nat] /\ QuietRecord
    BY <2>1 DEF LifeInv, FlowTypes
  <2> QED BY <2>1, <2>2, <2>3, BeginKeeps DEF Stages, InFlight
<1>12. CASE Step("user")
  BY <1>12, StepKeeps
<1> QED BY <1>1, <1>2, <1>3, <1>4, <1>5, <1>6, <1>7, <1>8, <1>9, <1>10, <1>11,
           <1>12 DEF UserFlow

LEMMA AutoFlowKeeps ==
  ASSUME LifecycleAssumption, LifeInv, AutoFlow
  PROVE  LifeInv'
<1> USE QuietFacts
<1>1. CASE AutoStarts
  <2>1. QuietRecord
    BY <1>1 DEF AutoStarts, Status, QuietRecord, Record
  <2>2. /\ at["auto"] = "starting" /\ UNCHANGED <<chain, batches, op, take, left, tx>>
        /\ at' = [at EXCEPT !["auto"] = "reading"] /\ busy' = TRUE
    BY <1>1 DEF AutoStarts, Begin
  <2>3. op["auto"] \in {"back", "giveBack"} /\ op' = [op EXCEPT !["auto"] = op["auto"]]
    BY <2>2 DEF LifeInv, FlowTypes
  <2>4. take' \in [Flows -> Nat] /\ left' \in [Flows -> Nat]
    BY <2>2 DEF LifeInv, FlowTypes
  <2> QED BY <2>1, <2>2, <2>3, <2>4, BeginKeeps DEF Stages, InFlight, Ops
<1>2. CASE TimerFires
  BY <1>2, GoesOn DEF TimerFires, Stages, InFlight
<1>3. CASE Step("auto")
  BY <1>3, StepKeeps
<1> QED BY <1>1, <1>2, <1>3 DEF AutoFlow

LEMMA ClickKeeps ==
  ASSUME LifeInv, Click
  PROVE  LifeInv'
<1> USE QuietFacts
<1>0. take \in [Flows -> Nat] /\ left \in [Flows -> Nat] /\ tokens \in Nat
  BY DEF LifeInv, FlowTypes, ChainTypes
<1>1. CASE StartLaunch
  <2>1. QuietRecord
    BY <1>1 DEF StartLaunch, Status, QuietRecord, Record
  <2> QED BY <1>0, <1>1, <2>1, BeginKeeps DEF StartLaunch, Begin, Stages, InFlight, Ops
<1>2. CASE StartBuy
  <2>1. QuietRecord
    BY <1>2 DEF StartBuy, Status, QuietRecord, Record
  <2> QED BY <1>0, <1>2, <2>1, BeginKeeps DEF StartBuy, Begin, Stages, InFlight, Ops
<1>3. CASE RetryBuy
  <2>1. QuietRecord
    BY <1>3 DEF RetryBuy, Status, QuietRecord, Record
  <2> QED BY <1>0, <1>3, <2>1, BeginKeeps DEF RetryBuy, Begin, Stages, InFlight, Ops
<1>4. CASE CheckNothing
  <2>1. QuietRecord
    BY <1>4 DEF CheckNothing, QuietRecord, Record
  <2> QED BY <1>4, <2>1, RecordKeeps DEF CheckNothing
<1>5. CASE CheckReverted
  <2>1. QuietRecord
    BY <1>5 DEF CheckReverted, QuietRecord, Record
  <2> QED BY <1>5, <2>1, RecordKeeps DEF CheckReverted
<1>6. CASE CheckLaunch
  <2>1. QuietRecord
    BY <1>6 DEF CheckLaunch, QuietRecord, Record
  <2> QED BY <1>6, <2>1, RecordKeeps DEF CheckLaunch
<1>7. CASE CheckBuy
  <2>1. QuietRecord
    BY <1>0, <1>7 DEF CheckBuy, QuietRecord, Record
  <2> QED BY <1>7, <2>1, RecordKeeps DEF CheckBuy
<1>8. CASE CheckSell
  <2>1. QuietRecord
    BY <1>0, <1>8 DEF CheckSell, QuietRecord, Record
  <2>2. left' \in [Flows -> Nat]
    BY <1>0, <1>8 DEF CheckSell
  <2> QED BY <1>0, <1>8, <2>1, <2>2, BeginKeeps DEF CheckSell, Begin, Stages, InFlight, Ops
<1>9. ASSUME NEW n \in 1..TokensPerBuy, StartSell(n) PROVE LifeInv'
  <2>1. QuietRecord
    BY <1>0, <1>9 DEF StartSell, QuietRecord, Record
  <2>2. n \in Nat /\ tokens - n \in Nat
    BY <1>0, <1>9 DEF StartSell
  <2>3. take' \in [Flows -> Nat] /\ left' \in [Flows -> Nat]
    BY <1>0, <1>9, <2>2 DEF StartSell
  <2> QED BY <1>9, <2>1, <2>3, BeginKeeps DEF StartSell, Begin, Stages, InFlight, Ops
<1> QED BY <1>1, <1>2, <1>3, <1>4, <1>5, <1>6, <1>7, <1>8, <1>9 DEF Click

LEMMA ReloadKeeps ==
  ASSUME LifeInv, Reload
  PROVE  LifeInv'
<1> USE QuietFacts
<1>1. FlowTypes'
  <2>1. at' \in [Flows -> Stages]
    BY DEF Reload, Stages
  <2>2. op' \in [Flows -> Ops] /\ op'["auto"] \in {"none", "back", "giveBack"}
    BY DEF Reload, Ops
  <2>3. take' \in [Flows -> Nat] /\ left' \in [Flows -> Nat] /\ busy' \in BOOLEAN
    BY DEF Reload
  <2>4. tx' \in [Flows -> 0..Len(batches)] /\ batches' = batches
    BY DEF Reload, LifeInv, BatchTypes
  <2> QED BY <2>1, <2>2, <2>3, <2>4 DEF FlowTypes
<1>2. \A f \in Flows : Calm(at'[f], op'[f])
  BY DEF Reload, Calm, InFlight
<1>3. QuietRecord /\ batches' = batches /\ ChainTypes'
  BY DEF Reload, LifeInv, ChainTypes, chain
<1> QED BY <1>1, <1>2, <1>3, HarmlessKeeps DEF Harmless

-----------------------------------------------------------------------------
(***************************************************************************)
(* The chain: what is broadcast stays so, and what is executed too.        *)
(***************************************************************************)
LEMMA FatesKeep ==
  ASSUME LifeInv, ChainTypes', UNCHANGED <<pos, flow>>,
         NEW i \in DOMAIN batches,
         NEW fate \in {"pending", "executed", "reverted", "refused"},
         batches' = [batches EXCEPT ![i].fate = fate],
         batches[i].fate \notin {"executed", "reverted", "refused"},
         batches[i].fate = "pending" => fate \in {"executed", "reverted"}
  PROVE  LifeInv'
<1>1. batches \in Seq(Batch) /\ i \in 1..Len(batches) /\ batches[i] \in Batch
  BY DEF LifeInv, BatchTypes
<1>2. batches[i].fate \in {"posted", "pending"}
  BY <1>1 DEF Batch
<1> DEFINE b == [batches[i] EXCEPT !.fate = fate]
<1>3. b \in Batch /\ b.kind = batches[i].kind /\ b.fate = fate
  BY <1>1 DEF Batch
<1>4. batches' = [batches EXCEPT ![i] = b]
  OBVIOUS
<1> HIDE DEF b
<1>5. batches' \in Seq(Batch) /\ Len(batches') = Len(batches)
  BY <1>1, <1>3, <1>4
<1>6. ASSUME NEW n \in 1..Len(batches)
      PROVE  /\ batches'[n].kind = batches[n].kind
             /\ batches[n].fate \in Broadcasted => batches'[n].fate \in Broadcasted
             /\ batches[n].fate = "executed" => batches'[n].fate = "executed"
  <2>1. CASE n = i
    <3>1. batches'[n] = b
      BY <1>1, <1>4, <2>1
    <3> QED BY <1>2, <1>3, <2>1, <3>1 DEF Broadcasted
  <2>2. CASE n # i
    <3>1. batches'[n] = batches[n]
      BY <1>1, <1>4, <2>2
    <3> QED BY <3>1
  <2> QED BY <2>1, <2>2
<1>7. FlowTypes' /\ BatchTypes'
  BY <1>5 DEF LifeInv, FlowTypes, BatchTypes, flow
<1>8. ASSUME NEW f \in Flows PROVE InOrder(at[f], op[f], tx[f])'
  <2>1. at'[f] = at[f] /\ op'[f] = op[f] /\ tx'[f] = tx[f]
    BY DEF flow
  <2>2. InOrder(at[f], op[f], tx[f])
    BY DEF LifeInv
  <2>3. at[f] \in InFlight => tx[f] \in 1..Len(batches)
    BY <1>1, <2>2 DEF InOrder, LifeInv, FlowTypes
  <2> QED BY <1>6, <2>1, <2>2, <2>3 DEF InOrder, InFlight
<1>9. HashesAreReal'
  <2>1. \A n \in {pos.launchTx, pos.buyTx, pos.sellTx} : n # 0 => n \in 1..Len(batches)
    BY <1>1 DEF LifeInv
  <2> QED BY <1>6, <2>1 DEF LifeInv, HashesAreReal
<1> QED BY <1>5, <1>7, <1>8, <1>9 DEF LifeInv

LEMMA ChainKeeps ==
  ASSUME LifecycleAssumption, LifeInv, Chain
  PROVE  LifeInv'
<1>1. PICK i \in DOMAIN batches : Handle(i) \/ Include(i) \/ IncludeReverted(i)
  BY DEF Chain
<1>2. batches[i] \in Batch
  BY DEF LifeInv, BatchTypes
<1>3. CASE Handle(i)
  BY <1>3, FatesKeep DEF Handle, Decide, LifeInv, ChainTypes, chain
<1>4. CASE Include(i)
  <2>1. nonce' \in Nat /\ delivered' \in BOOLEAN
    BY <1>4 DEF Include, LifeInv, ChainTypes
  <2>2. batches[i].amount \in Nat /\ TokensPerBuy \in Nat
    BY <1>2 DEF Batch, LifecycleAssumption
  <2>3. usdg' \in Nat /\ tokens' \in Nat
    <3>1. batches[i].kind \in {"launch", "buy", "sell", "back"}
      BY <1>2 DEF Batch
    <3>2. CASE batches[i].kind = "launch"
      BY <1>4, <3>2 DEF Include, LifeInv, ChainTypes
    <3>3. CASE batches[i].kind = "buy"
      BY <1>4, <2>2, <3>3 DEF Include, LifeInv, ChainTypes
    <3>4. CASE batches[i].kind = "sell"
      BY <1>4, <2>2, <3>4 DEF Include, LifeInv, ChainTypes
    <3>5. CASE batches[i].kind = "back"
      BY <1>4, <2>2, <3>5 DEF Include, LifeInv, ChainTypes
    <3> QED BY <3>1, <3>2, <3>3, <3>4, <3>5
  <2>4. ChainTypes'
    BY <2>1, <2>3 DEF ChainTypes
  <2> QED BY <1>4, <2>4, FatesKeep DEF Include, Decide
<1>5. CASE IncludeReverted(i)
  BY <1>5, FatesKeep DEF IncludeReverted, Decide, LifeInv, ChainTypes, chain
<1> QED BY <1>1, <1>3, <1>4, <1>5

LEMMA DeliverKeeps ==
  ASSUME LifeInv, Deliver
  PROVE  LifeInv'
<1>1. Harmless
  BY DEF Deliver, LifeInv, FlowTypes, Harmless, flow
<1>2. ChainTypes' /\ QuietRecord /\ batches' = batches
  BY QuietFacts DEF Deliver, LifeInv, ChainTypes
<1> QED BY <1>1, <1>2, HarmlessKeeps

-----------------------------------------------------------------------------
LEMMA LifeInit ==
  ASSUME LifecycleAssumption, Init
  PROVE  LifeInv
<1>1. ChainTypes /\ batches = <<>> /\ pos = NoRecord
  <2>1. /\ usdg = 0 /\ tokens = 0 /\ nonce = 0 /\ delivered = FALSE
        /\ batches = <<>> /\ pos = NoRecord
    BY DEF Init
  <2>2. 0 \in Nat /\ delivered \in BOOLEAN
    BY <2>1
  <2>3. {usdg, tokens, nonce} \subseteq Nat
    BY <2>1, <2>2
  <2> QED BY <2>1, <2>2, <2>3 DEF ChainTypes
<1>2. BatchTypes /\ Len(batches) = 0 /\ MaxBatches \in Nat
  <2>1. <<>> \in Seq(Batch) /\ Len(<<>>) = 0
    OBVIOUS
  <2>2. MaxBatches \in Nat /\ 0 <= MaxBatches
    BY DEF LifecycleAssumption
  <2> QED BY <1>1, <2>1, <2>2 DEF BatchTypes
<1>3. pos \in Record
  BY <1>1, <1>2 DEF Record, NoRecord
<1>4. at \in [Flows -> Stages] /\ op \in [Flows -> Ops] /\ op["auto"] = "none"
  BY DEF Init, Stages, Ops, Flows
<1>5. take \in [Flows -> Nat] /\ left \in [Flows -> Nat] /\ busy \in BOOLEAN
  BY DEF Init
<1>6. tx \in [Flows -> 0..Len(batches)]
  BY <1>2 DEF Init
<1>7. FlowTypes
  BY <1>4, <1>5, <1>6 DEF FlowTypes
<1>8. \A f \in Flows : InOrder(at[f], op[f], tx[f])
  BY DEF Init, InOrder, InFlight
<1>9. HashesAreReal /\ {pos.launchTx, pos.buyTx, pos.sellTx} \subseteq 0..Len(batches)
  BY <1>1, <1>2 DEF HashesAreReal, NoRecord
<1> QED BY <1>1, <1>2, <1>3, <1>7, <1>8, <1>9 DEF LifeInv

LEMMA LifeStep ==
  ASSUME LifecycleAssumption, LifeInv, [Next]_vars
  PROVE  LifeInv'
<1>1. CASE Click
  BY <1>1, ClickKeeps
<1>2. CASE UserFlow
  BY <1>2, UserFlowKeeps
<1>3. CASE AutoFlow
  BY <1>3, AutoFlowKeeps
<1>4. CASE Reload
  BY <1>4, ReloadKeeps
<1>5. CASE Deliver
  BY <1>5, DeliverKeeps
<1>6. CASE Chain
  BY <1>6, ChainKeeps
<1>7. CASE UNCHANGED vars
  <2>1. UNCHANGED <<chain, batches, pos, flow>>
    BY <1>7 DEF vars
  <2> QED BY <2>1, RecordKeeps, QuietFacts
<1> QED BY <1>1, <1>2, <1>3, <1>4, <1>5, <1>6, <1>7 DEF Next

LEMMA LifeAlways ==
  Spec => []LifeInv
<1>1. LifecycleAssumption
  BY LifecycleAssumption
<1> QED BY <1>1, LifeInit, LifeStep, PTL DEF Spec

\* The record, the flows and the batches are what their types say: in particular no
\* flow of the page waits for a batch that was never signed.
THEOREM LifecycleTypeCorrect == Spec => []TypeOK
<1>1. LifeInv => TypeOK
  BY DEF LifeInv, ChainTypes, BatchTypes, FlowTypes, Ops, TypeOK
<1> QED BY <1>1, LifeAlways, PTL

\* The hashes of the saved record are true of the chain, whatever posts are lost,
\* receipts missed and pages reloaded: recoverPosition (App.tsx) asks for the receipt
\* of a transaction of that kind, and it was broadcast.
THEOREM HashesAreTrue == Spec => []HashesAreReal
<1>1. LifeInv => HashesAreReal
  BY DEF LifeInv
<1> QED BY <1>1, LifeAlways, PTL

-----------------------------------------------------------------------------
(***************************************************************************)
(* What a sale leaves.  A user who sells may have bought before with       *)
(* batches of which the page knows nothing: their posts were lost, or the  *)
(* page was reloaded.  None of them can execute any more, because the one  *)
(* unit that was delivered is spent, and later because the sale takes its  *)
(* nonce after all of them.                                                *)
(***************************************************************************)
Purchasing == {"launch", "buy", "retry"}

AfterSell == {"selling", "held", "returning", "return-failed", "closed", "failed"}

Sold == \E i \in DOMAIN batches : batches[i].kind = "sell"

HasSold == \E i \in DOMAIN batches : batches[i].kind = "sell" /\ batches[i].fate = "executed"

UserSells == at["user"] # "idle" /\ op["user"] \in {"sell", "back"}

\* Until tokens are sold, the account has what was delivered or what it has bought.
Money ==
  /\ ~delivered => tokens = 0 /\ usdg = 0 /\ ~HasSold
  /\ ~HasSold => \/ usdg = 0 /\ tokens \in {0, TokensPerBuy}
                 \/ usdg = 1 /\ tokens = 0

\* Buys are signed before sales.
Signatures ==
  /\ \A i \in DOMAIN batches :
       /\ batches[i].kind = "buy" => batches[i].amount = 1
       /\ batches[i].kind = "sell" => batches[i].amount >= 1
       /\ batches[i].nonce <= nonce
       /\ batches[i].fate = "executed" => batches[i].nonce < nonce
  /\ \A i, j \in DOMAIN batches :
       batches[i].kind = "buy" /\ batches[j].kind = "sell" =>
         batches[i].nonce <= batches[j].nonce

\* Whoever has begun to sell buys no more.
NoMoreBuys ==
  Sold \/ UserSells =>
    /\ pos.status \in AfterSell
    /\ at["user"] = "idle" \/ op["user"] \in {"sell", "back"}
    /\ ~HasSold => tokens = TokensPerBuy /\ usdg = 0

\* The user's flow has counted the tokens that remain, or more than those.
Selling ==
  /\ at["user"] \in {"signing", "posting", "confirming"}
  /\ take["user"] >= 1
  /\ tokens <= left["user"] + take["user"]
  /\ at["user"] # "signing" =>
       /\ batches[tx["user"]].amount = take["user"]
       /\ batches[tx["user"]].fate = "executed" => tokens <= left["user"]

UserKnows ==
  /\ op["user"] # "giveBack"
  /\ op["user"] \in Purchases /\ at["user"] = "signing" => take["user"] = 1
  /\ at["user"] \in {"funding", "quoting"} => op["user"] \in Purchasing
  /\ at["user"] \in {"starting", "reading", "crossing"} => op["user"] = "back"
  /\ at["user"] # "idle" /\ op["user"] = "sell" => Selling
  /\ at["user"] # "idle" /\ op["user"] = "back" => tokens <= left["user"]

SellInv == Money /\ Signatures /\ NoMoreBuys /\ UserKnows

SameChain == UNCHANGED <<chain, batches>>

LEMMA SameChainKeeps ==
  ASSUME SellInv, SameChain
  PROVE  Money' /\ Signatures' /\ Sold' = Sold /\ HasSold' = HasSold
<1>1. UNCHANGED <<usdg, tokens, nonce, delivered, batches>>
  BY DEF SameChain, chain
<1>2. Sold' = Sold /\ HasSold' = HasSold
  BY <1>1 DEF Sold, HasSold
<1> QED BY <1>1, <1>2 DEF SellInv, Money, Signatures

LEMMA SellFacts ==
  ASSUME LifeInv, SellInv
  PROVE  /\ "user" \in Flows /\ "auto" \in Flows /\ "user" # "auto"
         /\ at["user"] # "idle" /\ op["user"] \in Purchasing => ~Sold /\ ~UserSells
         /\ at["user"] \notin {"idle", "off"} =>
              op["user"] \in Purchasing \cup {"sell", "back"}
<1>1. "user" \in Flows /\ "auto" \in Flows
  BY DEF Flows
<1>2. op["user"] \in Ops /\ op["user"] # "giveBack"
  BY <1>1 DEF LifeInv, FlowTypes, SellInv, UserKnows
<1>3. at["user"] \notin {"idle", "off"} => op["user"] # "none"
  BY <1>1 DEF LifeInv, InOrder
<1> QED BY <1>1, <1>2, <1>3 DEF Ops, Purchasing, SellInv, NoMoreBuys

\* The user's flow ends.
LEMMA UserStops ==
  ASSUME SellInv, SameChain, at'["user"] = "idle", op'["user"] # "giveBack",
         Sold => pos'.status \in AfterSell
  PROVE  SellInv'
<1>1. Money' /\ Signatures' /\ Sold' = Sold /\ HasSold' = HasSold
  BY SameChainKeeps
<1>2. UNCHANGED <<usdg, tokens>>
  BY DEF SameChain, chain
<1>3. NoMoreBuys'
  BY <1>1, <1>2 DEF SellInv, NoMoreBuys, UserSells
<1>4. UserKnows'
  BY DEF UserKnows
<1> QED BY <1>1, <1>3, <1>4 DEF SellInv

\* The user's flow goes on buying.
LEMMA UserBuys ==
  ASSUME SellInv, SameChain, ~Sold, op'["user"] \in Purchasing,
         at'["user"] \notin {"starting", "reading", "crossing"},
         at'["user"] = "signing" /\ op'["user"] \in Purchases => take'["user"] = 1
  PROVE  SellInv'
<1>1. Money' /\ Signatures' /\ Sold' = Sold /\ HasSold' = HasSold
  BY SameChainKeeps
<1>2. NoMoreBuys'
  BY <1>1 DEF NoMoreBuys, UserSells, Purchasing
<1>3. UserKnows'
  BY DEF UserKnows, Purchasing
<1> QED BY <1>1, <1>2, <1>3 DEF SellInv

\* The user's flow begins to sell, or goes on.
LEMMA UserGoesOn ==
  ASSUME SellInv, SameChain, op'["user"] \in {"sell", "back"},
         pos'.status \in AfterSell, ~HasSold => tokens = TokensPerBuy /\ usdg = 0,
         UserKnows'
  PROVE  SellInv'
<1>1. Money' /\ Signatures' /\ Sold' = Sold /\ HasSold' = HasSold
  BY SameChainKeeps
<1>2. UNCHANGED <<usdg, tokens>>
  BY DEF SameChain, chain
<1>3. NoMoreBuys'
  BY <1>1, <1>2 DEF NoMoreBuys, UserSells
<1> QED BY <1>1, <1>3 DEF SellInv

UserSame ==
  /\ at'["user"] = at["user"] /\ op'["user"] = op["user"] /\ tx'["user"] = tx["user"]
  /\ take'["user"] = take["user"] /\ left'["user"] = left["user"]

\* The user's flow stays where it is.
LEMMA UserWaits ==
  ASSUME SellInv, SameChain, UserSame, Sold \/ UserSells => pos'.status \in AfterSell
  PROVE  SellInv'
<1>1. Money' /\ Signatures' /\ Sold' = Sold /\ HasSold' = HasSold
  BY SameChainKeeps
<1>2. UNCHANGED <<usdg, tokens, batches>>
  BY DEF SameChain, chain
<1>3. NoMoreBuys'
  BY <1>1, <1>2 DEF SellInv, NoMoreBuys, UserSells, UserSame
<1>4. UserKnows'
  BY <1>2 DEF SellInv, UserKnows, Selling, UserSame
<1> QED BY <1>1, <1>3, <1>4 DEF SellInv

-----------------------------------------------------------------------------
(***************************************************************************)
(* The ways a flow fails, again.                                           *)
(***************************************************************************)
LEMMA ReturnFailsSells ==
  ASSUME LifeInv, SellInv, NEW f \in Flows, at[f] \notin {"idle", "off"},
         ReturnFails(f), SameChain
  PROVE  SellInv'
<1>1. pos'.status = "return-failed"
  BY DEF ReturnFails, Status, LifeInv, Record
<1>2. CASE f = "user"
  <2>1. at'["user"] = "idle" /\ op'["user"] # "giveBack"
    BY <1>2, SellFacts DEF ReturnFails, Goto, LifeInv, FlowTypes, SellInv, UserKnows
  <2> QED BY <1>1, <2>1, UserStops DEF AfterSell
<1>3. CASE f = "auto"
  <2>1. UserSame
    BY <1>3, SellFacts DEF ReturnFails, Goto, LifeInv, FlowTypes, UserSame
  <2> QED BY <1>1, <2>1, UserWaits DEF AfterSell
<1> QED BY <1>2, <1>3 DEF Flows

LEMMA FailsSells ==
  ASSUME LifeInv, SellInv, NEW f \in Flows, at[f] \notin {"idle", "off"},
         NEW sure \in BOOLEAN, NEW noted \in BOOLEAN, Fails(f, sure, noted),
         SameChain
  PROVE  SellInv'
<1> USE SellFacts
<1>1. op[f] \in Purchasing => f = "user"
  BY DEF LifeInv, FlowTypes, Flows, Purchasing
<1>2. CASE op[f] \in Purchasing
  <2>1. f = "user" /\ ~Sold
    BY <1>1, <1>2
  <2>2. AwaitReturn \/ Goto("user", "idle")
    BY <1>2 DEF Fails, LaunchFails, BuyFails, Purchasing
  <2>3. CASE AwaitReturn
    <3>1. at'["user"] = "catching" /\ op'["user"] = op["user"]
      BY <2>3 DEF AwaitReturn, LifeInv, FlowTypes
    <3> QED BY <1>2, <2>1, <3>1, UserBuys
  <2>4. CASE Goto("user", "idle")
    <3>1. at'["user"] = "idle" /\ op'["user"] = op["user"]
      BY <2>4 DEF Goto, LifeInv, FlowTypes
    <3> QED BY <2>1, <3>1, UserStops DEF SellInv, UserKnows
  <2> QED BY <2>2, <2>3, <2>4
<1>3. CASE op[f] = "sell"
  <2>1. f = "user" /\ Status("held") /\ Goto("user", "idle")
    BY <1>3 DEF Fails, Purchases, LifeInv, FlowTypes, Flows
  <2>2. pos'.status = "held" /\ at'["user"] = "idle" /\ op'["user"] = op["user"]
    BY <2>1 DEF Status, Goto, LifeInv, FlowTypes, Record
  <2> QED BY <2>2, UserStops DEF AfterSell, SellInv, UserKnows
<1>4. CASE op[f] \in {"back", "giveBack"}
  BY <1>4, ReturnFailsSells DEF Fails, Purchases
<1>5. op[f] \in Ops \ {"none"}
  BY DEF LifeInv, FlowTypes, InOrder
<1> QED BY <1>2, <1>3, <1>4, <1>5 DEF Ops, Purchasing

-----------------------------------------------------------------------------
(***************************************************************************)
(* A signature, and what its flow hears of it.                             *)
(***************************************************************************)
LEMMA SignSells ==
  ASSUME LifecycleAssumption, LifeInv, SellInv, NEW f \in Flows, Sign(f)
  PROVE  SellInv'
<1> USE SellFacts
<1> DEFINE b == [kind |-> KindOf[op[f]], nonce |-> nonce, amount |-> take[f],
                 fate |-> "posted"]
           n == Len(batches)
<1>1. /\ at[f] = "signing" /\ batches' = Append(batches, b)
      /\ at' = [at EXCEPT ![f] = "posting"] /\ tx' = [tx EXCEPT ![f] = n + 1]
      /\ UNCHANGED <<usdg, tokens, nonce, delivered, pos, op, take, left, busy>>
  BY DEF Sign, chain
<1>2. batches \in Seq(Batch) /\ n \in Nat /\ nonce \in Nat
  BY DEF LifeInv, BatchTypes, ChainTypes
<1>3. op[f] \in Ops \ {"none"}
  BY <1>1 DEF LifeInv, FlowTypes, InOrder
<1>4. /\ DOMAIN batches = 1..n /\ DOMAIN batches' = 1..(n + 1)
      /\ batches'[n + 1] = b /\ \A i \in 1..n : batches'[i] = batches[i]
  BY <1>1, <1>2
<1>5. b.nonce = nonce /\ b.amount = take[f] /\ b.fate = "posted" /\ b.kind = KindOf[op[f]]
  OBVIOUS
<1>6. op[f] \in {"launch", "buy", "retry", "sell"} => f = "user"
  BY DEF LifeInv, FlowTypes, Flows
<1>7. b.kind = "buy" => f = "user" /\ take[f] = 1 /\ ~Sold
  <2>1. b.kind = "buy" => op[f] \in Purchases
    BY <1>3, <1>5 DEF KindOf, Ops, Purchases
  <2> QED BY <1>1, <1>6, <2>1 DEF Purchases, Purchasing, SellInv, UserKnows
<1>8. b.kind = "sell" => f = "user" /\ op[f] = "sell" /\ take[f] >= 1 /\ UserSells
  <2>1. b.kind = "sell" => op[f] = "sell"
    BY <1>3, <1>5 DEF KindOf, Ops
  <2> QED BY <1>1, <1>6, <2>1 DEF SellInv, UserKnows, Selling, UserSells
<1> HIDE DEF b, n
<1>9. HasSold' = HasSold
  BY <1>2, <1>4, <1>5 DEF HasSold
<1>10. Sold' => Sold \/ UserSells
  BY <1>2, <1>4, <1>8 DEF Sold
<1>11. Money'
  BY <1>1, <1>9 DEF SellInv, Money
<1>12. Signatures'
  <2>1. ASSUME NEW i \in 1..(n + 1)
        PROVE  /\ batches'[i].kind = "buy" => batches'[i].amount = 1
               /\ batches'[i].kind = "sell" => batches'[i].amount >= 1
               /\ batches'[i].nonce <= nonce
               /\ batches'[i].fate = "executed" => batches'[i].nonce < nonce
    <3>1. CASE i = n + 1
      BY <1>2, <1>4, <1>5, <1>7, <1>8, <3>1
    <3>2. CASE i \in 1..n
      BY <1>4, <3>2 DEF SellInv, Signatures
    <3> QED BY <1>2, <3>1, <3>2
  <2>2. ASSUME NEW i \in 1..(n + 1), NEW j \in 1..(n + 1),
               batches'[i].kind = "buy", batches'[j].kind = "sell"
        PROVE  batches'[i].nonce <= batches'[j].nonce
    <3>1. CASE j = n + 1
      BY <1>4, <1>5, <2>1, <3>1
    <3>2. CASE j \in 1..n /\ i \in 1..n
      BY <1>4, <2>2, <3>2 DEF SellInv, Signatures
    <3>3. CASE j \in 1..n /\ i = n + 1
      BY <1>4, <1>7, <2>2, <3>3 DEF Sold
    <3> QED BY <1>2, <3>1, <3>2, <3>3
  <2> QED BY <1>1, <1>4, <2>1, <2>2 DEF Signatures
<1>13. at'["user"] \in {at["user"], "posting"} /\ (f = "auto" => at'["user"] = at["user"])
  BY <1>1 DEF LifeInv, FlowTypes, Flows
<1>14. op'["user"] = op["user"] /\ take'["user"] = take["user"] /\ left'["user"] = left["user"]
  BY <1>1
<1>15. UserSells' => UserSells
  <2>1. f = "user" => at["user"] # "idle"
    BY <1>1
  <2> QED BY <1>13, <1>14, <2>1 DEF UserSells, Flows
<1>16. NoMoreBuys'
  <2>1. SUFFICES ASSUME Sold \/ UserSells
                 PROVE  /\ pos'.status \in AfterSell
                        /\ at'["user"] = "idle" \/ op'["user"] \in {"sell", "back"}
                        /\ ~HasSold' => tokens' = TokensPerBuy /\ usdg' = 0
    BY <1>10, <1>15 DEF NoMoreBuys
  <2>2. /\ pos.status \in AfterSell
        /\ at["user"] = "idle" \/ op["user"] \in {"sell", "back"}
        /\ ~HasSold => tokens = TokensPerBuy /\ usdg = 0
    BY <2>1 DEF SellInv, NoMoreBuys
  <2>3. f = "user" => at["user"] # "idle"
    BY <1>1
  <2> QED BY <1>1, <1>9, <1>13, <1>14, <2>2, <2>3 DEF Flows
<1>17. UserKnows'
  <2>1. CASE f = "user"
    <3>1. at'["user"] = "posting" /\ tx'["user"] = n + 1 /\ at["user"] = "signing"
      BY <1>1, <2>1 DEF LifeInv, FlowTypes
    <3>2. op["user"] = "sell" => Selling'
      BY <1>1, <1>4, <1>5, <1>14, <2>1, <3>1 DEF SellInv, UserKnows, Selling
    <3> QED BY <1>1, <1>14, <3>1, <3>2 DEF SellInv, UserKnows
  <2>2. CASE f = "auto"
    <3>1. at'["user"] = at["user"] /\ tx'["user"] = tx["user"]
      BY <1>1, <1>13, <2>2 DEF LifeInv, FlowTypes
    <3>2. at["user"] \in {"posting", "confirming"} => batches'[tx["user"]] = batches[tx["user"]]
      BY <1>2, <1>4 DEF LifeInv, FlowTypes, InOrder, InFlight, n
    <3>3. Selling => Selling'
      BY <1>1, <1>14, <3>1, <3>2 DEF Selling
    <3> QED BY <1>1, <1>14, <3>1, <3>3 DEF SellInv, UserKnows
  <2> QED BY <2>1, <2>2 DEF Flows
<1> QED BY <1>11, <1>12, <1>16, <1>17 DEF SellInv


LEMMA HearsSells ==
  ASSUME LifeInv, SellInv, NEW f \in Flows, Accepted(f)
  PROVE  SellInv'
<1> USE SellFacts
<1>1. /\ at[f] = "posting" /\ SameChain /\ UNCHANGED <<op, take, left, tx>>
      /\ at' = [at EXCEPT ![f] = IF op[f] = "launch" THEN "mining" ELSE "confirming"]
  BY DEF Accepted, Goto, SameChain
<1>2. CASE f = "auto"
  <2>1. UserSame
    BY <1>1, <1>2 DEF LifeInv, FlowTypes, UserSame
  <2>2. pos' = pos
    BY <1>2 DEF Accepted, LifeInv, FlowTypes, Purchases
  <2> QED BY <1>1, <2>1, <2>2, UserWaits DEF SellInv, NoMoreBuys
<1>3. CASE f = "user" /\ op["user"] \in Purchasing
  <2>1. at'["user"] \in {"mining", "confirming"} /\ op'["user"] = op["user"]
    BY <1>1, <1>3 DEF LifeInv, FlowTypes
  <2> QED BY <1>1, <1>3, <2>1, UserBuys
<1>4. CASE f = "user" /\ op["user"] \in {"sell", "back"}
  <2>1. /\ UserSells /\ pos.status \in AfterSell
        /\ ~HasSold => tokens = TokensPerBuy /\ usdg = 0
    BY <1>1, <1>4 DEF UserSells, SellInv, NoMoreBuys
  <2>2. pos'.status \in AfterSell
    BY <1>4, <2>1 DEF Accepted, Purchases, AfterSell, LifeInv, Record
  <2>3. /\ at'["user"] = "confirming" /\ op'["user"] = op["user"]
        /\ UNCHANGED <<tokens, batches>>
    BY <1>1, <1>4 DEF LifeInv, FlowTypes, SameChain, chain
  <2>4. UserKnows'
    BY <1>1, <1>4, <2>3 DEF SellInv, UserKnows, Selling
  <2> QED BY <1>1, <1>4, <2>1, <2>2, <2>3, <2>4, UserGoesOn
<1> QED BY <1>1, <1>2, <1>3, <1>4 DEF Flows

\* The steps of a return that neither fail nor sign.
LEMMA ReturnSells ==
  ASSUME LifeInv, SellInv, NEW f \in Flows,
         ReturnConfirmed(f) \/ ReturnFunds(f) \/ ReturnRest(f)
  PROVE  SellInv'
<1> USE SellFacts
<1>1. PICK stage \in {"signing", "crossing"} : at' = [at EXCEPT ![f] = stage]
  BY DEF ReturnConfirmed, ReturnFunds, ReturnRest, Goto
<1>2. /\ SameChain /\ UNCHANGED <<pos, op, left, tx>> /\ at[f] \in {"reading", "confirming"}
      /\ at[f] = "confirming" => op[f] \in {"back", "giveBack"}
      /\ take'["user"] = take["user"] \/ f = "user"
  <2>1. ASSUME ReturnConfirmed(f) \/ ReturnRest(f) PROVE take' = take
    BY <2>1 DEF ReturnConfirmed, ReturnRest, Goto
  <2>2. ASSUME ReturnFunds(f) PROVE take' = [take EXCEPT ![f] = usdg]
    BY <2>2 DEF ReturnFunds
  <2>3. take'["user"] = take["user"] \/ f = "user"
    BY <2>1, <2>2 DEF LifeInv, FlowTypes
  <2> QED BY <2>3 DEF ReturnConfirmed, ReturnFunds, ReturnRest, Goto, SameChain
<1>3. CASE f = "auto"
  <2>1. UserSame
    BY <1>1, <1>2, <1>3 DEF LifeInv, FlowTypes, UserSame
  <2> QED BY <1>2, <2>1, UserWaits DEF SellInv, NoMoreBuys
<1>4. CASE f = "user"
  <2>1. op["user"] = "back" /\ UserSells
    BY <1>2, <1>4 DEF SellInv, UserKnows, UserSells
  <2>2. /\ at'["user"] = stage /\ op'["user"] = "back" /\ left'["user"] = left["user"]
        /\ UNCHANGED <<tokens, pos>>
    BY <1>1, <1>2, <1>4, <2>1 DEF LifeInv, FlowTypes, SameChain, chain
  <2>3. tokens <= left["user"] /\ pos.status \in AfterSell
    BY <1>2, <1>4, <2>1 DEF SellInv, UserKnows, NoMoreBuys
  <2>4. UserKnows'
    BY <2>2, <2>3 DEF UserKnows, Purchases
  <2> QED BY <1>2, <2>1, <2>2, <2>3, <2>4, UserGoesOn DEF SellInv, NoMoreBuys
<1> QED BY <1>3, <1>4 DEF Flows

\* The end of a return.
LEMMA ReturnEndsSells ==
  ASSUME LifeInv, SellInv, NEW f \in Flows, NothingToReturn(f) \/ Returned(f)
  PROVE  SellInv'
<1> USE SellFacts
<1>1. CASE ReturnFails(f)
  <2>1. at[f] \notin {"idle", "off"} /\ SameChain
    BY DEF NothingToReturn, Returned, SameChain
  <2> QED BY <1>1, <2>1, ReturnFailsSells
<1>2. CASE ~ReturnFails(f)
  <2>1. /\ pos'.status \in {"held", "closed"} /\ SameChain
        /\ \E stage \in {"idle", "off", "done"} :
             Goto(f, stage) /\ (f = "user" => stage = "idle")
    BY <1>2 DEF NothingToReturn, Returned, SameChain, LifeInv, Record
  <2>2. UNCHANGED <<op, take, left, tx>> /\ (f = "user" => at'["user"] = "idle")
    BY <2>1 DEF Goto, LifeInv, FlowTypes
  <2>3. CASE f = "user"
    BY <2>1, <2>2, <2>3, UserStops DEF AfterSell, SellInv, UserKnows
  <2>4. CASE f = "auto"
    <3>1. UserSame
      BY <2>1, <2>2, <2>4 DEF Goto, LifeInv, FlowTypes, UserSame
    <3> QED BY <2>1, <3>1, UserWaits DEF AfterSell
  <2> QED BY <2>3, <2>4 DEF Flows
<1> QED BY <1>1, <1>2

LEMMA StepSells ==
  ASSUME LifecycleAssumption, LifeInv, SellInv, NEW f \in Flows, Step(f)
  PROVE  SellInv'
<1> USE SellFacts
<1>1. CASE Sign(f)
  BY <1>1, SignSells
<1>2. CASE SigningFails(f)
  BY <1>2, FailsSells DEF SigningFails, SameChain
<1>3. CASE Accepted(f)
  BY <1>3, HearsSells
<1>4. CASE Rejected(f)
  BY <1>4, FailsSells DEF Rejected, SameChain
<1>5. CASE NoAnswer(f)
  BY <1>5, FailsSells DEF NoAnswer, SameChain
<1>6. CASE ConfirmedReverted(f)
  BY <1>6, FailsSells DEF ConfirmedReverted, SameChain
<1>7. CASE NoReceipt(f)
  <2>1. at[f] = "confirming" /\ SameChain
    BY <1>7 DEF NoReceipt, SameChain
  <2>2. CASE op[f] \in Purchases /\ BuyFails(FALSE, FALSE)
    BY <2>1, <2>2, FailsSells DEF Fails
  <2>3. CASE op[f] = "launch" /\ Status("launching") /\ Goto(f, "idle")
    <3>1. f = "user" /\ at'["user"] = "idle" /\ op'["user"] = op["user"]
      BY <2>3 DEF Goto, LifeInv, FlowTypes, Flows
    <3> QED BY <2>1, <2>3, <3>1, UserStops DEF Purchasing
  <2>4. CASE op[f] = "sell" /\ Status("selling") /\ Goto(f, "idle")
    <3>1. /\ f = "user" /\ at'["user"] = "idle" /\ op'["user"] = op["user"]
          /\ pos'.status = "selling"
      BY <2>4 DEF Goto, Status, LifeInv, FlowTypes, Flows, Record
    <3> QED BY <2>1, <2>4, <3>1, UserStops DEF AfterSell
  <2>5. CASE op[f] \in {"back", "giveBack"} /\ ReturnFails(f)
    BY <2>1, <2>5, ReturnFailsSells
  <2> QED BY <1>7, <2>2, <2>3, <2>4, <2>5 DEF NoReceipt
<1>8. CASE ReturnConfirmed(f) \/ ReturnFunds(f) \/ ReturnRest(f)
  BY <1>8, ReturnSells
<1>9. CASE NothingToReturn(f) \/ Returned(f)
  BY <1>9, ReturnEndsSells
<1>10. CASE ReturnThrows(f)
  BY <1>10, ReturnFailsSells DEF ReturnThrows, SameChain
<1> QED BY <1>1, <1>2, <1>3, <1>4, <1>5, <1>6, <1>7, <1>8, <1>9, <1>10 DEF Step


-----------------------------------------------------------------------------
(***************************************************************************)
(* The user, the timer and the page, again.                                *)
(***************************************************************************)
LEMMA UserFlowSells ==
  ASSUME LifecycleAssumption, LifeInv, SellInv, UserFlow
  PROVE  SellInv'
<1> USE SellFacts
<1>1. ASSUME NEW stage \in {"quoting", "signing", "confirming"},
             Goto("user", stage), SameChain, at["user"] \in {"funding", "mining"},
             op["user"] \in Purchasing, stage = "signing" => op["user"] = "launch"
      PROVE  SellInv'
  <2>1. at'["user"] = stage /\ op'["user"] = op["user"]
    BY <1>1 DEF Goto, LifeInv, FlowTypes
  <2> QED BY <1>1, <2>1, UserBuys DEF Purchases
<1>2. CASE LaunchFunded
  BY <1>1, <1>2 DEF LaunchFunded, SameChain, Purchasing
<1>3. CASE Launched
  <2>1. op["user"] = "launch"
    BY <1>3 DEF Launched, LifeInv, InOrder
  <2> QED BY <1>1, <1>3, <2>1 DEF Launched, SameChain, Purchasing
<1>4. CASE LaunchThrows
  <2>1. op["user"] = "launch"
    BY <1>4 DEF LaunchThrows, LifeInv, InOrder
  <2> QED BY <1>4, <2>1, FailsSells DEF LaunchThrows, Fails, SameChain
<1>5. CASE LaunchConfirmed
  <2>1. /\ SameChain /\ ~Sold /\ at'["user"] = "signing" /\ op'["user"] = "buy"
        /\ take'["user"] = 1
    BY <1>5 DEF LaunchConfirmed, Begin, SameChain, Purchasing, LifeInv, FlowTypes
  <2> QED BY <2>1, UserBuys DEF Purchasing
<1>6. CASE Funded
  BY <1>1, <1>6 DEF Funded, SameChain, Purchasing
<1>7. CASE FundingFails
  <2>1. pos'.status = "failed" /\ at'["user"] = "idle" /\ op'["user"] = op["user"]
    BY <1>7 DEF FundingFails, Goto, LifeInv, FlowTypes, Record
  <2> QED BY <1>7, <2>1, UserStops DEF FundingFails, AfterSell, SellInv, UserKnows, SameChain
<1>8. CASE SeeUsdg
  <2>1. /\ SameChain /\ at'["user"] = "signing" /\ op'["user"] = op["user"]
        /\ take'["user"] = 1 /\ at["user"] = "quoting"
    BY <1>8 DEF SeeUsdg, Begin, SameChain, LifeInv, FlowTypes
  <2>2. op["user"] \in Purchasing
    BY <2>1 DEF SellInv, UserKnows, Selling, Purchasing
  <2> QED BY <2>1, <2>2, UserBuys
<1>9. CASE MissUsdg
  <2>1. SameChain /\ at["user"] = "quoting" /\ Goto("user", "idle")
    BY <1>9 DEF MissUsdg, BuyFails, SameChain
  <2>2. op["user"] \in Purchasing /\ at'["user"] = "idle" /\ op'["user"] = op["user"]
    BY <2>1 DEF Goto, LifeInv, FlowTypes, SellInv, UserKnows, Selling, Purchasing
  <2> QED BY <2>1, <2>2, UserStops DEF SellInv, UserKnows
<1>10. CASE BuyConfirmed
  <2>1. pos'.status = "held" /\ at'["user"] = "idle" /\ op'["user"] = op["user"]
    BY <1>10 DEF BuyConfirmed, Goto, LifeInv, FlowTypes, Record
  <2> QED BY <1>10, <2>1, UserStops DEF BuyConfirmed, AfterSell, SellInv, UserKnows, SameChain
<1>11. CASE SellConfirmed
  <2>1. /\ at["user"] = "confirming" /\ op["user"] = "sell" /\ SameChain /\ UserSells
        /\ batches[tx["user"]].fate = "executed"
        /\ at'["user"] = "reading" /\ op'["user"] = "back" /\ left'["user"] = left["user"]
        /\ pos'.status = "returning"
    BY <1>11 DEF SellConfirmed, Begin, Fate, SameChain, UserSells, LifeInv, FlowTypes, Record
  <2>2. tokens <= left["user"] /\ tokens' = tokens
    BY <2>1 DEF SellInv, UserKnows, Selling, SameChain, chain
  <2>3. UserKnows'
    BY <2>1, <2>2 DEF UserKnows, Purchases
  <2> QED BY <2>1, <2>3, UserGoesOn DEF AfterSell, SellInv, NoMoreBuys
<1>12. CASE CatchEnds
  <2>1. /\ at["user"] = "catching" /\ at'["user"] = "idle" /\ op' = op /\ SameChain
        /\ pos' = pos
    BY <1>12 DEF CatchEnds, SameChain, LifeInv, FlowTypes
  <2> QED BY <2>1, UserStops DEF SellInv, UserKnows, NoMoreBuys
<1>13. CASE Step("user")
  BY <1>13, StepSells
<1> QED BY <1>2, <1>3, <1>4, <1>5, <1>6, <1>7, <1>8, <1>9, <1>10, <1>11, <1>12,
           <1>13 DEF UserFlow

LEMMA AutoFlowSells ==
  ASSUME LifecycleAssumption, LifeInv, SellInv, AutoFlow
  PROVE  SellInv'
<1> USE SellFacts
<1>1. CASE AutoStarts
  <2>1. UserSame /\ SameChain /\ pos'.status = "returning"
    BY <1>1 DEF AutoStarts, Begin, Status, UserSame, SameChain, LifeInv, FlowTypes, Record
  <2> QED BY <2>1, UserWaits DEF AfterSell
<1>2. CASE TimerFires
  <2>1. UserSame /\ SameChain /\ pos' = pos
    BY <1>2 DEF TimerFires, Goto, UserSame, SameChain, LifeInv, FlowTypes
  <2> QED BY <2>1, UserWaits DEF SellInv, NoMoreBuys
<1>3. CASE Step("auto")
  BY <1>3, StepSells
<1> QED BY <1>1, <1>2, <1>3 DEF AutoFlow

LEMMA ClickSells ==
  ASSUME LifecycleAssumption, LifeInv, SellInv, Click
  PROVE  SellInv'
<1> USE SellFacts
<1>0. at["user"] = "idle" /\ (Sold => pos.status \in AfterSell)
  BY DEF Click, StartLaunch, StartBuy, RetryBuy, CheckNothing, CheckReverted,
         CheckLaunch, CheckBuy, CheckSell, StartSell, UserMayAct, SellInv, NoMoreBuys
<1>1. CASE StartLaunch \/ StartBuy \/ RetryBuy
  <2>1. ~Sold
    BY <1>0, <1>1 DEF StartLaunch, StartBuy, RetryBuy, AfterSell
  <2>2. /\ at'["user"] \in {"funding", "quoting"} /\ op'["user"] \in Purchasing /\ SameChain
    BY <1>1 DEF StartLaunch, StartBuy, RetryBuy, Begin, SameChain, Purchasing,
                LifeInv, FlowTypes
  <2> QED BY <2>1, <2>2, UserBuys
<1>2. CASE CheckNothing \/ CheckReverted \/ CheckLaunch \/ CheckBuy
  <2>1. SameChain /\ at'["user"] = "idle" /\ op' = op
    BY <1>0, <1>2 DEF CheckNothing, CheckReverted, CheckLaunch, CheckBuy, SameChain, flow
  <2>2. Sold => pos'.status \in AfterSell
    BY <1>0, <1>2 DEF CheckNothing, CheckReverted, CheckLaunch, CheckBuy, Unconfirmed,
                      AfterSell, LifeInv, Record
  <2> QED BY <2>1, <2>2, UserStops DEF SellInv, UserKnows
<1>3. CASE CheckSell
  <2>1. /\ pos.sellTx # 0 /\ batches[pos.sellTx].fate = "executed"
        /\ pos.sellTx \in DOMAIN batches /\ batches[pos.sellTx].kind = "sell"
    <3>1. pos.sellTx # 0 /\ batches[pos.sellTx].fate = "executed"
      BY <1>3 DEF CheckSell, Recorded
    <3> QED BY <3>1 DEF LifeInv, BatchTypes, HashesAreReal
  <2>2. HasSold
    BY <2>1 DEF HasSold
  <2>3. /\ SameChain /\ at'["user"] = "reading" /\ op'["user"] = "back"
        /\ left'["user"] = tokens /\ tokens' = tokens /\ pos'.status = "returning"
        /\ tokens \in Nat
    BY <1>3 DEF CheckSell, Begin, SameChain, chain, LifeInv, FlowTypes, ChainTypes, Record
  <2>4. UserKnows'
    BY <2>3 DEF UserKnows, Purchases
  <2> QED BY <2>2, <2>3, <2>4, UserGoesOn DEF AfterSell
<1>4. ASSUME NEW n \in 1..TokensPerBuy, StartSell(n) PROVE SellInv'
  <2>1. /\ SameChain /\ at'["user"] = "signing" /\ op'["user"] = "sell"
        /\ take'["user"] = n /\ left'["user"] = tokens - n /\ tokens' = tokens
        /\ pos'.status = "selling"
    BY <1>4 DEF StartSell, Begin, SameChain, chain, LifeInv, FlowTypes, Record
  <2>2. n \in Nat /\ n >= 1 /\ tokens \in Nat /\ tokens > 0
    BY <1>4 DEF StartSell, LifeInv, ChainTypes
  <2>3. UserKnows'
    BY <2>1, <2>2 DEF UserKnows, Selling, Purchases
  <2>4. ~HasSold => tokens = TokensPerBuy /\ usdg = 0
    BY <2>2 DEF SellInv, Money
  <2> QED BY <2>1, <2>3, <2>4, UserGoesOn DEF AfterSell
<1> QED BY <1>1, <1>2, <1>3, <1>4 DEF Click

LEMMA ReloadSells ==
  ASSUME LifeInv, SellInv, Reload
  PROVE  SellInv'
<1>1. SameChain /\ at'["user"] = "idle" /\ op'["user"] = "none" /\ pos' = pos
  BY SellFacts DEF Reload, SameChain
<1> QED BY <1>1, UserStops DEF SellInv, NoMoreBuys

LEMMA DeliverSells ==
  ASSUME LifeInv, SellInv, Deliver
  PROVE  SellInv'
<1>1. /\ ~delivered /\ delivered' = TRUE /\ usdg' = usdg + 1
      /\ UNCHANGED <<tokens, nonce, batches, pos, at, op, take, left, tx>>
  BY DEF Deliver, flow
<1>2. tokens = 0 /\ usdg = 0 /\ ~HasSold /\ TokensPerBuy # 0
  BY <1>1, LifecycleAssumption DEF SellInv, Money, LifecycleAssumption
<1>3. HasSold' = HasSold /\ Sold' = Sold /\ UserSells' = UserSells
  BY <1>1 DEF HasSold, Sold, UserSells
<1>4. Money' /\ Signatures'
  BY <1>1, <1>2, <1>3 DEF SellInv, Money, Signatures
<1>5. NoMoreBuys'
  BY <1>2, <1>3 DEF SellInv, NoMoreBuys
<1>6. UserKnows'
  BY <1>1 DEF SellInv, UserKnows, Selling
<1> QED BY <1>4, <1>5, <1>6 DEF SellInv


-----------------------------------------------------------------------------
(***************************************************************************)
(* The chain, again.                                                       *)
(***************************************************************************)
\* A batch changes its fate, and nothing else.
Decided(i, fate) ==
  /\ batches' = [batches EXCEPT ![i].fate = fate]
  /\ UNCHANGED <<pos, flow>>

LEMMA DecidedFacts ==
  ASSUME LifeInv, NEW i \in DOMAIN batches,
         NEW fate \in {"pending", "executed", "reverted", "refused"}, Decided(i, fate)
  PROVE  /\ DOMAIN batches' = DOMAIN batches
         /\ \A n \in DOMAIN batches :
              /\ batches'[n].kind = batches[n].kind
              /\ batches'[n].nonce = batches[n].nonce
              /\ batches'[n].amount = batches[n].amount
              /\ batches'[n].fate = IF n = i THEN fate ELSE batches[n].fate
         /\ Sold' = Sold /\ UserSells' = UserSells
         /\ UNCHANGED <<pos, at, op, take, left, tx>>
<1>1. batches \in Seq(Batch) /\ i \in 1..Len(batches)
  BY DEF LifeInv, BatchTypes
<1>2. DOMAIN batches' = DOMAIN batches
  BY <1>1 DEF Decided
<1>3. ASSUME NEW n \in DOMAIN batches
      PROVE  /\ batches'[n].kind = batches[n].kind
             /\ batches'[n].nonce = batches[n].nonce
             /\ batches'[n].amount = batches[n].amount
             /\ batches'[n].fate = IF n = i THEN fate ELSE batches[n].fate
  <2>1. batches[n] \in Batch
    BY <1>1
  <2>2. batches'[n] = IF n = i THEN [batches[n] EXCEPT !.fate = fate] ELSE batches[n]
    BY <1>1 DEF Decided
  <2> QED BY <2>1, <2>2 DEF Batch
<1>4. UNCHANGED <<pos, at, op, take, left, tx>>
  BY DEF Decided, flow
<1>5. Sold' = Sold
  BY <1>2, <1>3 DEF Sold
<1>6. UserSells' = UserSells
  BY <1>4 DEF UserSells
<1> QED BY <1>2, <1>3, <1>4, <1>5, <1>6

\* What the relayer refuses or broadcasts, and what reverts, moves nothing.
LEMMA UnexecutedSells ==
  ASSUME LifeInv, SellInv, NEW i \in DOMAIN batches,
         NEW fate \in {"pending", "reverted", "refused"}, Decided(i, fate),
         batches[i].fate # "executed", UNCHANGED chain
  PROVE  SellInv'
<1>1. /\ DOMAIN batches' = DOMAIN batches
      /\ \A n \in DOMAIN batches :
           /\ batches'[n].kind = batches[n].kind
           /\ batches'[n].nonce = batches[n].nonce
           /\ batches'[n].amount = batches[n].amount
           /\ (batches'[n].fate = "executed") = (batches[n].fate = "executed")
      /\ Sold' = Sold /\ UserSells' = UserSells
      /\ UNCHANGED <<pos, at, op, take, left, tx>>
  BY DecidedFacts
<1>2. UNCHANGED <<usdg, tokens, nonce, delivered>>
  BY DEF chain
<1>3. HasSold' = HasSold
  BY <1>1 DEF HasSold
<1>4. Money'
  BY <1>2, <1>3 DEF SellInv, Money
<1>5. Signatures'
  BY <1>1, <1>2 DEF SellInv, Signatures
<1>6. NoMoreBuys'
  BY <1>1, <1>2, <1>3 DEF SellInv, NoMoreBuys
<1>7. at["user"] \in {"posting", "confirming"} => tx["user"] \in DOMAIN batches
  BY SellFacts DEF LifeInv, FlowTypes, BatchTypes, InOrder, InFlight
<1>8. Selling => Selling'
  BY <1>1, <1>2, <1>7 DEF Selling
<1>9. UserKnows'
  BY <1>1, <1>2, <1>8 DEF SellInv, UserKnows
<1> QED BY <1>4, <1>5, <1>6, <1>9 DEF SellInv

\* After a sale no buy is left that could execute, and none after the user has begun
\* to sell.
LEMMA BuysAreOver ==
  ASSUME LifeInv, SellInv, NEW i \in DOMAIN batches, batches[i].kind = "buy",
         batches[i].nonce = nonce, usdg >= batches[i].amount
  PROVE  ~HasSold /\ ~Sold /\ ~UserSells
<1>1. nonce \in Nat /\ batches[i].amount = 1
  BY DEF LifeInv, ChainTypes, SellInv, Signatures
<1>2. ASSUME NEW j \in DOMAIN batches, batches[j].kind = "sell", batches[j].fate = "executed"
      PROVE  FALSE
  <2>1. batches[i].nonce <= batches[j].nonce /\ batches[j].nonce < nonce
    BY <1>2 DEF SellInv, Signatures
  <2>2. batches[j].nonce \in Nat
    <3>1. batches[j] \in Batch
      BY <1>2 DEF LifeInv, BatchTypes
    <3> QED BY <3>1 DEF Batch
  <2> QED BY <1>1, <2>1, <2>2
<1>3. ~HasSold
  BY <1>2 DEF HasSold
<1> QED BY <1>1, <1>3 DEF SellInv, NoMoreBuys

LEMMA IncludeSells ==
  ASSUME LifecycleAssumption, LifeInv, SellInv, NEW i \in DOMAIN batches, Include(i)
  PROVE  SellInv'
<1> DEFINE n == batches[i].amount
           kind == batches[i].kind
<1>1. /\ Decided(i, "executed") /\ batches[i].nonce = nonce /\ nonce' = nonce + 1
      /\ delivered' = delivered /\ batches[i].fate = "pending"
  BY DEF Include, Decide, Decided
<1>2. /\ DOMAIN batches' = DOMAIN batches
      /\ \A j \in DOMAIN batches :
           /\ batches'[j].kind = batches[j].kind
           /\ batches'[j].nonce = batches[j].nonce
           /\ batches'[j].amount = batches[j].amount
           /\ batches'[j].fate = IF j = i THEN "executed" ELSE batches[j].fate
      /\ Sold' = Sold /\ UserSells' = UserSells
      /\ UNCHANGED <<pos, at, op, take, left, tx>>
  BY <1>1, DecidedFacts
<1>3. /\ {usdg, tokens, nonce} \subseteq Nat /\ n \in Nat /\ TokensPerBuy \in Nat \ {0}
      /\ kind \in {"launch", "buy", "sell", "back"}
      /\ \A j \in DOMAIN batches : batches[j].nonce \in Nat
  <2>1. \A j \in DOMAIN batches : batches[j] \in Batch
    BY DEF LifeInv, BatchTypes
  <2>2. {usdg, tokens, nonce} \subseteq Nat /\ TokensPerBuy \in Nat \ {0}
    BY DEF LifeInv, ChainTypes, LifecycleAssumption
  <2> QED BY <2>1, <2>2 DEF Batch
<1>4. /\ kind = "launch" => tokens' = tokens /\ usdg' = usdg
      /\ kind = "buy" => usdg >= n /\ usdg' = usdg - n /\ tokens' = tokens + TokensPerBuy
      /\ kind = "sell" => tokens >= n /\ tokens' = tokens - n /\ usdg' = usdg + n
      /\ kind = "back" => usdg >= n /\ usdg' = usdg - n /\ tokens' = tokens
  BY DEF Include
<1>5. /\ kind = "buy" => n = 1 /\ ~HasSold /\ ~Sold /\ ~UserSells
      /\ kind = "sell" => n >= 1
  BY <1>1, <1>4, BuysAreOver DEF SellInv, Signatures
<1> HIDE DEF n, kind
<1>6. Signatures'
  BY <1>1, <1>2, <1>3 DEF SellInv, Signatures
<1>7. HasSold => HasSold'
  BY <1>2 DEF HasSold
<1>8. kind = "sell" => HasSold' /\ Sold
  BY <1>2 DEF HasSold, Sold, kind
<1>9. kind # "sell" => HasSold' = HasSold
  BY <1>2 DEF HasSold, kind
<1>10. ~delivered => kind # "buy" /\ kind # "sell" /\ usdg' = 0 /\ tokens' = 0
  BY <1>3, <1>4, <1>5 DEF SellInv, Money
<1>11. Money'
  <2>1. ~delivered' => tokens' = 0 /\ usdg' = 0 /\ ~HasSold'
    BY <1>1, <1>9, <1>10 DEF SellInv, Money
  <2>2. ASSUME ~HasSold'
        PROVE  \/ usdg' = 0 /\ tokens' \in {0, TokensPerBuy}
               \/ usdg' = 1 /\ tokens' = 0
    <3>1. /\ kind # "sell" /\ ~HasSold
          /\ \/ usdg = 0 /\ tokens \in {0, TokensPerBuy}
             \/ usdg = 1 /\ tokens = 0
      BY <1>7, <1>8, <2>2 DEF SellInv, Money
    <3> QED BY <1>3, <1>4, <1>5, <3>1
  <2> QED BY <2>1, <2>2 DEF Money
<1>12. Sold \/ UserSells => kind # "buy" /\ tokens' <= tokens
  BY <1>3, <1>4, <1>5
<1>13. NoMoreBuys'
  <2>1. SUFFICES ASSUME Sold \/ UserSells
                 PROVE  /\ pos.status \in AfterSell
                        /\ at["user"] = "idle" \/ op["user"] \in {"sell", "back"}
                        /\ ~HasSold' => tokens' = TokensPerBuy /\ usdg' = 0
    BY <1>2 DEF NoMoreBuys
  <2>2. ASSUME ~HasSold' PROVE tokens' = TokensPerBuy /\ usdg' = 0
    <3>1. kind \in {"launch", "back"} /\ tokens = TokensPerBuy /\ usdg = 0
      BY <1>3, <1>5, <1>7, <1>8, <2>1, <2>2 DEF SellInv, NoMoreBuys
    <3> QED BY <1>3, <1>4, <3>1
  <2> QED BY <2>1, <2>2 DEF SellInv, NoMoreBuys
<1>14. ASSUME Selling, UserSells, op["user"] = "sell" PROVE Selling'
  <2>1. tokens' <= tokens /\ take["user"] \in Nat /\ left["user"] \in Nat
    BY <1>12, <1>14, SellFacts DEF LifeInv, FlowTypes
  <2>2. tokens' \in Nat
    BY <1>3, <1>4
  <2>3. tokens' <= left["user"] + take["user"]
    BY <1>3, <1>14, <2>1, <2>2 DEF Selling
  <2>4. ASSUME at["user"] # "signing"
        PROVE  /\ batches'[tx["user"]].amount = take["user"]
               /\ batches'[tx["user"]].fate = "executed" => tokens' <= left["user"]
    <3>1. /\ tx["user"] \in DOMAIN batches /\ batches[tx["user"]].kind = "sell"
          /\ batches[tx["user"]].amount = take["user"]
      <4>1. at["user"] \in InFlight
        BY <1>14, <2>4 DEF Selling, InFlight
      <4> QED BY <1>14, <2>4, <4>1, SellFacts
              DEF LifeInv, FlowTypes, BatchTypes, InOrder, KindOf, Selling
    <3>2. CASE tx["user"] = i
      <4>1. tokens' = tokens - take["user"]
        BY <1>4, <3>1, <3>2 DEF n, kind
      <4>2. tokens' <= left["user"]
        BY <1>3, <1>14, <2>1, <4>1 DEF Selling
      <4> QED BY <1>2, <3>1, <4>2
    <3>3. CASE tx["user"] # i
      <4>1. batches[tx["user"]].fate = "executed" => tokens <= left["user"]
        BY <1>14, <2>4 DEF Selling
      <4>2. batches[tx["user"]].fate = "executed" => tokens' <= left["user"]
        BY <1>3, <2>1, <2>2, <4>1
      <4> QED BY <1>2, <3>1, <3>3, <4>2
    <3> QED BY <3>2, <3>3
  <2> QED BY <1>2, <1>14, <2>3, <2>4 DEF Selling
<1>15. ASSUME at["user"] # "idle", op["user"] = "back" PROVE tokens' <= left["user"]
  <2>1. tokens' <= tokens /\ tokens <= left["user"] /\ left["user"] \in Nat
    BY <1>12, <1>15, SellFacts DEF UserSells, SellInv, UserKnows, LifeInv, FlowTypes
  <2>2. tokens' \in Nat
    BY <1>3, <1>4
  <2> QED BY <1>3, <2>1, <2>2
<1>16. UserKnows'
  BY <1>2, <1>14, <1>15 DEF SellInv, UserKnows, UserSells
<1> QED BY <1>6, <1>11, <1>13, <1>16 DEF SellInv

LEMMA ChainSells ==
  ASSUME LifecycleAssumption, LifeInv, SellInv, Chain
  PROVE  SellInv'
<1>1. PICK i \in DOMAIN batches : Handle(i) \/ Include(i) \/ IncludeReverted(i)
  BY DEF Chain
<1>2. CASE Handle(i)
  BY <1>2, UnexecutedSells DEF Handle, Decide, Decided
<1>3. CASE Include(i)
  BY <1>3, IncludeSells
<1>4. CASE IncludeReverted(i)
  BY <1>4, UnexecutedSells DEF IncludeReverted, Decide, Decided
<1> QED BY <1>1, <1>2, <1>3, <1>4

-----------------------------------------------------------------------------
LEMMA SellInit ==
  ASSUME LifecycleAssumption, Init
  PROVE  SellInv
<1>1. DOMAIN batches = {}
  BY DEF Init
<1>2. /\ usdg = 0 /\ tokens = 0 /\ at["user"] = "idle" /\ op["user"] = "none"
  BY DEF Init, Flows
<1>3. ~Sold /\ ~HasSold /\ ~UserSells
  BY <1>1, <1>2 DEF Sold, HasSold, UserSells
<1>4. Money /\ NoMoreBuys
  BY <1>2, <1>3 DEF Money, NoMoreBuys
<1>5. Signatures
  BY <1>1 DEF Signatures
<1>6. UserKnows
  BY <1>2 DEF UserKnows, Purchases
<1> QED BY <1>4, <1>5, <1>6 DEF SellInv

LEMMA SellStep ==
  ASSUME LifecycleAssumption, LifeInv, SellInv, [Next]_vars
  PROVE  SellInv'
<1>1. CASE Click
  BY <1>1, ClickSells
<1>2. CASE UserFlow
  BY <1>2, UserFlowSells
<1>3. CASE AutoFlow
  BY <1>3, AutoFlowSells
<1>4. CASE Reload
  BY <1>4, ReloadSells
<1>5. CASE Deliver
  BY <1>5, DeliverSells
<1>6. CASE Chain
  BY <1>6, ChainSells
<1>7. CASE UNCHANGED vars
  <2>1. SameChain /\ UserSame /\ pos' = pos
    BY <1>7 DEF vars, flow, SameChain, UserSame
  <2> QED BY <2>1, UserWaits DEF SellInv, NoMoreBuys
<1> QED BY <1>1, <1>2, <1>3, <1>4, <1>5, <1>6, <1>7 DEF Next

LEMMA SellAlways ==
  Spec => [](LifeInv /\ SellInv)
<1>1. LifecycleAssumption
  BY LifecycleAssumption
<1>2. Init => LifeInv /\ SellInv
  BY <1>1, LifeInit, SellInit
<1>3. LifeInv /\ SellInv /\ [Next]_vars => (LifeInv /\ SellInv)'
  BY <1>1, LifeStep, SellStep
<1> QED BY <1>2, <1>3, PTL DEF Spec


\* What the user's own return leaves on the account (App.tsx, returnPositionToPool) is
\* no less than what there is: a position that it closes holds no tokens, whatever
\* buys were posted before and lost.
THEOREM UserClosesOnlyEmpty == Spec => UserClosesEmpty
<1>1. ASSUME LifeInv, SellInv, [Next]_vars,
             at["user"] = "crossing", at["auto"] = at'["auto"],
             pos.status # "closed", pos'.status = "closed"
      PROVE  tokens = 0
  <2>1. op["user"] = "back" /\ tokens <= left["user"] /\ tokens \in Nat /\ left["user"] \in Nat
    BY <1>1, SellFacts DEF SellInv, UserKnows, LifeInv, ChainTypes, FlowTypes
  <2>2. Returned("user")
    <3>1. CASE Click
      BY <1>1, <3>1 DEF Click, StartLaunch, StartBuy, RetryBuy, CheckNothing, CheckReverted,
                        CheckLaunch, CheckBuy, CheckSell, StartSell, UserMayAct
    <3>2. CASE UserFlow
      <4>1. Step("user")
        BY <1>1, <3>2 DEF UserFlow, LaunchFunded, Launched, LaunchThrows, LaunchConfirmed,
                          Funded, FundingFails, SeeUsdg, MissUsdg, BuyConfirmed,
                          SellConfirmed, CatchEnds
      <4>2. Returned("user") \/ ReturnThrows("user")
        BY <1>1, <4>1 DEF Step, Sign, SigningFails, Accepted, Rejected, NoAnswer,
                          ReturnConfirmed, ConfirmedReverted, NoReceipt, ReturnFunds,
                          ReturnRest, NothingToReturn
      <4>3. ~ReturnThrows("user")
        BY <1>1 DEF ReturnThrows, ReturnFails, Status, LifeInv, Record
      <4> QED BY <4>2, <4>3
    <3>3. CASE AutoFlow
      <4>1. ASSUME NEW stage, Goto("auto", stage), stage # at["auto"] PROVE FALSE
        BY <1>1, <4>1, SellFacts DEF Goto, LifeInv, FlowTypes
      <4>2. Step("auto")
        <5>1. ~AutoStarts
          BY <1>1 DEF AutoStarts, Status, LifeInv, Record
        <5>2. ~TimerFires
          BY <1>1 DEF TimerFires
        <5>3. AutoStarts \/ TimerFires \/ Step("auto")
          BY <3>3 DEF AutoFlow
        <5> QED BY <5>1, <5>2, <5>3
      <4>3. op["auto"] \notin Purchases \cup {"launch", "sell"}
        <5>1. op["auto"] \in {"none", "back", "giveBack"}
          BY <1>1 DEF LifeInv, FlowTypes
        <5> QED BY <5>1 DEF Purchases
      <4>4. ASSUME ReturnFails("auto") PROVE FALSE
        BY <1>1, <4>4 DEF ReturnFails, Status, LifeInv, Record
      <4>5. ASSUME NEW sure, NEW noted, Fails("auto", sure, noted) PROVE FALSE
        BY <4>3, <4>4, <4>5 DEF Fails
      <4>6. pos' = pos \/ NothingToReturn("auto") \/ Returned("auto")
        BY <4>2, <4>3, <4>4, <4>5 DEF Step, Sign, SigningFails, Accepted, Rejected, NoAnswer,
                          ReturnConfirmed, ConfirmedReverted, NoReceipt, ReturnFunds,
                          ReturnRest, ReturnThrows
      <4> QED BY <1>1, <4>1, <4>4, <4>6 DEF NothingToReturn, Returned
    <3>4. CASE Reload \/ Deliver \/ Chain \/ UNCHANGED vars
      BY <1>1, <3>4 DEF Reload, Deliver, Chain, Handle, Include, IncludeReverted, vars
    <3> QED BY <1>1, <3>1, <3>2, <3>3, <3>4 DEF Next
  <2>3. left["user"] = 0
    BY <1>1, <2>1, <2>2 DEF Returned, LifeInv, Record
  <2> QED BY <2>1, <2>3
<1>2. LifeInv /\ SellInv /\ [Next]_vars =>
        (at["user"] = "crossing" /\ at["auto"] = at'["auto"]
         /\ pos.status # "closed" /\ pos'.status = "closed" => tokens = 0)
  BY <1>1
<1> QED BY <1>2, SellAlways, PTL DEF Spec, UserClosesEmpty

-----------------------------------------------------------------------------
(***************************************************************************)
(* A page that is neither reloaded nor told of a broadcast batch that it   *)
(* was not.  Timeouts may still hide what became of a batch, and a first   *)
(* buy that failed is returned automatically.  Then either there is no     *)
(* automatic return, and the user's return comes after the death of every  *)
(* other batch; or there is one, and nothing was bought.                   *)
(***************************************************************************)
\* Batches that have not executed never will: their nonce is used.
AllDead == \A i \in DOMAIN batches :
  batches[i].fate \in {"posted", "pending"} => batches[i].nonce < nonce

InTurn == \A i, j \in DOMAIN batches : i <= j => batches[i].nonce <= batches[j].nonce

Moved == \E i \in DOMAIN batches : batches[i].fate = "executed" /\ batches[i].kind # "launch"

Balance == ~Moved => tokens = 0 /\ usdg = IF delivered THEN 1 ELSE 0

Empty == delivered /\ tokens = 0 /\ usdg = 0 /\ AllDead

\* The first buy of a position has no rival.
FirstPurchase ==
  /\ at["user"] \notin {"idle", "funding"} /\ op["user"] \in {"launch", "buy"} => delivered
  /\ at["user"] # "idle" /\ op["user"] = "launch" =>
       \A i \in DOMAIN batches : batches[i].kind = "launch"
  /\ at["user"] # "idle" /\ op["user"] = "buy" =>
       \A i \in DOMAIN batches :
         \/ batches[i].kind = "launch"
         \/ at["user"] \in {"posting", "confirming"} /\ i = tx["user"]

\* The sale the record tells of is the last batch that was signed.
Sale ==
  /\ at["user"] \in InFlight => tx["user"] = Len(batches)
  /\ at["user"] = "confirming" /\ op["user"] = "sell" => pos.sellTx = tx["user"]
  /\ at["user"] = "idle" /\ pos.status = "selling" => pos.sellTx = Len(batches)

\* The user's return takes all the USDG there is, and nothing comes after it.
Home ==
  op["user"] = "back" =>
    /\ at["user"] \in {"reading", "signing", "crossing"} => AllDead
    /\ at["user"] = "signing" => take["user"] = usdg
    /\ at["user"] = "crossing" => usdg = 0
    /\ at["user"] \in {"posting", "confirming"} =>
         /\ \A i \in DOMAIN batches :
              i # tx["user"] /\ batches[i].fate \in {"posted", "pending"} =>
                batches[i].nonce < nonce
         /\ IF Fate("user") = "executed"
              THEN usdg = 0
              ELSE batches[tx["user"]].amount = usdg

NoReturn ==
  /\ FirstPurchase /\ Sale /\ Home
  /\ pos.status = "closed" => Empty /\ at["user"] = "idle"
  /\ pos.status \in {"none", "held"} => at["user"] = "idle"
  /\ pos.status = "none" => batches = <<>>
  /\ at["user"] # "catching"

AutoReturn ==
  /\ op["auto"] = "giveBack" /\ delivered /\ tokens = 0 /\ usdg \in {0, 1}
  /\ at["user"] \in {"idle", "catching"}
  /\ \/ pos.status \in {"returning", "return-failed", "closed"}
     \/ pos.status \in {"buy-failed", "failed"} /\ at["user"] = "catching" /\ at["auto"] = "starting"
  /\ \A i \in DOMAIN batches :
       /\ batches[i].kind # "sell"
       /\ batches[i].kind = "buy" => batches[i].fate \in {"refused", "reverted"}
       /\ batches[i].kind = "back" => batches[i].amount = 1
       /\ batches[i].kind = "back" /\ batches[i].fate = "executed" => usdg = 0
  /\ at["auto"] = "signing" => take["auto"] = 1
  /\ at["auto"] = "crossing" => usdg = 0
  /\ pos.status = "closed" => usdg = 0 /\ at["auto"] = "done"

PageInv ==
  /\ InTurn /\ Balance
  /\ at["auto"] = "off" => NoReturn
  /\ at["auto"] # "off" => AutoReturn

LEMMA PageSame ==
  ASSUME PageInv, SameChain
  PROVE  /\ InTurn' /\ Balance' /\ AllDead' = AllDead /\ Empty' = Empty
         /\ UNCHANGED <<usdg, tokens, nonce, delivered, batches>>
<1>1. UNCHANGED <<usdg, tokens, nonce, delivered, batches>>
  BY DEF SameChain, chain
<1>2. Moved' = Moved /\ AllDead' = AllDead
  BY <1>1 DEF Moved, AllDead
<1> QED BY <1>1, <1>2 DEF PageInv, InTurn, Balance, Empty

LEMMA StopsAlone ==
  ASSUME PageInv, SameChain, at'["auto"] = "off", at'["user"] = "idle",
         pos'.status = "closed" => Empty,
         pos'.status = "selling" => pos'.sellTx = Len(batches), pos'.status # "none"
  PROVE  PageInv'
<1>1. /\ InTurn' /\ Balance' /\ Empty' = Empty
      /\ UNCHANGED <<usdg, tokens, nonce, delivered, batches>>
  BY PageSame
<1>2. FirstPurchase'
  BY DEF FirstPurchase
<1>3. Sale'
  BY <1>1 DEF Sale, InFlight
<1>4. Home'
  BY DEF Home
<1> QED BY <1>1, <1>2, <1>3, <1>4 DEF PageInv, NoReturn

\* What a flow of purchases must know, to go on.
LEMMA BuysAlone ==
  ASSUME PageInv, SameChain, at'["auto"] = "off", op'["user"] \in Purchasing,
         at'["user"] \notin {"idle", "catching"}, FirstPurchase',
         at'["user"] \in InFlight => tx'["user"] = Len(batches),
         pos'.status \notin {"none", "held", "closed"}
  PROVE  PageInv'
<1>1. InTurn' /\ Balance' /\ batches' = batches
  BY PageSame
<1>2. Sale' /\ Home'
  BY <1>1 DEF Sale, InFlight, Home, Purchasing
<1> QED BY <1>1, <1>2 DEF PageInv, NoReturn

\* The first buy, or the launch, has failed for sure: its money is returned.
LEMMA AwaitAlone ==
  ASSUME LifeInv, PageInv, SameChain, at["auto"] = "off", AwaitReturn,
         at["user"] \notin {"idle", "funding", "off"}, op["user"] \in {"launch", "buy"},
         op["user"] = "buy" /\ at["user"] \in {"posting", "confirming"} =>
           Fate("user") \in {"refused", "reverted"},
         pos'.status \in {"buy-failed", "failed"}
  PROVE  PageInv'
<1>1. /\ InTurn' /\ Balance'
      /\ UNCHANGED <<usdg, tokens, nonce, delivered, batches>>
  BY PageSame
<1>2. /\ at'["user"] = "catching" /\ at'["auto"] = "starting" /\ op'["auto"] = "giveBack"
  BY DEF AwaitReturn, LifeInv, FlowTypes, Flows
<1>3. FirstPurchase /\ delivered
  BY DEF PageInv, NoReturn, FirstPurchase
<1>4. ASSUME NEW i \in DOMAIN batches
      PROVE  \/ batches[i].kind = "launch"
             \/ batches[i].kind = "buy" /\ batches[i].fate \in {"refused", "reverted"}
  <2>1. CASE op["user"] = "launch"
    BY <1>3, <2>1 DEF FirstPurchase
  <2>2. CASE op["user"] = "buy" /\ batches[i].kind # "launch"
    <3>1. at["user"] \in {"posting", "confirming"} /\ i = tx["user"]
      BY <1>3, <2>2 DEF FirstPurchase
    <3>2. batches[i].kind = "buy"
      BY <2>2, <3>1 DEF LifeInv, InOrder, InFlight, KindOf, Flows
    <3> QED BY <2>2, <3>1, <3>2 DEF Fate
  <2> QED BY <2>1, <2>2
<1>5. ~Moved
  BY <1>4 DEF Moved
<1>6. tokens = 0 /\ usdg = 1
  BY <1>3, <1>5 DEF PageInv, Balance
<1> QED BY <1>1, <1>2, <1>3, <1>4, <1>6 DEF PageInv, AutoReturn

LEMMA FailsAlone ==
  ASSUME LifeInv, SellInv, PageInv, SameChain, at["auto"] = "off",
         at["user"] \notin {"idle", "funding", "off"},
         NEW sure \in BOOLEAN, NEW noted \in BOOLEAN, Fails("user", sure, noted),
         sure /\ op["user"] = "buy" /\ at["user"] \in {"posting", "confirming"} =>
           Fate("user") \in {"refused", "reverted"}
  PROVE  PageInv'
<1> USE SellFacts
<1>1. ASSUME Goto("user", "idle")
      PROVE  at'["user"] = "idle" /\ at'["auto"] = "off"
  BY <1>1 DEF Goto, LifeInv, FlowTypes
<1>2. /\ op["user"] = "launch" => pos'.status = "failed"
      /\ op["user"] \in Purchases => pos'.status = "buy-failed"
      /\ op["user"] = "sell" => pos'.status = "held"
      /\ op["user"] \in {"back", "giveBack"} => pos'.status = "return-failed"
      /\ \/ Goto("user", "idle")
         \/ AwaitReturn /\ op["user"] \in {"launch", "buy"} /\ sure
  <2>0. pos \in Record
    BY DEF LifeInv
  <2>2. CASE op["user"] = "launch" /\ LaunchFails(sure, noted)
    <3>1. pos'.status = "failed"
      BY <2>0, <2>2 DEF LaunchFails, Record
    <3>2. Goto("user", "idle") \/ (AwaitReturn /\ sure)
      BY <2>2 DEF LaunchFails
    <3> QED BY <2>2, <3>1, <3>2 DEF Purchases
  <2>3. CASE op["user"] \in Purchases /\ BuyFails(sure, noted)
    <3>1. pos'.status = "buy-failed"
      BY <2>0, <2>3 DEF BuyFails, Record
    <3>2. Goto("user", "idle") \/ (AwaitReturn /\ op["user"] = "buy" /\ sure)
      BY <2>3 DEF BuyFails
    <3> QED BY <2>3, <3>1, <3>2 DEF Purchases
  <2>4. CASE op["user"] = "sell" /\ Status("held") /\ Goto("user", "idle")
    <3>1. pos'.status = "held"
      BY <2>0, <2>4 DEF Status, Record
    <3> QED BY <2>4, <3>1 DEF Purchases
  <2>5. CASE op["user"] \in {"back", "giveBack"} /\ ReturnFails("user")
    <3>1. pos'.status = "return-failed" /\ Goto("user", "idle")
      BY <2>0, <2>5 DEF ReturnFails, Status, Record
    <3> QED BY <2>5, <3>1 DEF Purchases
  <2> QED BY <2>2, <2>3, <2>4, <2>5 DEF Fails
<1>3. CASE Goto("user", "idle")
  BY <1>1, <1>2, <1>3, StopsAlone DEF Purchases, Purchasing
<1>4. CASE AwaitReturn /\ op["user"] \in {"launch", "buy"} /\ sure
  BY <1>2, <1>4, AwaitAlone DEF Purchases
<1> QED BY <1>2, <1>3, <1>4


LEMMA SignedFacts ==
  ASSUME LifeInv, NEW f \in Flows, Sign(f)
  PROVE  LET n == Len(batches)
         IN  /\ n \in Nat /\ DOMAIN batches = 1..n /\ DOMAIN batches' = 1..(n + 1)
             /\ Len(batches') = n + 1
             /\ \A i \in 1..n : batches'[i] = batches[i]
             /\ batches'[n + 1].kind = KindOf[op[f]] /\ batches'[n + 1].nonce = nonce
             /\ batches'[n + 1].amount = take[f] /\ batches'[n + 1].fate = "posted"
             /\ at[f] = "signing" /\ at' = [at EXCEPT ![f] = "posting"]
             /\ tx' = [tx EXCEPT ![f] = n + 1] /\ tx'[f] = n + 1 /\ at'[f] = "posting"
             /\ op[f] \in Ops \ {"none"}
             /\ UNCHANGED <<usdg, tokens, nonce, delivered, pos, op, take, left>>
<1> DEFINE b == [kind |-> KindOf[op[f]], nonce |-> nonce, amount |-> take[f],
                 fate |-> "posted"]
           n == Len(batches)
<1>1. /\ at[f] = "signing" /\ batches' = Append(batches, b)
      /\ at' = [at EXCEPT ![f] = "posting"] /\ tx' = [tx EXCEPT ![f] = n + 1]
      /\ UNCHANGED <<usdg, tokens, nonce, delivered, pos, op, take, left, busy>>
  BY DEF Sign, chain
<1>2. batches \in Seq(Batch) /\ n \in Nat
  BY DEF LifeInv, BatchTypes
<1>3. op[f] \in Ops \ {"none"}
  BY <1>1 DEF LifeInv, FlowTypes, InOrder
<1>4. /\ DOMAIN batches = 1..n /\ DOMAIN batches' = 1..(n + 1) /\ Len(batches') = n + 1
      /\ batches'[n + 1] = b /\ \A i \in 1..n : batches'[i] = batches[i]
  BY <1>1, <1>2
<1>5. b.nonce = nonce /\ b.amount = take[f] /\ b.fate = "posted" /\ b.kind = KindOf[op[f]]
  OBVIOUS
<1>6. tx'[f] = n + 1 /\ at'[f] = "posting"
  BY <1>1 DEF LifeInv, FlowTypes
<1> HIDE DEF b, n
<1>7. QED BY <1>1, <1>2, <1>3, <1>4, <1>5, <1>6 DEF n

LEMMA SignedKeeps ==
  ASSUME LifeInv, SellInv, PageInv, NEW f \in Flows, Sign(f)
  PROVE  InTurn' /\ Balance'
<1> DEFINE n == Len(batches)
<1>1. /\ n \in Nat /\ DOMAIN batches = 1..n /\ DOMAIN batches' = 1..(n + 1)
      /\ \A i \in 1..n : batches'[i] = batches[i]
      /\ batches'[n + 1].nonce = nonce /\ batches'[n + 1].fate = "posted"
      /\ UNCHANGED <<usdg, tokens, nonce, delivered>>
  BY SignedFacts
<1> HIDE DEF n
<1>2. Moved => Moved'
  BY <1>1 DEF Moved
<1>3. \A i \in 1..n : batches[i].nonce <= nonce
  BY <1>1 DEF SellInv, Signatures
<1>4. nonce \in Nat
  BY DEF LifeInv, ChainTypes
<1>5. ASSUME NEW i \in 1..(n + 1), NEW j \in 1..(n + 1), i <= j
      PROVE  batches'[i].nonce <= batches'[j].nonce
  <2>1. CASE j = n + 1
    BY <1>1, <1>3, <1>4, <2>1
  <2>2. CASE j \in 1..n
    BY <1>1, <1>5, <2>2 DEF PageInv, InTurn
  <2> QED BY <1>1, <2>1, <2>2
<1>6. InTurn'
  BY <1>1, <1>5 DEF InTurn
<1> QED BY <1>1, <1>2, <1>6 DEF PageInv, Balance

LEMMA SignAlone ==
  ASSUME LifeInv, SellInv, PageInv, at["auto"] = "off", Sign("user")
  PROVE  PageInv'
<1> USE SellFacts
<1> DEFINE n == Len(batches)
<1>1. /\ n \in Nat /\ DOMAIN batches = 1..n /\ DOMAIN batches' = 1..(n + 1)
      /\ Len(batches') = n + 1
      /\ \A i \in 1..n : batches'[i] = batches[i]
      /\ batches'[n + 1].kind = KindOf[op["user"]] /\ batches'[n + 1].fate = "posted"
      /\ batches'[n + 1].amount = take["user"]
      /\ at["user"] = "signing" /\ at' = [at EXCEPT !["user"] = "posting"]
      /\ tx'["user"] = n + 1 /\ at'["user"] = "posting"
      /\ UNCHANGED <<usdg, tokens, nonce, delivered, pos, op, take>>
  BY SignedFacts
<1>2. at'["auto"] = "off"
  BY <1>1 DEF LifeInv, FlowTypes
<1> HIDE DEF n
<1>3. FirstPurchase /\ Sale /\ Home /\ pos.status \notin {"none", "closed", "held"}
  BY <1>1 DEF PageInv, NoReturn
<1>4. FirstPurchase'
  BY <1>1, <1>3 DEF FirstPurchase, KindOf
<1>5. Sale'
  BY <1>1 DEF Sale, InFlight
<1>6. ASSUME op["user"] = "back"
      PROVE  /\ Fate("user")' # "executed" /\ batches'[tx'["user"]].amount = usdg
             /\ \A i \in 1..n : batches[i].fate \in {"posted", "pending"} =>
                                  batches[i].nonce < nonce
  BY <1>1, <1>3, <1>6 DEF Home, AllDead, Fate
<1>7. Home'
  BY <1>1, <1>6 DEF Home
<1> QED BY <1>1, <1>2, <1>3, <1>4, <1>5, <1>7, SignedKeeps DEF PageInv, NoReturn

LEMMA SignHelped ==
  ASSUME LifeInv, SellInv, PageInv, at["auto"] # "off", NEW f \in Flows, Sign(f)
  PROVE  PageInv'
<1> USE SellFacts
<1>1. AutoReturn /\ at[f] = "signing"
  BY DEF PageInv, Sign
<1>2. f = "auto"
  BY <1>1 DEF AutoReturn, Flows
<1> DEFINE n == Len(batches)
<1>3. /\ n \in Nat /\ DOMAIN batches = 1..n /\ DOMAIN batches' = 1..(n + 1)
      /\ \A i \in 1..n : batches'[i] = batches[i]
      /\ batches'[n + 1].kind = KindOf[op["auto"]] /\ batches'[n + 1].fate = "posted"
      /\ batches'[n + 1].amount = take["auto"]
      /\ at' = [at EXCEPT !["auto"] = "posting"] /\ at'["auto"] = "posting"
      /\ UNCHANGED <<usdg, tokens, nonce, delivered, pos, op>>
  BY <1>2, SignedFacts
<1> HIDE DEF n
<1>4. at'["user"] = at["user"] /\ KindOf["giveBack"] = "back"
  BY <1>3 DEF LifeInv, FlowTypes, KindOf
<1>5. ASSUME NEW i \in 1..(n + 1)
      PROVE  /\ batches'[i].kind # "sell"
             /\ batches'[i].kind = "buy" => batches'[i].fate \in {"refused", "reverted"}
             /\ batches'[i].kind = "back" => batches'[i].amount = 1
             /\ batches'[i].kind = "back" /\ batches'[i].fate = "executed" => usdg = 0
  <2>1. CASE i = n + 1
    BY <1>1, <1>2, <1>3, <1>4, <2>1 DEF AutoReturn
  <2>2. CASE i \in 1..n
    BY <1>1, <1>3, <2>2 DEF AutoReturn
  <2> QED BY <1>3, <2>1, <2>2
<1>6. AutoReturn'
  BY <1>1, <1>2, <1>3, <1>4, <1>5 DEF AutoReturn
<1> QED BY <1>3, <1>6, SignedKeeps DEF PageInv

-----------------------------------------------------------------------------
(***************************************************************************)
(* The user's flow, without an automatic return.                           *)
(***************************************************************************)
LEMMA StepAlone ==
  ASSUME LifecycleAssumption, ~Losses, LifeInv, SellInv, PageInv, at["auto"] = "off",
         Step("user")
  PROVE  PageInv'
<1> USE SellFacts
<1>0. NoReturn
  BY DEF PageInv
<1>1. CASE Sign("user")
  BY <1>1, SignAlone
<1>2. CASE SigningFails("user")
  BY <1>2, FailsAlone DEF SigningFails, SameChain
<1>3. CASE Accepted("user")
  <2>1. /\ at["user"] = "posting" /\ SameChain /\ UNCHANGED <<op, take, left, tx>>
        /\ at' = [at EXCEPT !["user"] = IF op["user"] = "launch" THEN "mining" ELSE "confirming"]
        /\ batches' = batches /\ usdg' = usdg /\ nonce' = nonce /\ delivered' = delivered
    BY <1>3 DEF Accepted, Goto, SameChain, chain
  <2>2. /\ at'["user"] = IF op["user"] = "launch" THEN "mining" ELSE "confirming"
        /\ at'["auto"] = "off" /\ tx["user"] = Len(batches)
    BY <1>0, <2>1 DEF LifeInv, FlowTypes, NoReturn, Sale, InFlight
  <2>3. pos.status \notin {"none", "held", "closed"}
    BY <1>0, <2>1 DEF NoReturn
  <2>4. CASE op["user"] \in Purchasing
    <3>1. pos'.status \notin {"none", "held", "closed"}
      BY <1>3, <2>3, <2>4 DEF Accepted, Purchases, Purchasing, LifeInv, Record
    <3>2. FirstPurchase'
      BY <1>0, <2>1, <2>2 DEF NoReturn, FirstPurchase
    <3> QED BY <2>1, <2>2, <2>4, <3>1, <3>2, BuysAlone
  <2>5. CASE op["user"] \in {"sell", "back"}
    <3>1. /\ op["user"] = "sell" => pos'.status = "selling" /\ pos'.sellTx = tx["user"]
          /\ op["user"] = "back" => pos' = pos
      BY <1>3, <2>5 DEF Accepted, Purchases, LifeInv, Record
    <3>2. FirstPurchase'
      BY <2>1, <2>5 DEF FirstPurchase
    <3>3. Sale'
      BY <2>1, <2>2, <2>5, <3>1 DEF Sale, InFlight
    <3>4. Home'
      BY <1>0, <2>1, <2>2 DEF NoReturn, Home, Fate
    <3> QED BY <2>1, <2>2, <2>3, <2>5, <3>1, <3>2, <3>3, <3>4, PageSame DEF PageInv, NoReturn
  <2> QED BY <2>1, <2>4, <2>5
<1>4. CASE Rejected("user")
  BY <1>4, FailsAlone DEF Rejected, SameChain
<1>5. CASE NoAnswer("user")
  BY <1>5, FailsAlone DEF NoAnswer, SameChain
<1>6. CASE ReturnConfirmed("user") \/ ReturnRest("user")
  <2>1. /\ SameChain /\ op["user"] = "back" /\ op' = op /\ pos' = pos
        /\ at' = [at EXCEPT !["user"] = "crossing"] /\ at["user"] # "idle"
        /\ batches' = batches /\ usdg' = usdg /\ nonce' = nonce
    BY <1>6 DEF ReturnConfirmed, ReturnRest, Goto, SameChain, chain, SellInv, UserKnows
  <2>2. at'["user"] = "crossing" /\ at'["auto"] = "off"
    BY <2>1 DEF LifeInv, FlowTypes
  <2>3. AllDead /\ usdg = 0
    <3>1. CASE ReturnRest("user")
      BY <1>0, <2>1, <3>1 DEF ReturnRest, NoReturn, Home
    <3>2. CASE ReturnConfirmed("user")
      <4>1. /\ at["user"] = "confirming" /\ Fate("user") = "executed"
        BY <3>2 DEF ReturnConfirmed
      <4>2. /\ usdg = 0
            /\ \A i \in DOMAIN batches :
                 i # tx["user"] /\ batches[i].fate \in {"posted", "pending"} =>
                   batches[i].nonce < nonce
        BY <1>0, <2>1, <4>1 DEF NoReturn, Home
      <4> QED BY <4>1, <4>2 DEF AllDead, Fate
    <3> QED BY <1>6, <3>1, <3>2
  <2>4. FirstPurchase' /\ Sale' /\ Home'
    BY <2>1, <2>2, <2>3, PageSame DEF FirstPurchase, Sale, InFlight, Home
  <2> QED BY <1>0, <2>1, <2>2, <2>4, PageSame DEF PageInv, NoReturn
<1>7. CASE ConfirmedReverted("user")
  BY <1>7, FailsAlone DEF ConfirmedReverted, SameChain
<1>8. CASE NoReceipt("user")
  <2>1. at["user"] = "confirming" /\ SameChain
    BY <1>8 DEF NoReceipt, SameChain
  <2>2. CASE op["user"] \in Purchases /\ BuyFails(FALSE, FALSE)
    BY <2>1, <2>2, FailsAlone DEF Fails
  <2>3. CASE op["user"] = "launch" /\ Status("launching") /\ Goto("user", "idle")
    <3>1. at'["user"] = "idle" /\ at'["auto"] = "off" /\ pos'.status = "launching"
      BY <2>3 DEF Goto, Status, LifeInv, FlowTypes, Record
    <3> QED BY <2>1, <3>1, StopsAlone
  <2>4. CASE op["user"] = "sell" /\ Status("selling") /\ Goto("user", "idle")
    <3>1. /\ at'["user"] = "idle" /\ at'["auto"] = "off" /\ pos'.status = "selling"
          /\ pos'.sellTx = pos.sellTx
      BY <2>4 DEF Goto, Status, LifeInv, FlowTypes, Record
    <3>2. pos.sellTx = Len(batches)
      BY <1>0, <2>1, <2>4 DEF NoReturn, Sale, InFlight
    <3> QED BY <2>1, <3>1, <3>2, StopsAlone
  <2>5. CASE op["user"] \in {"back", "giveBack"} /\ ReturnFails("user")
    BY <2>1, <2>5, FailsAlone DEF Fails
  <2> QED BY <1>8, <2>2, <2>3, <2>4, <2>5 DEF NoReceipt
<1>9. CASE ReturnFunds("user")
  <2>1. /\ SameChain /\ op["user"] = "back" /\ op' = op /\ pos' = pos
        /\ at' = [at EXCEPT !["user"] = "signing"] /\ at["user"] = "reading"
        /\ take' = [take EXCEPT !["user"] = usdg] /\ usdg' = usdg
    BY <1>9 DEF ReturnFunds, SameChain, chain, SellInv, UserKnows
  <2>2. at'["user"] = "signing" /\ at'["auto"] = "off" /\ take'["user"] = usdg
    BY <2>1 DEF LifeInv, FlowTypes
  <2>3. AllDead
    BY <1>0, <2>1 DEF NoReturn, Home
  <2>4. FirstPurchase' /\ Sale' /\ Home'
    BY <2>1, <2>2, <2>3, PageSame DEF FirstPurchase, Sale, InFlight, Home
  <2> QED BY <1>0, <2>1, <2>2, <2>4, PageSame DEF PageInv, NoReturn
<1>10. CASE NothingToReturn("user") \/ ReturnThrows("user")
  <2>1. ReturnFails("user") /\ SameChain /\ at["user"] \in {"starting", "reading", "crossing"}
    BY <1>10 DEF NothingToReturn, ReturnThrows, SameChain
  <2>2. /\ at'["user"] = "idle" /\ at'["auto"] = "off" /\ pos'.status = "return-failed"
    BY <2>1 DEF ReturnFails, Goto, Status, LifeInv, FlowTypes, Record
  <2> QED BY <2>1, <2>2, StopsAlone
<1>11. CASE Returned("user")
  <2>1. /\ at["user"] = "crossing" /\ op["user"] = "back" /\ SameChain /\ UserSells
    BY <1>11 DEF Returned, SameChain, SellInv, UserKnows, UserSells
  <2>2. at'["user"] = "idle" /\ at'["auto"] = "off"
    BY <1>11 DEF Returned, Goto, LifeInv, FlowTypes
  <2>3. /\ pos'.status \in {"held", "closed"} /\ (pos'.status = "closed" => ~(left["user"] > 0))
    BY <1>11, <2>1 DEF Returned, LifeInv, Record
  <2>4. AllDead /\ usdg = 0
    BY <1>0, <2>1 DEF NoReturn, Home
  <2>5. delivered
    <3>1. TokensPerBuy # 0
      BY DEF LifecycleAssumption
    <3> QED BY <2>1, <3>1 DEF SellInv, NoMoreBuys, Money
  <2>6. tokens <= left["user"] /\ tokens \in Nat /\ left["user"] \in Nat
    BY <2>1 DEF SellInv, UserKnows, LifeInv, ChainTypes, FlowTypes
  <2>7. pos'.status = "closed" => Empty
    BY <2>3, <2>4, <2>5, <2>6 DEF Empty
  <2> QED BY <2>1, <2>2, <2>3, <2>7, StopsAlone
<1> QED BY <1>1, <1>2, <1>3, <1>4, <1>5, <1>6, <1>7, <1>8, <1>9, <1>10, <1>11 DEF Step


\* When the last batch that was signed has executed, the others never will.
LEMMA LastIsOver ==
  ASSUME LifeInv, SellInv, PageInv, Len(batches) \in DOMAIN batches,
         batches[Len(batches)].fate = "executed"
  PROVE  AllDead
<1> DEFINE n == Len(batches)
<1>1. batches[n].nonce < nonce
  BY DEF SellInv, Signatures
<1>2. batches \in Seq(Batch) /\ nonce \in Nat
  BY DEF LifeInv, BatchTypes, ChainTypes
<1>3. ASSUME NEW i \in DOMAIN batches PROVE batches[i].nonce < nonce
  <2>1. batches[i].nonce <= batches[n].nonce
    BY <1>2 DEF PageInv, InTurn
  <2>2. batches[i] \in Batch /\ batches[n] \in Batch
    BY <1>2
  <2> QED BY <1>1, <1>2, <2>1, <2>2 DEF Batch
<1> QED BY <1>3 DEF AllDead

LEMMA UserFlowAlone ==
  ASSUME LifecycleAssumption, ~Losses, LifeInv, SellInv, PageInv, at["auto"] = "off",
         UserFlow
  PROVE  PageInv'
<1> USE SellFacts
<1>0. NoReturn
  BY DEF PageInv
<1>1. ASSUME NEW stage \in {"quoting", "signing", "confirming"}, Goto("user", stage),
             SameChain, at["user"] \in {"funding", "mining"}, op["user"] \in Purchasing,
             at["user"] = "funding" => delivered /\ stage # "confirming",
             stage = "confirming" => op["user"] = "launch" /\ tx["user"] = Len(batches),
             pos'.status \notin {"none", "held", "closed"}
      PROVE  PageInv'
  <2>1. /\ at'["user"] = stage /\ at'["auto"] = "off" /\ op' = op /\ tx' = tx
        /\ UNCHANGED <<batches, delivered>>
    BY <1>1 DEF Goto, LifeInv, FlowTypes, SameChain, chain
  <2>2. FirstPurchase'
    BY <1>0, <1>1, <2>1 DEF NoReturn, FirstPurchase
  <2> QED BY <1>1, <2>1, <2>2, BuysAlone DEF InFlight
<1>2. CASE LaunchFunded
  <2>1. pos'.status = "launching"
    BY <1>2 DEF LaunchFunded, Status, LifeInv, Record
  <2> QED BY <1>1, <1>2, <2>1 DEF LaunchFunded, SameChain, Purchasing
<1>3. CASE Launched
  <2>1. op["user"] = "launch" /\ at["user"] = "mining"
    BY <1>3 DEF Launched, LifeInv, InOrder
  <2>2. /\ tx["user"] = Len(batches) /\ pos'.status = pos.status
        /\ pos.status \notin {"none", "held", "closed"}
    <3>1. pos'.status = pos.status
      BY <1>3 DEF Launched, LifeInv, Record
    <3> QED BY <1>0, <2>1, <3>1 DEF NoReturn, Sale, InFlight
  <2> QED BY <1>1, <1>3, <2>1, <2>2 DEF Launched, SameChain, Purchasing
<1>4. CASE LaunchThrows
  <2>1. op["user"] = "launch"
    BY <1>4 DEF LaunchThrows, LifeInv, InOrder
  <2> QED BY <1>4, <2>1, FailsAlone DEF LaunchThrows, Fails, SameChain
<1>5. CASE LaunchConfirmed
  <2>1. /\ SameChain /\ at'["user"] = "signing" /\ at'["auto"] = "off" /\ op'["user"] = "buy"
        /\ at["user"] = "confirming" /\ op["user"] = "launch"
        /\ UNCHANGED <<batches, delivered, tx>>
    BY <1>5 DEF LaunchConfirmed, Begin, SameChain, chain, LifeInv, FlowTypes
  <2>2. pos'.status = "buying"
    BY <1>5 DEF LaunchConfirmed, Status, LifeInv, Record
  <2>3. FirstPurchase'
    BY <1>0, <2>1 DEF NoReturn, FirstPurchase
  <2> QED BY <2>1, <2>2, <2>3, BuysAlone DEF Purchasing, InFlight
<1>6. CASE Funded
  <2>1. pos'.status = "buying"
    BY <1>6 DEF Funded, Status, LifeInv, Record
  <2> QED BY <1>1, <1>6, <2>1 DEF Funded, SameChain, Purchasing
<1>7. CASE FundingFails
  <2>1. pos'.status = "failed" /\ at'["user"] = "idle" /\ at'["auto"] = "off"
    BY <1>7 DEF FundingFails, Goto, LifeInv, FlowTypes, Record
  <2> QED BY <1>7, <2>1, StopsAlone DEF FundingFails, SameChain
<1>8. CASE SeeUsdg
  <2>1. /\ SameChain /\ at'["user"] = "signing" /\ at'["auto"] = "off" /\ op' = op
        /\ at["user"] = "quoting" /\ pos' = pos /\ UNCHANGED <<batches, delivered, tx>>
    BY <1>8 DEF SeeUsdg, Begin, SameChain, chain, LifeInv, FlowTypes
  <2>2. op["user"] \in Purchasing
    BY <2>1 DEF SellInv, UserKnows
  <2>3. FirstPurchase' /\ pos.status \notin {"none", "held", "closed"}
    BY <1>0, <2>1 DEF NoReturn, FirstPurchase
  <2> QED BY <2>1, <2>2, <2>3, BuysAlone DEF InFlight
<1>9. CASE MissUsdg
  <2>1. SameChain /\ at["user"] = "quoting" /\ BuyFails(FALSE, FALSE)
    BY <1>9 DEF MissUsdg, SameChain
  <2>2. at'["user"] = "idle" /\ at'["auto"] = "off" /\ pos'.status = "buy-failed"
    BY <2>1 DEF BuyFails, Goto, LifeInv, FlowTypes, Record
  <2> QED BY <2>1, <2>2, StopsAlone
<1>10. CASE BuyConfirmed
  <2>1. pos'.status = "held" /\ at'["user"] = "idle" /\ at'["auto"] = "off"
    BY <1>10 DEF BuyConfirmed, Goto, LifeInv, FlowTypes, Record
  <2> QED BY <1>10, <2>1, StopsAlone DEF BuyConfirmed, SameChain
<1>11. CASE SellConfirmed
  <2>1. /\ at["user"] = "confirming" /\ op["user"] = "sell" /\ SameChain
        /\ batches[tx["user"]].fate = "executed"
        /\ at'["user"] = "reading" /\ at'["auto"] = "off" /\ op'["user"] = "back"
        /\ pos'.status = "returning"
    BY <1>11 DEF SellConfirmed, Begin, Fate, SameChain, LifeInv, FlowTypes, Record
  <2>2. AllDead
    <3>1. tx["user"] = Len(batches) /\ tx["user"] \in DOMAIN batches
      BY <1>0, <2>1 DEF NoReturn, Sale, LifeInv, FlowTypes, InOrder, InFlight, BatchTypes
    <3> QED BY <2>1, <3>1, LastIsOver
  <2>3. FirstPurchase' /\ Sale' /\ Home'
    BY <2>1, <2>2, PageSame DEF FirstPurchase, Sale, InFlight, Home
  <2> QED BY <2>1, <2>3, PageSame DEF PageInv, NoReturn
<1>12. CASE CatchEnds
  BY <1>0, <1>12 DEF CatchEnds, NoReturn
<1>13. CASE Step("user")
  BY <1>13, StepAlone
<1> QED BY <1>2, <1>3, <1>4, <1>5, <1>6, <1>7, <1>8, <1>9, <1>10, <1>11, <1>12,
           <1>13 DEF UserFlow

LEMMA ClickAlone ==
  ASSUME LifecycleAssumption, LifeInv, SellInv, PageInv, at["auto"] = "off", Click
  PROVE  PageInv'
<1> USE SellFacts
<1>0. NoReturn /\ at["user"] = "idle"
  BY DEF PageInv, Click, StartLaunch, StartBuy, RetryBuy, CheckNothing, CheckReverted,
         CheckLaunch, CheckBuy, CheckSell, StartSell, UserMayAct
<1>1. CASE StartLaunch \/ StartBuy \/ RetryBuy
  <2>1. /\ SameChain /\ at'["auto"] = "off" /\ batches' = batches /\ op'["user"] \in Purchasing
        /\ at'["user"] \in {"funding", "quoting"}
        /\ at'["user"] = "funding" \/ op'["user"] = "retry"
    BY <1>1 DEF StartLaunch, StartBuy, RetryBuy, Begin, SameChain, Purchasing,
                LifeInv, FlowTypes
  <2>2. pos'.status \in {"funding", "buying"}
    BY <1>1 DEF StartLaunch, StartBuy, RetryBuy, Status, LifeInv, Record
  <2>3. at'["user"] = "funding" => DOMAIN batches = {}
    <3>1. StartLaunch \/ StartBuy => batches = <<>>
      BY <1>0 DEF StartLaunch, StartBuy, NoReturn
    <3>2. RetryBuy => at'["user"] = "quoting"
      BY DEF RetryBuy, Begin, LifeInv, FlowTypes
    <3> QED BY <1>1, <3>1, <3>2
  <2> QED BY <2>1, <2>2, <2>3, BuysAlone DEF FirstPurchase, InFlight
<1>2. CASE CheckNothing \/ CheckReverted \/ CheckLaunch \/ CheckBuy
  <2>1. SameChain /\ at'["user"] = "idle" /\ at'["auto"] = "off"
    BY <1>0, <1>2 DEF CheckNothing, CheckReverted, CheckLaunch, CheckBuy, SameChain, flow
  <2>2. pos'.status \in {"failed", "held", "buy-failed"}
    BY <1>2 DEF CheckNothing, CheckReverted, CheckLaunch, CheckBuy, Unconfirmed,
                LifeInv, Record
  <2> QED BY <2>1, <2>2, StopsAlone
<1>3. CASE CheckSell
  <2>1. /\ pos.sellTx # 0 /\ pos.sellTx = Len(batches)
        /\ batches[pos.sellTx].fate = "executed" /\ pos.sellTx \in DOMAIN batches
    <3>1. /\ pos.sellTx # 0 /\ batches[pos.sellTx].fate = "executed"
          /\ pos.status = "selling"
      BY <1>3 DEF CheckSell, Recorded
    <3> QED BY <1>0, <3>1 DEF NoReturn, Sale, LifeInv, BatchTypes
  <2>2. AllDead
    BY <2>1, LastIsOver
  <2>3. /\ SameChain /\ at'["user"] = "reading" /\ at'["auto"] = "off"
        /\ op'["user"] = "back" /\ pos'.status = "returning"
    BY <1>3 DEF CheckSell, Begin, SameChain, LifeInv, FlowTypes, Record
  <2>4. FirstPurchase' /\ Sale' /\ Home'
    BY <2>2, <2>3, PageSame DEF FirstPurchase, Sale, InFlight, Home
  <2> QED BY <2>3, <2>4, PageSame DEF PageInv, NoReturn
<1>4. ASSUME NEW n \in 1..TokensPerBuy, StartSell(n) PROVE PageInv'
  <2>1. /\ SameChain /\ at'["user"] = "signing" /\ at'["auto"] = "off"
        /\ op'["user"] = "sell" /\ pos'.status = "selling"
    BY <1>4 DEF StartSell, Begin, SameChain, LifeInv, FlowTypes, Record
  <2>2. FirstPurchase' /\ Sale' /\ Home'
    BY <2>1 DEF FirstPurchase, Sale, InFlight, Home
  <2> QED BY <2>1, <2>2, PageSame DEF PageInv, NoReturn
<1> QED BY <1>1, <1>2, <1>3, <1>4 DEF Click


-----------------------------------------------------------------------------
(***************************************************************************)
(* The automatic return of what a failed purchase has left.                *)
(***************************************************************************)
\* A step of the automatic return, or of the user who waits for it.
LEMMA HelpedGoesOn ==
  ASSUME PageInv, SameChain, at["auto"] # "off", at'["auto"] # "off",
         op'["auto"] = "giveBack", at'["user"] \in {"idle", "catching"},
         \/ pos'.status \in {"returning", "return-failed", "closed"}
         \/ /\ pos'.status \in {"buy-failed", "failed"}
            /\ at'["user"] = "catching" /\ at'["auto"] = "starting",
         at'["auto"] = "signing" => take'["auto"] = 1,
         at'["auto"] = "crossing" => usdg = 0,
         pos'.status = "closed" => usdg = 0 /\ at'["auto"] = "done"
  PROVE  PageInv'
<1>1. InTurn' /\ Balance' /\ UNCHANGED <<usdg, tokens, nonce, delivered, batches>>
  BY PageSame
<1> QED BY <1>1 DEF PageInv, AutoReturn

LEMMA HelpedFails ==
  ASSUME LifeInv, SellInv, PageInv, SameChain, at["auto"] \notin {"off", "idle"},
         ReturnFails("auto")
  PROVE  PageInv'
<1>1. /\ at'["auto"] = "waiting" /\ at'["user"] = at["user"] /\ op' = op
      /\ pos'.status = "return-failed"
  BY SellFacts DEF ReturnFails, Goto, Status, LifeInv, FlowTypes, Record
<1>2. AutoReturn
  BY DEF PageInv
<1> QED BY <1>1, <1>2, HelpedGoesOn DEF AutoReturn

LEMMA StepHelped ==
  ASSUME LifeInv, SellInv, PageInv, at["auto"] # "off", Step("auto")
  PROVE  PageInv'
<1> USE SellFacts
<1>0. AutoReturn /\ op["auto"] = "giveBack"
  BY DEF PageInv, AutoReturn
<1>1. ASSUME NEW sure \in BOOLEAN, NEW noted \in BOOLEAN, Fails("auto", sure, noted),
             SameChain, at["auto"] \notin {"off", "idle"}
      PROVE  PageInv'
  <2>1. op["auto"] \notin Purchases \cup {"launch", "sell"}
    BY <1>0 DEF Purchases
  <2>2. ReturnFails("auto")
    BY <1>1, <2>1 DEF Fails
  <2> QED BY <1>1, <2>2, HelpedFails
<1>2. ASSUME NEW stage \in {"confirming", "crossing"}, Goto("auto", stage), SameChain, pos' = pos,
             at["auto"] \notin {"starting", "done"}, stage = "crossing" => usdg = 0
      PROVE  PageInv'
  <2>1. at'["auto"] = stage /\ at'["user"] = at["user"] /\ op' = op
    BY <1>2 DEF Goto, LifeInv, FlowTypes
  <2> QED BY <1>0, <1>2, <2>1, HelpedGoesOn DEF AutoReturn
<1>3. CASE Sign("auto")
  BY <1>3, SignHelped
<1>4. CASE SigningFails("auto") \/ Rejected("auto") \/ NoAnswer("auto") \/ ConfirmedReverted("auto")
  BY <1>1, <1>4 DEF SigningFails, Rejected, NoAnswer, ConfirmedReverted, SameChain
<1>5. CASE Accepted("auto")
  BY <1>0, <1>2, <1>5 DEF Accepted, Purchases, SameChain
<1>6. CASE ReturnConfirmed("auto")
  <2>1. /\ at["auto"] = "confirming" /\ Fate("auto") = "executed" /\ SameChain /\ pos' = pos
        /\ Goto("auto", "crossing")
    BY <1>6 DEF ReturnConfirmed, SameChain
  <2>2. tx["auto"] \in DOMAIN batches /\ batches[tx["auto"]].kind = "back"
    <3>1. tx["auto"] # 0 /\ batches[tx["auto"]].kind = KindOf[op["auto"]]
      BY <2>1 DEF LifeInv, InOrder, InFlight
    <3>2. tx["auto"] \in 0..Len(batches) /\ batches \in Seq(Batch)
      BY DEF LifeInv, FlowTypes, BatchTypes
    <3>3. KindOf["giveBack"] = "back"
      BY DEF KindOf
    <3> QED BY <1>0, <3>1, <3>2, <3>3
  <2>3. usdg = 0
    BY <1>0, <2>1, <2>2 DEF AutoReturn, Fate
  <2> QED BY <1>2, <2>1, <2>3
<1>7. CASE NoReceipt("auto")
  <2>1. ReturnFails("auto") /\ SameChain /\ at["auto"] = "confirming"
    BY <1>0, <1>7 DEF NoReceipt, Purchases, SameChain
  <2> QED BY <2>1, HelpedFails
<1>8. CASE ReturnFunds("auto")
  <2>1. /\ at["auto"] = "reading" /\ usdg > 0 /\ SameChain /\ pos' = pos /\ op' = op
        /\ at'["auto"] = "signing" /\ at'["user"] = at["user"] /\ take'["auto"] = usdg
    BY <1>8 DEF ReturnFunds, SameChain, LifeInv, FlowTypes
  <2> QED BY <1>0, <2>1, HelpedGoesOn DEF AutoReturn
<1>9. CASE ReturnRest("auto")
  BY <1>2, <1>9 DEF ReturnRest, SameChain
<1>10. CASE NothingToReturn("auto")
  BY <1>0, <1>10 DEF NothingToReturn
<1>11. CASE Returned("auto")
  <2>1. /\ at["auto"] = "crossing" /\ SameChain /\ op' = op
        /\ at'["auto"] = "done" /\ at'["user"] = at["user"] /\ pos'.status = "closed"
    BY <1>0, <1>11 DEF Returned, Goto, SameChain, LifeInv, FlowTypes, Record
  <2> QED BY <1>0, <2>1, HelpedGoesOn DEF AutoReturn
<1>12. CASE ReturnThrows("auto")
  BY <1>12, HelpedFails DEF ReturnThrows, SameChain
<1> QED BY <1>3, <1>4, <1>5, <1>6, <1>7, <1>8, <1>9, <1>10, <1>11, <1>12 DEF Step

\* Beside an automatic return the user only waits: there is nothing to sell, and
\* nothing to check.
LEMMA UserHelped ==
  ASSUME LifecycleAssumption, LifeInv, SellInv, PageInv, at["auto"] # "off",
         UserFlow \/ Click
  PROVE  PageInv'
<1> USE SellFacts
<1>0. /\ AutoReturn /\ at["user"] \in {"idle", "catching"} /\ tokens = 0
  BY DEF PageInv, AutoReturn
<1>1. CASE UserFlow
  <2>1. CatchEnds
    BY <1>0, <1>1 DEF UserFlow, LaunchFunded, Launched, LaunchThrows, LaunchConfirmed,
                      Funded, FundingFails, SeeUsdg, MissUsdg, BuyConfirmed, SellConfirmed,
                      Step, Sign, SigningFails, Accepted, Rejected, NoAnswer,
                      ReturnConfirmed, ConfirmedReverted, NoReceipt, ReturnFunds,
                      ReturnRest, NothingToReturn, Returned, ReturnThrows
  <2>2. /\ SameChain /\ pos' = pos /\ op' = op /\ at["auto"] \in {"waiting", "done"}
        /\ at'["user"] = "idle" /\ at'["auto"] = at["auto"]
    BY <2>1 DEF CatchEnds, SameChain, LifeInv, FlowTypes
  <2> QED BY <1>0, <2>2, HelpedGoesOn DEF AutoReturn
<1>2. CASE Click
  <2>1. at["user"] = "idle"
    BY <1>2 DEF Click, StartLaunch, StartBuy, RetryBuy, CheckNothing, CheckReverted,
                CheckLaunch, CheckBuy, CheckSell, StartSell, UserMayAct
  <2>2. pos.status \in {"returning", "return-failed", "closed"}
    BY <1>0, <2>1 DEF AutoReturn
  <2>3. ASSUME NEW n \in 1..TokensPerBuy, StartSell(n) PROVE FALSE
    BY <1>0, <2>3 DEF StartSell
  <2> QED BY <1>2, <2>2, <2>3 DEF Click, StartLaunch, StartBuy, RetryBuy, CheckNothing,
          CheckReverted, CheckLaunch, CheckBuy, CheckSell, Unconfirmed
<1> QED BY <1>1, <1>2

LEMMA AutoFlowPage ==
  ASSUME LifecycleAssumption, LifeInv, SellInv, PageInv, AutoFlow
  PROVE  PageInv'
<1> USE SellFacts
<1>1. at["auto"] # "off"
  BY DEF AutoFlow, AutoStarts, TimerFires, Step, Sign, SigningFails, Accepted, Rejected,
         NoAnswer, ReturnConfirmed, ConfirmedReverted, NoReceipt, ReturnFunds,
         ReturnRest, NothingToReturn, Returned, ReturnThrows
<1>2. AutoReturn
  BY <1>1 DEF PageInv
<1>3. CASE AutoStarts
  <2>1. /\ SameChain /\ pos'.status = "returning" /\ op' = op
        /\ at'["auto"] = "reading" /\ at'["user"] = at["user"]
    BY <1>3 DEF AutoStarts, Begin, Status, SameChain, LifeInv, FlowTypes, Record
  <2> QED BY <1>1, <1>2, <2>1, HelpedGoesOn DEF AutoReturn
<1>4. CASE TimerFires
  <2>1. /\ SameChain /\ pos' = pos /\ op' = op /\ at["auto"] = "waiting"
        /\ at'["auto"] = "starting" /\ at'["user"] = at["user"]
    BY <1>4 DEF TimerFires, Goto, SameChain, LifeInv, FlowTypes
  <2> QED BY <1>1, <1>2, <2>1, HelpedGoesOn DEF AutoReturn
<1>5. CASE Step("auto")
  BY <1>1, <1>5, StepHelped
<1> QED BY <1>3, <1>4, <1>5 DEF AutoFlow


-----------------------------------------------------------------------------
(***************************************************************************)
(* The chain, for a page that is not reloaded.                             *)
(***************************************************************************)
\* A fate that is no execution.
LEMMA UnexecutedPage ==
  ASSUME LifeInv, SellInv, PageInv, NEW i \in DOMAIN batches,
         NEW fate \in {"pending", "reverted", "refused"}, Decided(i, fate),
         batches[i].fate \in {"posted", "pending"}, UNCHANGED chain
  PROVE  PageInv'
<1>1. /\ DOMAIN batches' = DOMAIN batches
      /\ \A n \in DOMAIN batches :
           /\ batches'[n].kind = batches[n].kind
           /\ batches'[n].nonce = batches[n].nonce
           /\ batches'[n].amount = batches[n].amount
           /\ batches'[n].fate = IF n = i THEN fate ELSE batches[n].fate
      /\ UNCHANGED <<pos, at, op, take, left, tx>>
  BY DecidedFacts
<1>2. UNCHANGED <<usdg, tokens, nonce, delivered>> /\ Len(batches') = Len(batches)
  BY DEF chain, Decided, LifeInv, BatchTypes
<1>3. Moved' = Moved
  BY <1>1 DEF Moved
<1>4. AllDead => AllDead'
  BY <1>1, <1>2 DEF AllDead
<1>5. InTurn' /\ Balance'
  BY <1>1, <1>2, <1>3 DEF PageInv, InTurn, Balance
<1>6. NoReturn => NoReturn'
  <2>1. SUFFICES ASSUME NoReturn PROVE NoReturn'
    OBVIOUS
  <2>2. FirstPurchase' /\ Sale'
    BY <1>1, <1>2, <2>1 DEF NoReturn, FirstPurchase, Sale
  <2>3. ASSUME op["user"] = "back", at["user"] \in {"posting", "confirming"}
        PROVE  /\ \A n \in DOMAIN batches :
                    n # tx["user"] /\ batches'[n].fate \in {"posted", "pending"} =>
                      batches'[n].nonce < nonce
               /\ IF Fate("user")' = "executed"
                    THEN usdg = 0
                    ELSE batches'[tx["user"]].amount = usdg
    <3>1. tx["user"] \in DOMAIN batches
      BY <2>3, SellFacts DEF LifeInv, FlowTypes, BatchTypes, InOrder, InFlight
    <3>2. /\ \A n \in DOMAIN batches :
               n # tx["user"] /\ batches[n].fate \in {"posted", "pending"} =>
                 batches[n].nonce < nonce
          /\ IF Fate("user") = "executed"
               THEN usdg = 0
               ELSE batches[tx["user"]].amount = usdg
      BY <2>1, <2>3 DEF NoReturn, Home
    <3>3. (Fate("user")' = "executed") = (Fate("user") = "executed")
      BY <1>1, <3>1 DEF Fate
    <3> QED BY <1>1, <3>1, <3>2, <3>3
  <2>4. Home'
    BY <1>1, <1>2, <1>4, <2>1, <2>3 DEF NoReturn, Home
  <2>5. pos.status = "none" => FALSE
    BY <2>1 DEF NoReturn
  <2> QED BY <1>1, <1>2, <1>4, <2>1, <2>2, <2>4, <2>5 DEF NoReturn, Empty
<1>7. AutoReturn => AutoReturn'
  BY <1>1, <1>2 DEF AutoReturn
<1> QED BY <1>1, <1>5, <1>6, <1>7 DEF PageInv

LEMMA IncludeAlone ==
  ASSUME LifecycleAssumption, LifeInv, SellInv, PageInv, at["auto"] = "off",
         NEW i \in DOMAIN batches, Include(i), InTurn', Balance'
  PROVE  PageInv'
<1>1. /\ Decided(i, "executed") /\ batches[i].nonce = nonce /\ nonce' = nonce + 1
      /\ delivered' = delivered /\ batches[i].fate = "pending"
  BY DEF Include, Decide, Decided
<1>2. /\ DOMAIN batches' = DOMAIN batches
      /\ \A j \in DOMAIN batches :
           /\ batches'[j].kind = batches[j].kind
           /\ batches'[j].nonce = batches[j].nonce
           /\ batches'[j].amount = batches[j].amount
           /\ batches'[j].fate = IF j = i THEN "executed" ELSE batches[j].fate
      /\ UNCHANGED <<pos, at, op, take, left, tx>>
  BY <1>1, DecidedFacts
<1>3. /\ Len(batches') = Len(batches) /\ {usdg, nonce} \subseteq Nat
      /\ \A j \in DOMAIN batches : batches[j].nonce \in Nat
  <2>1. \A j \in DOMAIN batches : batches[j] \in Batch
    BY DEF LifeInv, BatchTypes
  <2> QED BY <1>1, <2>1 DEF Decided, LifeInv, BatchTypes, ChainTypes, Batch
<1>4. NoReturn
  BY DEF PageInv
<1>5. ~AllDead
  BY <1>1, <1>3 DEF AllDead
<1>6. FirstPurchase' /\ Sale'
  BY <1>1, <1>2, <1>3, <1>4 DEF NoReturn, FirstPurchase, Sale
<1>7. Home'
  <2>1. SUFFICES ASSUME op["user"] = "back" PROVE Home'
    BY <1>2 DEF Home
  <2>2. at["user"] \notin {"reading", "signing", "crossing"}
    BY <1>4, <1>5, <2>1 DEF NoReturn, Home
  <2>3. SUFFICES ASSUME at["user"] \in {"posting", "confirming"}
                 PROVE  /\ \A j \in DOMAIN batches :
                             j # tx["user"] /\ batches'[j].fate \in {"posted", "pending"} =>
                               batches'[j].nonce < nonce'
                        /\ IF Fate("user")' = "executed"
                             THEN usdg' = 0
                             ELSE batches'[tx["user"]].amount = usdg'
    BY <1>2, <2>2 DEF Home
  <2>4. /\ \A j \in DOMAIN batches :
             j # tx["user"] /\ batches[j].fate \in {"posted", "pending"} =>
               batches[j].nonce < nonce
        /\ Fate("user") # "executed" => batches[tx["user"]].amount = usdg
    BY <1>4, <2>1, <2>3 DEF NoReturn, Home
  <2>5. i = tx["user"]
    BY <1>1, <1>3, <2>4
  <2>6. batches[i].kind = "back"
    BY <2>1, <2>3, <2>5, SellFacts DEF LifeInv, InOrder, InFlight, KindOf
  <2>7. usdg' = usdg - batches[i].amount
    BY <2>6 DEF Include
  <2>8. usdg' = 0 /\ Fate("user")' = "executed"
    BY <1>1, <1>2, <1>3, <2>4, <2>5, <2>7 DEF Fate
  <2>9. \A j \in DOMAIN batches :
          j # tx["user"] /\ batches'[j].fate \in {"posted", "pending"} =>
            batches'[j].nonce < nonce'
    BY <1>1, <1>2, <1>3, <2>4
  <2> QED BY <2>8, <2>9
<1>8. pos.status # "closed" /\ pos.status # "none"
  BY <1>4, <1>5 DEF NoReturn, Empty
<1> QED BY <1>2, <1>4, <1>6, <1>7, <1>8 DEF PageInv, NoReturn

LEMMA IncludeHelped ==
  ASSUME LifecycleAssumption, LifeInv, SellInv, PageInv, at["auto"] # "off",
         NEW i \in DOMAIN batches, Include(i), InTurn', Balance'
  PROVE  PageInv'
<1>1. /\ Decided(i, "executed") /\ delivered' = delivered /\ batches[i].fate = "pending"
  BY DEF Include, Decide, Decided
<1>2. /\ DOMAIN batches' = DOMAIN batches
      /\ \A j \in DOMAIN batches :
           /\ batches'[j].kind = batches[j].kind
           /\ batches'[j].nonce = batches[j].nonce
           /\ batches'[j].amount = batches[j].amount
           /\ batches'[j].fate = IF j = i THEN "executed" ELSE batches[j].fate
      /\ UNCHANGED <<pos, at, op, take, left, tx>>
  BY <1>1, DecidedFacts
<1>3. AutoReturn
  BY DEF PageInv
<1>4. batches[i].kind \in {"launch", "back"}
  <2>1. batches[i] \in Batch
    BY DEF LifeInv, BatchTypes
  <2>2. batches[i].kind \in {"launch", "buy", "sell", "back"}
    BY <2>1 DEF Batch
  <2> QED BY <1>1, <1>3, <2>2 DEF AutoReturn
<1>5. CASE batches[i].kind = "launch"
  <2>1. usdg' = usdg /\ tokens' = tokens
    BY <1>5 DEF Include
  <2> QED BY <1>1, <1>2, <1>3, <1>5, <2>1 DEF PageInv, AutoReturn
<1>6. CASE batches[i].kind = "back"
  <2>1. usdg >= 1 /\ usdg' = usdg - 1 /\ tokens' = tokens
    BY <1>3, <1>6 DEF Include, AutoReturn
  <2>2. usdg' = 0 /\ usdg # 0
    BY <1>3, <2>1 DEF AutoReturn
  <2> QED BY <1>1, <1>2, <1>3, <1>6, <2>1, <2>2 DEF PageInv, AutoReturn
<1> QED BY <1>4, <1>5, <1>6

LEMMA ChainPage ==
  ASSUME LifecycleAssumption, LifeInv, SellInv, PageInv, Chain
  PROVE  PageInv'
<1>1. PICK i \in DOMAIN batches : Handle(i) \/ Include(i) \/ IncludeReverted(i)
  BY DEF Chain
<1>2. CASE Handle(i)
  BY <1>2, UnexecutedPage DEF Handle, Decide, Decided
<1>3. CASE IncludeReverted(i)
  BY <1>3, UnexecutedPage DEF IncludeReverted, Decide, Decided
<1>4. CASE Include(i)
  <2>1. Decided(i, "executed") /\ delivered' = delivered
    BY <1>4 DEF Include, Decide, Decided
  <2>2. /\ DOMAIN batches' = DOMAIN batches
        /\ \A j \in DOMAIN batches :
             /\ batches'[j].kind = batches[j].kind
             /\ batches'[j].nonce = batches[j].nonce
             /\ batches'[j].fate = IF j = i THEN "executed" ELSE batches[j].fate
    BY <2>1, DecidedFacts
  <2>3. InTurn'
    BY <2>2 DEF PageInv, InTurn
  <2>4. Balance'
    <3>1. SUFFICES ASSUME ~Moved' PROVE tokens' = 0 /\ usdg' = IF delivered' THEN 1 ELSE 0
      BY DEF Balance
    <3>2. batches[i].kind = "launch" /\ ~Moved
      BY <2>2, <3>1 DEF Moved
    <3>3. tokens' = tokens /\ usdg' = usdg
      BY <1>4, <3>2 DEF Include
    <3> QED BY <2>1, <3>2, <3>3 DEF PageInv, Balance
  <2> QED BY <1>4, <2>3, <2>4, IncludeAlone, IncludeHelped
<1> QED BY <1>1, <1>2, <1>3, <1>4

LEMMA DeliverPage ==
  ASSUME LifeInv, SellInv, PageInv, Deliver
  PROVE  PageInv'
<1>1. /\ ~delivered /\ delivered' = TRUE /\ usdg' = usdg + 1 /\ pos.status # "none"
      /\ UNCHANGED <<tokens, nonce, batches, pos, at, op, take, left, tx>>
  BY DEF Deliver, flow
<1>2. at["auto"] = "off" /\ NoReturn
  BY <1>1 DEF PageInv, AutoReturn
<1>3. Moved' = Moved /\ AllDead' = AllDead
  BY <1>1 DEF Moved, AllDead
<1>4. InTurn' /\ Balance'
  BY <1>1, <1>3 DEF PageInv, InTurn, Balance
<1>5. FirstPurchase' /\ Sale'
  BY <1>1, <1>2 DEF NoReturn, FirstPurchase, Sale
<1>6. at["user"] = "idle" \/ op["user"] # "back"
  <2>1. TokensPerBuy # 0
    BY LifecycleAssumption DEF LifecycleAssumption
  <2> QED BY <1>1, <2>1 DEF SellInv, Money, NoMoreBuys, UserSells
<1>7. Home'
  BY <1>1, <1>6 DEF Home
<1>8. pos.status # "closed"
  BY <1>1, <1>2 DEF NoReturn, Empty
<1> QED BY <1>1, <1>2, <1>4, <1>5, <1>7, <1>8 DEF PageInv, NoReturn

-----------------------------------------------------------------------------
LEMMA PageInit ==
  ASSUME LifecycleAssumption, Init
  PROVE  PageInv
<1>1. /\ DOMAIN batches = {} /\ batches = <<>> /\ tokens = 0 /\ usdg = 0 /\ ~delivered
      /\ at["user"] = "idle" /\ at["auto"] = "off" /\ pos.status = "none"
      /\ op["user"] = "none"
  BY DEF Init, Flows, NoRecord
<1>2. InTurn /\ Balance
  BY <1>1 DEF InTurn, Balance
<1>3. FirstPurchase /\ Sale /\ Home
  BY <1>1 DEF FirstPurchase, Sale, InFlight, Home
<1> QED BY <1>1, <1>2, <1>3 DEF PageInv, NoReturn

LEMMA PageStep ==
  ASSUME LifecycleAssumption, ~Losses, ~Reloads, LifeInv, SellInv, PageInv, [Next]_vars
  PROVE  PageInv'
<1>1. CASE Click
  BY <1>1, ClickAlone, UserHelped
<1>2. CASE UserFlow
  BY <1>2, UserFlowAlone, UserHelped
<1>3. CASE AutoFlow
  BY <1>3, AutoFlowPage
<1>4. CASE Reload
  BY <1>4 DEF Reload
<1>5. CASE Deliver
  BY <1>5, DeliverPage
<1>6. CASE Chain
  BY <1>6, ChainPage
<1>7. CASE UNCHANGED vars
  <2>1. UNCHANGED <<usdg, tokens, nonce, delivered, batches, pos, at, op, take, left, tx>>
    BY <1>7 DEF vars, chain, flow
  <2>2. Moved' = Moved /\ AllDead' = AllDead /\ Fate("user")' = Fate("user")
    BY <2>1 DEF Moved, AllDead, Fate
  <2> QED BY <2>1, <2>2 DEF PageInv, InTurn, Balance, NoReturn, FirstPurchase, Sale, Home,
                             AutoReturn, Empty
<1> QED BY <1>1, <1>2, <1>3, <1>4, <1>5, <1>6, <1>7 DEF Next

LEMMA PageAlways ==
  ASSUME ~Losses, ~Reloads
  PROVE  Spec => [](LifeInv /\ SellInv /\ PageInv)
<1>1. LifecycleAssumption
  BY LifecycleAssumption
<1>2. Init => PageInv
  BY <1>1, PageInit
<1>3. LifeInv /\ SellInv /\ PageInv /\ [Next]_vars => PageInv'
  BY <1>1, PageStep
<1> QED BY <1>2, <1>3, SellAlways, PTL DEF Spec

\* In a page that is not reloaded, and whose relayer answers 400 only for what it has
\* not broadcast, nothing is left behind: whatever receipts are late, whatever buys,
\* sales and returns the user retries, and with the automatic return of a first buy
\* that has failed (App.tsx), the account of a closed position holds neither tokens
\* nor USDG.  With either hazard it may: position_reload has the trace.
THEOREM NothingIsLeftBehind ==
  ASSUME ~Losses, ~Reloads
  PROVE  Spec => []ClosedHoldsNothing
<1>1. PageInv => ClosedHoldsNothing
  BY DEF PageInv, NoReturn, AutoReturn, Empty, ClosedHoldsNothing
<1> QED BY <1>1, PageAlways, PTL


\* In the same page a held position is not touched: it changes only when the user
\* sells.  No flow is running while the record says held (NoReturn), and the
\* automatic return, which could overwrite it (App.tsx, scheduleAutomaticPrivateReturn),
\* never runs for a position that has been bought (AutoReturn).
THEOREM HeldStaysAlone ==
  ASSUME ~Losses, ~Reloads
  PROVE  Spec => HeldIsLeftAlone
<1>1. ASSUME LifeInv, PageInv, [Next]_vars, pos.status = "held", pos'.status # "held"
      PROVE  pos'.status = "selling"
  <2>1. at["user"] = "idle" /\ at["auto"] = "off"
    BY <1>1 DEF PageInv, NoReturn, AutoReturn
  <2>2. ~UserFlow
    BY <2>1 DEF UserFlow, LaunchFunded, Launched, LaunchThrows, LaunchConfirmed, Funded,
         FundingFails, SeeUsdg, MissUsdg, BuyConfirmed, SellConfirmed, CatchEnds, Step,
         Sign, SigningFails, Accepted, Rejected, NoAnswer, ReturnConfirmed,
         ConfirmedReverted, NoReceipt, ReturnFunds, ReturnRest, NothingToReturn, Returned,
         ReturnThrows
  <2>3. ~AutoFlow
    BY <2>1 DEF AutoFlow, AutoStarts, TimerFires, Step,
         Sign, SigningFails, Accepted, Rejected, NoAnswer, ReturnConfirmed,
         ConfirmedReverted, NoReceipt, ReturnFunds, ReturnRest, NothingToReturn, Returned,
         ReturnThrows
  <2>4. pos' # pos
    BY <1>1
  <2>5. ~Deliver /\ ~Chain /\ ~Reload
    BY <2>4 DEF Deliver, Chain, Handle, Include, IncludeReverted, Reload
  <2>6. Click
    BY <1>1, <2>2, <2>3, <2>4, <2>5 DEF Next, vars
  <2>7. PICK n \in 1..TokensPerBuy : StartSell(n)
    BY <1>1, <2>6 DEF Click, StartLaunch, StartBuy, RetryBuy, CheckNothing, CheckReverted,
         CheckLaunch, CheckBuy, CheckSell, Unconfirmed
  <2>8. pos \in Record
    BY <1>1 DEF LifeInv
  <2> QED BY <2>7, <2>8 DEF StartSell, Record
<1>2. LifeInv /\ PageInv /\ [Next]_vars
        => [pos.status = "held" /\ pos'.status # "held" => pos'.status = "selling"]_vars
  BY <1>1
<1> QED BY <1>2, PageAlways, PTL DEF Spec, HeldIsLeftAlone
=============================================================================
