------------------------- MODULE PositionLifecycle -------------------------
(***************************************************************************)
(* One private position of the application (App.tsx, positions.ts): the    *)
(* saved record, the flow the user has started in the foreground, the      *)
(* automatic return that runs in the background, and the account on the    *)
(* chain whose batches they sign.                                          *)
(*                                                                         *)
(* The page is one thread, but its flows interleave at every await, the    *)
(* batches they post are executed or not whenever the relayer and the      *)
(* chain like, and a reload ends every flow and keeps only the record.     *)
(***************************************************************************)
EXTENDS Integers, Sequences

CONSTANTS
  TokensPerBuy, \* what a buy yields; one unit of USDG is committed to it
  MaxBatches,   \* bound on the batches signed for the account
  Launches,     \* the position may begin with the launch of its token
  Losses,       \* a batch may be broadcast and its POST be answered with 400
  Timeouts,     \* a POST or a receipt may not come in time
  Reloads       \* the page may be reloaded

ASSUME LifecycleAssumption ==
  /\ TokensPerBuy \in Nat \ {0}
  /\ MaxBatches \in Nat \ {0}
  /\ {Launches, Losses, Timeouts, Reloads} \subseteq BOOLEAN

VARIABLES
  usdg, tokens, nonce, \* the account on the chain
  delivered,           \* Relay has delivered the private funding
  batches,             \* the batches signed for the account, and their fate
  pos,                 \* the saved record of the position, if there is one
  at, op,              \* of each flow: where it is and what it does,
  take, left,          \* the amount it has read to move, the tokens it leaves,
  tx,                  \* and the batch it waits for
  busy                 \* the stage the page shows is neither idle nor complete

chain == <<usdg, tokens, nonce, delivered>>
flow  == <<at, op, take, left, tx, busy>>
vars  == <<chain, batches, pos, flow>>

Flows == {"user", "auto"}

Record == [status: {"none", "funding", "launching", "buying", "held", "selling",
                    "returning", "return-failed", "buy-failed", "failed", "closed"},
           launchTx: 0..MaxBatches, \* launchTxHash, 0 when there is none
           buyTx: 0..MaxBatches,  \* buyTxHash
           sellTx: 0..MaxBatches, \* sellTxHash
           amount: Nat,           \* tokenAmount
           certain: BOOLEAN]      \* lastError tells a return is in order

Batch == [kind: {"launch", "buy", "sell", "back"}, nonce: Nat, amount: Nat,
          fate: {"posted", "pending", "executed", "reverted", "refused"}]

Broadcasted == {"pending", "executed", "reverted"}

NoRecord == [status |-> "none", launchTx |-> 0, buyTx |-> 0, sellTx |-> 0,
             amount |-> 0, certain |-> FALSE]

Init ==
  /\ usdg = 0 /\ tokens = 0 /\ nonce = 0 /\ delivered = FALSE
  /\ batches = <<>>
  /\ pos = NoRecord
  /\ at = [f \in Flows |-> IF f = "user" THEN "idle" ELSE "off"]
  /\ op = [f \in Flows |-> "none"]
  /\ take = [f \in Flows |-> 0]
  /\ left = [f \in Flows |-> 0]
  /\ tx = [f \in Flows |-> 0]
  /\ busy = FALSE

(***************************************************************************)
(* Steps that several flows share.                                         *)
(***************************************************************************)
\* patchPosition
Status(s) == pos' = [pos EXCEPT !.status = s]

\* The buttons of a busy page do nothing.  All flows show their stage in one
\* variable, so a page may look free while one of them still runs; the user of
\* the model waits for the end of a flow of their own.
UserMayAct == at["user"] = "idle" /\ ~busy

\* setStage: a flow that ends, or that waits for its timer, shows "complete".
Goto(f, stage) ==
  /\ at' = [at EXCEPT ![f] = stage]
  /\ busy' = (busy /\ stage \notin {"idle", "off", "waiting", "done"})
  /\ UNCHANGED <<op, take, left, tx>>

\* setStage: a flow that begins another part of its work shows it.
Begin(f, stage) ==
  /\ at' = [at EXCEPT ![f] = stage]
  /\ busy' = TRUE

KindOf == [launch |-> "launch", buy |-> "buy", retry |-> "buy", sell |-> "sell",
           back |-> "back", giveBack |-> "back"]

\* client.execute: the amount was read before the quote, and the batch is signed
\* for the nonce the account has now.
Sign(f) ==
  /\ at[f] = "signing"
  /\ Len(batches) < MaxBatches
  /\ batches' = Append(batches, [kind |-> KindOf[op[f]], nonce |-> nonce,
                                 amount |-> take[f], fate |-> "posted"])
  /\ at' = [at EXCEPT ![f] = "posting"]
  /\ tx' = [tx EXCEPT ![f] = Len(batches) + 1]
  /\ UNCHANGED <<chain, pos, op, take, left, busy>>

Fate(f) == batches[tx[f]].fate

\* A return that failed: the automatic ones wait for their timer.
ReturnFails(f) ==
  /\ Status("return-failed")
  /\ Goto(f, IF f = "auto" THEN "waiting" ELSE "idle")

\* automaticallyReturnPositionsToPool, awaited by the flow that has failed.
AwaitReturn ==
  /\ at' = [at EXCEPT !["user"] = "catching", !["auto"] = "starting"]
  /\ op' = [op EXCEPT !["auto"] = "giveBack"]
  /\ UNCHANGED <<take, left, tx, busy>>

\* The catch of trade and of retryPositionBuy: what was rejected or reverted for
\* sure in a first buy is returned, and the user retries the others.
BuyFails(sure, noted) ==
  /\ pos' = [pos EXCEPT !.status = "buy-failed", !.certain = noted]
  /\ IF op["user"] = "buy" /\ sure THEN AwaitReturn ELSE Goto("user", "idle")

\* The catch of launch before its hash is known.
LaunchFails(sure, noted) ==
  /\ pos' = [pos EXCEPT !.status = "failed", !.certain = noted]
  /\ IF sure THEN AwaitReturn ELSE Goto("user", "idle")

(***************************************************************************)
(* The user's flows: launch, trade, retryPositionBuy, recoverPosition.     *)
(***************************************************************************)
Purchases == {"buy", "retry"}

\* A launch begins like a buy, with a fresh account and its private funding.
StartLaunch ==
  /\ Launches
  /\ UserMayAct
  /\ pos.status = "none"
  /\ Status("funding")
  /\ op' = [op EXCEPT !["user"] = "launch"]
  /\ Begin("user", "funding")
  /\ UNCHANGED <<chain, batches, take, left, tx>>

StartBuy ==
  /\ UserMayAct
  /\ pos.status = "none"
  /\ Status("funding")
  /\ op' = [op EXCEPT !["user"] = "buy"]
  /\ Begin("user", "funding")
  /\ UNCHANGED <<chain, batches, take, left, tx>>

\* runtime.fund returns after the delivery.
Funded ==
  /\ at["user"] = "funding"
  /\ op["user"] = "buy"
  /\ delivered
  /\ Status("buying")
  /\ Goto("user", "quoting")
  /\ UNCHANGED <<chain, batches>>

\* A launch does not wait for the account to show the balance.
LaunchFunded ==
  /\ at["user"] = "funding"
  /\ op["user"] = "launch"
  /\ delivered
  /\ Status("launching")
  /\ Goto("user", "signing")
  /\ UNCHANGED <<chain, batches>>

FundingFails ==
  /\ at["user"] = "funding"
  /\ pos' = [pos EXCEPT !.status = "failed", !.certain = FALSE]
  /\ Goto("user", "idle")
  /\ UNCHANGED <<chain, batches>>

\* runtime.launch has the hash, but looks for the token in the receipt before it
\* returns either.
Launched ==
  /\ at["user"] = "mining"
  /\ Fate("user") = "executed"
  /\ pos' = [pos EXCEPT !.launchTx = tx["user"]]
  /\ Goto("user", "confirming")
  /\ UNCHANGED <<chain, batches>>

\* "Pons launch reverted", or 120 s without a receipt: the hash is lost.
LaunchThrows ==
  /\ at["user"] = "mining"
  /\ \/ Fate("user") = "reverted" /\ LaunchFails(FALSE, TRUE)
     \/ Timeouts /\ LaunchFails(FALSE, FALSE)
  /\ UNCHANGED <<chain, batches>>

\* The launch is confirmed once more; the creator's buy commits what the funding
\* has delivered, whatever the account holds by now.
LaunchConfirmed ==
  /\ at["user"] = "confirming"
  /\ op["user"] = "launch"
  /\ Fate("user") = "executed"
  /\ Status("buying")
  /\ op' = [op EXCEPT !["user"] = "buy"]
  /\ take' = [take EXCEPT !["user"] = 1]
  /\ Begin("user", "signing")
  /\ UNCHANGED <<chain, batches, left, tx>>

RetryBuy ==
  /\ UserMayAct
  /\ pos.status = "buy-failed"
  /\ Status("buying")
  /\ op' = [op EXCEPT !["user"] = "retry"]
  /\ Begin("user", "quoting")
  /\ UNCHANGED <<chain, batches, take, left, tx>>

\* waitForFreshAccountUsdg sees the balance, or gives up.
SeeUsdg ==
  /\ at["user"] = "quoting"
  /\ usdg > 0
  /\ take' = [take EXCEPT !["user"] = 1]
  /\ Begin("user", "signing")
  /\ UNCHANGED <<chain, batches, pos, op, left, tx>>

MissUsdg ==
  /\ at["user"] = "quoting"
  /\ BuyFails(FALSE, FALSE)
  /\ UNCHANGED <<chain, batches>>

\* The button is there for a held position and for any with a balance.
StartSell(n) ==
  /\ UserMayAct
  /\ pos.status # "none"
  /\ n \in 1..tokens
  /\ pos' = [pos EXCEPT !.status = "selling", !.amount = tokens]
  /\ op' = [op EXCEPT !["user"] = "sell"]
  /\ take' = [take EXCEPT !["user"] = n]
  /\ left' = [left EXCEPT !["user"] = tokens - n]
  /\ Begin("user", "signing")
  /\ UNCHANGED <<chain, batches, tx>>

\* The catch blocks of a flow that has no hash.
Fails(f, sure, noted) ==
  \/ op[f] = "launch" /\ LaunchFails(sure, noted)
  \/ op[f] \in Purchases /\ BuyFails(sure, noted)
  \/ op[f] = "sell" /\ Status("held") /\ Goto(f, "idle")
  \/ op[f] \in {"back", "giveBack"} /\ ReturnFails(f)

\* A quote or a read of the chain fails; if it is the quote of runtime.buy, it is
\* an ExecutionNotBroadcastError.
SigningFails(f) ==
  /\ at[f] = "signing"
  /\ \E sure \in BOOLEAN : Fails(f, sure, FALSE)
  /\ UNCHANGED <<chain, batches>>

\* Mutant: the hash is recorded as soon as the batch is signed.
EarlyAccepted(f) ==
  /\ at[f] = "posting"
  /\ pos' = CASE op[f] \in Purchases ->
                   [pos EXCEPT !.status = "buying", !.buyTx = tx[f]]
              [] op[f] = "sell" ->
                   [pos EXCEPT !.status = "selling", !.sellTx = tx[f]]
              [] OTHER -> pos
  /\ Goto(f, IF op[f] = "launch" THEN "mining" ELSE "confirming")
  /\ UNCHANGED <<chain, batches>>

\* The hash of a trade is recorded before its receipt is awaited.
Accepted(f) ==
  /\ at[f] = "posting"
  /\ Fate(f) \in Broadcasted
  /\ pos' = CASE op[f] \in Purchases ->
                   [pos EXCEPT !.status = "buying", !.buyTx = tx[f]]
              [] op[f] = "sell" ->
                   [pos EXCEPT !.status = "selling", !.sellTx = tx[f]]
              [] OTHER -> pos
  /\ Goto(f, IF op[f] = "launch" THEN "mining" ELSE "confirming")
  /\ UNCHANGED <<chain, batches>>

\* RelayerRejectedError: nothing was broadcast, or so the relayer says.
Rejected(f) ==
  /\ at[f] = "posting"
  /\ Fate(f) = "refused" \/ (Losses /\ Fate(f) \in Broadcasted)
  /\ Fails(f, TRUE, TRUE)
  /\ UNCHANGED <<chain, batches>>

NoAnswer(f) ==
  /\ at[f] = "posting"
  /\ Timeouts
  /\ Fails(f, FALSE, FALSE)
  /\ UNCHANGED <<chain, batches>>

BuyConfirmed ==
  /\ at["user"] = "confirming"
  /\ op["user"] \in Purchases
  /\ Fate("user") = "executed"
  /\ pos' = [pos EXCEPT !.status = "held", !.amount = TokensPerBuy,
                         !.certain = FALSE]
  /\ Goto("user", "idle")
  /\ UNCHANGED <<chain, batches>>

\* The proceeds of a confirmed sell are returned by the same flow.
SellConfirmed ==
  /\ at["user"] = "confirming"
  /\ op["user"] = "sell"
  /\ Fate("user") = "executed"
  /\ pos' = [pos EXCEPT !.status = "returning", !.amount = left["user"]]
  /\ op' = [op EXCEPT !["user"] = "back"]
  /\ Begin("user", "reading")
  /\ UNCHANGED <<chain, batches, take, left, tx>>

\* The receipt of a return batch; the rest of the return is Relay's and CCTP's.
ReturnConfirmed(f) ==
  /\ at[f] = "confirming"
  /\ op[f] \in {"back", "giveBack"}
  /\ Fate(f) = "executed"
  /\ Goto(f, "crossing")
  /\ UNCHANGED <<chain, batches, pos>>

ConfirmedReverted(f) ==
  /\ at[f] = "confirming"
  /\ Fate(f) = "reverted"
  /\ Fails(f, TRUE, TRUE)
  /\ UNCHANGED <<chain, batches>>

\* 120 s without a receipt.
NoReceipt(f) ==
  /\ at[f] = "confirming"
  /\ Timeouts
  /\ \/ op[f] \in Purchases /\ BuyFails(FALSE, FALSE)
     \/ op[f] = "launch" /\ Status("launching") /\ Goto(f, "idle")
     \/ op[f] = "sell" /\ Status("selling") /\ Goto(f, "idle")
     \/ op[f] \in {"back", "giveBack"} /\ ReturnFails(f)
  /\ UNCHANGED <<chain, batches>>

\* Mutant: trade awaits the automatic return until it succeeds.
PatientCatchEnds ==
  /\ at["user"] = "catching"
  /\ at["auto"] = "done"
  /\ at' = [at EXCEPT !["user"] = "idle"]
  /\ UNCHANGED <<chain, batches, pos, op, take, left, tx, busy>>

\* trade awaits the first attempt of the automatic return, whose timer runs out
\* five seconds later at the earliest.
CatchEnds ==
  /\ at["user"] = "catching"
  /\ at["auto"] \in {"waiting", "done"}
  /\ at' = [at EXCEPT !["user"] = "idle"]
  /\ UNCHANGED <<chain, batches, pos, op, take, left, tx, busy>>

\* recoverPosition, the button "Check transaction".
Recorded == CASE pos.status = "selling" -> pos.sellTx
              [] pos.status = "buying" -> pos.buyTx
              [] OTHER -> pos.launchTx

Unconfirmed == {"launching", "buying", "selling"}

CheckNothing ==
  /\ UserMayAct
  /\ pos.status \in Unconfirmed
  /\ Recorded = 0
  /\ pos' = [pos EXCEPT !.status = "failed", !.certain = FALSE]
  /\ UNCHANGED <<chain, batches, flow>>

CheckReverted ==
  /\ UserMayAct
  /\ pos.status \in Unconfirmed
  /\ Recorded # 0
  /\ batches[Recorded].fate = "reverted"
  /\ pos' = [pos EXCEPT !.status = CASE @ = "selling" -> "held"
                                     [] @ = "launching" -> "failed"
                                     [] OTHER -> "buy-failed",
                         !.certain = TRUE]
  /\ UNCHANGED <<chain, batches, flow>>

CheckBuy ==
  /\ UserMayAct
  /\ pos.status = "buying"
  /\ Recorded # 0
  /\ batches[Recorded].fate = "executed"
  /\ pos' = IF tokens > 0
              THEN [pos EXCEPT !.status = "held", !.amount = tokens,
                               !.certain = FALSE]
              ELSE [pos EXCEPT !.status = "buy-failed", !.certain = FALSE]
  /\ UNCHANGED <<chain, batches, flow>>

\* The token is there; its buy is the user's to retry.
CheckLaunch ==
  /\ UserMayAct
  /\ pos.status = "launching"
  /\ Recorded # 0
  /\ batches[Recorded].fate = "executed"
  /\ pos' = [pos EXCEPT !.status = "buy-failed", !.certain = FALSE]
  /\ UNCHANGED <<chain, batches, flow>>

CheckSell ==
  /\ UserMayAct
  /\ pos.status = "selling"
  /\ Recorded # 0
  /\ batches[Recorded].fate = "executed"
  /\ pos' = [pos EXCEPT !.status = "returning", !.amount = tokens]
  /\ left' = [left EXCEPT !["user"] = tokens]
  /\ op' = [op EXCEPT !["user"] = "back"]
  /\ Begin("user", "reading")
  /\ UNCHANGED <<chain, batches, take, tx>>

(***************************************************************************)
(* Returns: returnPositionToPool ("back") and the automatic return of what *)
(* a buy has left ("giveBack").                                            *)
(***************************************************************************)
\* stopPositionRecovery and the preparations are over; the position is marked.
AutoStarts ==
  /\ at["auto"] = "starting"
  /\ Status("returning")
  /\ Begin("auto", "reading")
  /\ UNCHANGED <<chain, batches, op, take, left, tx>>

ReturnFunds(f) ==
  /\ at[f] = "reading"
  /\ usdg > 0
  /\ take' = [take EXCEPT ![f] = usdg]
  /\ at' = [at EXCEPT ![f] = "signing"]
  /\ UNCHANGED <<chain, batches, pos, op, left, tx, busy>>

\* The account is empty: only what earlier returns have left on the way is.
ReturnRest(f) ==
  /\ at[f] = "reading"
  /\ usdg = 0
  /\ Goto(f, "crossing")
  /\ UNCHANGED <<chain, batches, pos>>

\* "No recoverable return was found": the end of an automatic sell return.
NothingToReturn(f) ==
  /\ at[f] = "reading"
  /\ op[f] = "back"
  /\ usdg = 0
  /\ IF f = "auto"
       THEN /\ pos' = [pos EXCEPT !.status = "closed", !.amount = left[f]]
            /\ Goto(f, "off")
       ELSE ReturnFails(f)
  /\ UNCHANGED <<chain, batches>>

\* Mutant: a returned position is closed even if tokens are left.
ClosingReturned(f) ==
  /\ at[f] = "crossing"
  /\ pos' = [pos EXCEPT !.status = "closed", !.certain = FALSE]
  /\ Goto(f, IF f = "user" THEN "idle" ELSE IF op[f] = "back" THEN "off" ELSE "done")
  /\ UNCHANGED <<chain, batches>>

\* A returned position is held while tokens are left.  The entry of a finished
\* giveBack stays in automaticPrivateReturns.
Returned(f) ==
  /\ at[f] = "crossing"
  /\ pos' = IF op[f] = "back"
              THEN [pos EXCEPT !.status = IF left[f] > 0 THEN "held" ELSE "closed",
                               !.amount = left[f], !.certain = FALSE]
              ELSE [pos EXCEPT !.status = "closed", !.certain = FALSE]
  /\ Goto(f, IF f = "user" THEN "idle" ELSE IF op[f] = "back" THEN "off" ELSE "done")
  /\ UNCHANGED <<chain, batches>>

\* A quote, a read, Relay, CCTP or the private merge fails.
ReturnThrows(f) ==
  /\ at[f] \in {"starting", "reading", "crossing"}
  /\ ReturnFails(f)
  /\ UNCHANGED <<chain, batches>>

TimerFires ==
  /\ at["auto"] = "waiting"
  /\ at["user"] # "catching"
  /\ Goto("auto", "starting")
  /\ UNCHANGED <<chain, batches, pos>>

(***************************************************************************)
(* A reload, and what the page starts by itself when the wallet connects.  *)
(***************************************************************************)
NeedsSellReturn ==
  pos.status \in {"return-failed", "returning"} /\ pos.sellTx # 0

NeedsPrivateReturn ==
  \/ pos.status \in {"return-failed", "returning"} /\ pos.sellTx = 0
  \/ pos.status = "buying" /\ pos.buyTx = 0
  \/ pos.status = "launching" /\ pos.launchTx = 0
  \/ pos.status \in {"buy-failed", "failed"} /\ pos.certain

Reload ==
  /\ Reloads
  /\ pos.status # "none"
  /\ LET returns == NeedsSellReturn \/ NeedsPrivateReturn
     IN  at' = [f \in Flows |-> IF f = "user" THEN "idle"
                                ELSE IF returns THEN "starting" ELSE "off"]
  /\ op' = [f \in Flows |-> IF f = "user" THEN "none"
                            ELSE IF NeedsSellReturn THEN "back" ELSE "giveBack"]
  /\ left' = [f \in Flows |-> IF f = "auto" THEN pos.amount ELSE 0]
  /\ take' = [f \in Flows |-> 0]
  /\ tx' = [f \in Flows |-> 0]
  /\ busy' = FALSE
  /\ UNCHANGED <<chain, batches, pos>>

(***************************************************************************)
(* Relay, the policy relayer and the chain.                                *)
(***************************************************************************)
Deliver ==
  /\ ~delivered /\ pos.status # "none"
  /\ delivered' = TRUE
  /\ usdg' = usdg + 1
  /\ UNCHANGED <<tokens, nonce, batches, pos, flow>>

Decide(i, from, fate) ==
  /\ batches[i].fate = from
  /\ batches' = [batches EXCEPT ![i].fate = fate]

Handle(i) ==
  /\ \E fate \in {"pending", "refused"} : Decide(i, "posted", fate)
  /\ UNCHANGED <<chain, pos, flow>>

Include(i) ==
  /\ Decide(i, "pending", "executed")
  /\ batches[i].nonce = nonce
  /\ nonce' = nonce + 1
  /\ LET n == batches[i].amount
     IN  CASE batches[i].kind = "launch" -> UNCHANGED <<usdg, tokens>>
           [] batches[i].kind = "buy"  -> /\ usdg >= n
                                          /\ usdg' = usdg - n
                                          /\ tokens' = tokens + TokensPerBuy
           [] batches[i].kind = "sell" -> /\ tokens >= n
                                          /\ tokens' = tokens - n
                                          /\ usdg' = usdg + n
           [] batches[i].kind = "back" -> /\ usdg >= n
                                          /\ usdg' = usdg - n
                                          /\ tokens' = tokens
  /\ UNCHANGED <<delivered, pos, flow>>

IncludeReverted(i) ==
  /\ Decide(i, "pending", "reverted")
  /\ UNCHANGED <<chain, pos, flow>>

Step(f) ==
  \/ Sign(f) \/ SigningFails(f) \/ Accepted(f) \/ Rejected(f) \/ NoAnswer(f)
  \/ ReturnConfirmed(f) \/ ConfirmedReverted(f) \/ NoReceipt(f)
  \/ ReturnFunds(f) \/ ReturnRest(f) \/ NothingToReturn(f)
  \/ Returned(f) \/ ReturnThrows(f)

UserFlow ==
  \/ LaunchFunded \/ Launched \/ LaunchThrows \/ LaunchConfirmed
  \/ Funded \/ FundingFails \/ SeeUsdg \/ MissUsdg \/ BuyConfirmed \/ SellConfirmed
  \/ CatchEnds \/ Step("user")

AutoFlow == AutoStarts \/ TimerFires \/ Step("auto")

Click ==
  \/ StartLaunch \/ StartBuy \/ RetryBuy
  \/ CheckNothing \/ CheckReverted \/ CheckLaunch \/ CheckBuy \/ CheckSell
  \/ \E n \in 1..TokensPerBuy : StartSell(n)

Chain == \E i \in DOMAIN batches : Handle(i) \/ Include(i) \/ IncludeReverted(i)

Next == Click \/ UserFlow \/ AutoFlow \/ Reload \/ Deliver \/ Chain

Spec == Init /\ [][Next]_vars

\* Awaits settle (timeouts included) and timers fire; the user, Relay, the
\* relayer and the chain need not do anything.
FairSpec == Spec /\ WF_vars(UserFlow) /\ WF_vars(AutoFlow)

(***************************************************************************)
(* Properties.                                                             *)
(***************************************************************************)
Stages == {"idle", "off", "funding", "quoting", "signing", "posting", "mining",
           "confirming", "catching", "starting", "reading", "crossing", "waiting",
           "done"}

TypeOK ==
  /\ {usdg, tokens, nonce} \subseteq Nat /\ delivered \in BOOLEAN
  /\ batches \in Seq(Batch) /\ Len(batches) <= MaxBatches
  /\ pos \in Record
  /\ at \in [Flows -> Stages]
  /\ op \in [Flows -> {"none", "launch", "buy", "retry", "sell", "back", "giveBack"}]
  /\ {take, left} \subseteq [Flows -> Nat]
  /\ tx \in [Flows -> 0..Len(batches)]
  /\ busy \in BOOLEAN

\* A position is closed only when its account holds neither tokens nor USDG.
ClosedHoldsNothing ==
  pos.status = "closed" => tokens = 0 /\ usdg = 0

\* A position is shown as held only when there are tokens to sell.
HeldHasTokens ==
  pos.status = "held" => tokens > 0

\* The hashes of a record stand for broadcast transactions of their kind; that of a
\* launch, which is recorded after its receipt, for an executed one.
HashesAreReal ==
  /\ pos.launchTx # 0 => /\ batches[pos.launchTx].kind = "launch"
                         /\ batches[pos.launchTx].fate = "executed"
  /\ pos.buyTx # 0 => /\ batches[pos.buyTx].kind = "buy"
                      /\ batches[pos.buyTx].fate \in Broadcasted
  /\ pos.sellTx # 0 => /\ batches[pos.sellTx].kind = "sell"
                       /\ batches[pos.sellTx].fate \in Broadcasted

\* The user's own return closes a position only when it has no tokens left.  (The
\* automatic return of a lost buy may have closed it before, with tokens and all.)
UserClosesEmpty ==
  [][at["user"] = "crossing" /\ at["auto"] = at'["auto"]
     /\ pos.status # "closed" /\ pos'.status = "closed" => tokens = 0]_vars

\* The automatic return leaves a held position alone.
HeldIsLeftAlone ==
  [][pos.status = "held" /\ pos'.status # "held" => pos'.status = "selling"]_vars

\* The page does not stay busy for ever: whatever the user has started ends, and
\* the buttons work again.
PageComesBack == (at["user"] # "idle" \/ busy) ~> UserMayAct
=============================================================================
