----------------------------- MODULE PonsPolicy -----------------------------
(***************************************************************************)
(* A position's requests between the browser that builds them, the         *)
(* relayer's semantic validator and the chain, while the market they were  *)
(* built on moves and the clocks of the two servers run.                   *)
(*                                                                         *)
(* The account is at one task at a time: it launches, trades, or returns   *)
(* what it holds.  Every request is judged once and, when it is let        *)
(* through, executed later, on whatever the market and the time are then.  *)
(* Signature, nonce, simulation and broadcast are those of PolicyRelayer.  *)
(***************************************************************************)
EXTENDS ReturnAuthorization

CONSTANTS
  InitialMarket,      \* the market when the task begins
  InitialHeld,        \* what the account holds: [usdg, token]
  Amounts,            \* amounts the user buys or sells
  OthersAmount,       \* amount others buy or sell
  Slippages,          \* slippages the user may choose, in basis points
  Deposits,           \* Relay's strict deposit addresses, also the requests' ids
  Skews,              \* the relayer's clock may be off by one of these
  CallLife,           \* DEFAULT_DEADLINE_SECONDS of a request
  AuthorizationLife,  \* DEFAULT_DEADLINE_SECONDS of the wallet's authorization
  RecoveryLife,       \* deadlineSeconds of a recovery's requests
  MaxMoves,           \* bound on the moves of the market
  MaxTime,            \* bound on the clock
  MaxRequests         \* bound on the requests, and on what is issued and signed

Market == [curve: Curve, phase: {0, 1}, closed: BOOLEAN, fee: Nat, digest: Nat]

Attestations ==
  [id: Deposits, account: {Account}, owner: {Owner}, recipient: {Staging},
   deposit: Deposits \cup {Account}, amount: Nat, issuedAt: Nat, expiresAt: Nat]

Sources == [account: {Account}, amount: Nat]

Authorizations == [recipient: {Wallet}, accounts: Seq(Sources), deadline: Nat]

\* The lives leave room for the skew: ten minutes of fifteen for a request and
\* for an authorization, five for a recovery.
ASSUME PolicyAssumption ==
  /\ InitialMarket \in Market
  /\ InitialHeld \in [usdg: Nat, token: Nat]
  /\ Amounts \subseteq Nat /\ OthersAmount \in Nat
  /\ Slippages \subseteq Nat
  /\ Skews \subseteq -MaxSkew..MaxSkew
  /\ {CallLife, AuthorizationLife, RecoveryLife, MaxMoves, MaxTime, MaxRequests} \subseteq Nat
  /\ CallLife + MaxSkew <= MaxDeadline
  /\ RecoveryLife + MaxSkew <= MaxDeadline
  /\ AuthorizationLife + MaxSkew <= MaxWindow
  /\ None \notin Deposits \cup Attestations \cup Authorizations

VARIABLES
  task,      \* what the position is at
  market,    \* the market, as PonsTrades describes it
  moves,     \* moves of the market so far
  now,       \* the time of the chain and of the proxy
  skew,      \* the relayer's clock is now + skew
  held,      \* what the account holds
  issued,    \* the attestations the proxy has made
  signed,    \* the messages the root wallet has signed
  quote,     \* the quote the client has accepted: its reply and attestation
  approval,  \* the authorization the client has got
  request,   \* the request under way
  stage,     \* how far it is
  built,     \* the market and the slippage it was built with, and whether it was altered
  admitted,  \* the market and the time it was let through on
  outcome,   \* what an executed trade has spent and got
  left,      \* the transfers that have left the account
  requests   \* requests so far

world == <<market, moves, now, skew>>
papers == <<issued, signed, quote, approval>>
flow == <<request, stage, built, admitted, outcome, requests>>
vars == <<task, world, held, papers, flow, left>>

clock == now + skew

NoRequest == [calls |-> << >>]
NoOutcome == [spent |-> 0, got |-> 0]

Request(calls, prefund, life) ==
  [calls |-> calls, prefund |-> prefund, deadline |-> now + life,
   id |-> None, attestation |-> None, authorization |-> None]

Init ==
  /\ task \in {"launch", "trade", "return"}
  /\ market = InitialMarket
  /\ moves = 0
  /\ now = 0
  /\ skew \in IF task = "return" THEN Skews ELSE {0}
  /\ held = InitialHeld
  /\ issued = {} /\ signed = {}
  /\ quote = None /\ approval = None
  /\ request = NoRequest
  /\ stage = "idle"
  /\ built = None /\ admitted = None
  /\ outcome = NoOutcome
  /\ left = {}
  /\ requests = 0

(***************************************************************************)
(* The world.                                                              *)
(***************************************************************************)
Moves(changed) ==
  /\ moves < MaxMoves
  /\ moves' = moves + 1
  /\ market' = changed
  /\ UNCHANGED <<task, now, skew, held, papers, flow, left>>

OthersBuy ==
  /\ task = "trade" /\ market.phase = 0
  /\ BuyQuotable(market.curve, OthersAmount)
  /\ Moves([market EXCEPT !.curve = AfterBuy(@, OthersAmount)])

\* Others sell what they have bought.
OthersSell ==
  /\ task = "trade" /\ market.phase = 0 /\ ~Ready(market)
  /\ SellQuotable(market.curve, OthersAmount)
  /\ OthersAmount + market.curve.sellable + held.token
       <= InitialMarket.curve.sellable + InitialHeld.token
  /\ Moves([market EXCEPT !.curve = AfterSell(@, OthersAmount)])

SnipeTaxDecays ==
  /\ task = "trade" /\ market.curve.snipe > 0
  /\ Moves([market EXCEPT !.curve.snipe = 0])

Graduate ==
  /\ task = "trade" /\ market.phase = 0 /\ Ready(market)
  /\ Moves([market EXCEPT !.phase = 1])

FactoryChanges ==
  /\ task = "launch"
  /\ \/ Moves([market EXCEPT !.fee = @ + 1])
     \/ Moves([market EXCEPT !.digest = @ + 1])
     \/ Moves([market EXCEPT !.closed = ~@])

Tick ==
  /\ task = "return"
  /\ now < MaxTime
  /\ now' = now + 1
  /\ UNCHANGED <<task, market, moves, skew, held, papers, flow, left>>

(***************************************************************************)
(* The client.                                                             *)
(***************************************************************************)
Build(r, s, slippage) ==
  /\ requests < MaxRequests
  /\ stage' = s
  /\ request' = r
  /\ built' = [market |-> market, slippage |-> slippage, altered |-> FALSE]
  /\ requests' = requests + 1
  /\ UNCHANGED <<task, world, held, papers, admitted, outcome, left>>

BuildBuy(token, curve, in, slippage) ==
  /\ task = "trade" /\ stage = "idle"
  /\ in <= held.usdg
  /\ BuildsBuy(market, token, curve, in, slippage)
  /\ Build(Request(BuyCalls(market, curve, in, slippage), 0, CallLife), "built", slippage)

BuildSell(token, curve, in, slippage) ==
  /\ task = "trade" /\ stage = "idle"
  /\ in <= held.token
  /\ BuildsSell(market, token, curve, in, slippage)
  /\ Build(Request(SellCalls(market, token, curve, in, slippage), 0, CallLife), "built", slippage)

BuildLaunch(tax, metadata) ==
  /\ task = "launch" /\ stage = "idle"
  /\ BuildsLaunch(market, tax, metadata)
  /\ Build(Request(LaunchCalls(market, tax, metadata), 0, CallLife), "building", 0)

\* openOptions reads the launch fee once more, for the prefund.
ReadPrefund ==
  /\ stage = "building"
  /\ request' = [request EXCEPT !.prefund = market.fee]
  /\ stage' = "built"
  /\ UNCHANGED <<task, world, held, papers, built, admitted, outcome, left, requests>>

\* Relay answers a quote request, the proxy seals the answer or fails the call,
\* and the client accepts it or throws.
Quote(deposit, amount, reply) ==
  /\ task = "return" /\ stage = "idle"
  /\ approval = None
  /\ Cardinality(issued) + Cardinality(signed) < MaxRequests
  /\ \A claims \in issued : claims.id # deposit
  /\ amount <= held.usdg
  /\ ProxySeals(amount, reply)
  /\ LET claims == Claims(reply, amount, now)
     IN  /\ issued' = issued \cup {claims}
         /\ quote' = IF ClientAccepts(amount, reply, claims)
                     THEN [reply |-> reply, claims |-> claims] ELSE None
  /\ UNCHANGED <<task, world, held, signed, approval, flow, left>>

BuildReturn ==
  /\ task = "return" /\ stage = "idle"
  /\ quote # None
  /\ Build([Request(<<Transfer(quote.reply.token, quote.reply.to, quote.reply.amount)>>,
                    0, CallLife)
            EXCEPT !.id = quote.reply.id, !.attestation = quote.claims], "built", 0)

\* returnSessionsToWallet asks the wallet to sign for the balances it has read;
\* the prompt may stay open for any time after the deadline was chosen.
WalletSigns(amount, time) ==
  /\ task = "return" /\ stage = "idle"
  /\ quote = None /\ approval = None
  /\ Cardinality(issued) + Cardinality(signed) < MaxRequests
  /\ amount <= held.usdg
  /\ LET a == [recipient |-> Wallet, accounts |-> <<[account |-> Account, amount |-> amount]>>,
               deadline |-> time + AuthorizationLife]
     IN  /\ WellFormed(a)
         /\ approval' = a
         /\ signed' = signed \cup {Message(a)}
  /\ UNCHANGED <<task, world, held, issued, quote, flow, left>>

BuildRecovery ==
  /\ task = "return" /\ stage = "idle"
  /\ approval # None
  /\ Build([Request(<<Transfer(Usdg, approval.recipient, approval.accounts[1].amount)>>,
                    0, RecoveryLife)
            EXCEPT !.authorization = approval], "built", 0)

(***************************************************************************)
(* Requests that this client does not build: the owner has signed them,    *)
(* with an older or a changed client, and one thing in them is different.  *)
(***************************************************************************)
OddCalls(call) ==
  {[call EXCEPT !.value = 1], [call EXCEPT !.to = Wallet]}
    \cup (IF call.fn = "launchToken"
          THEN {[call EXCEPT !.tax = MaxCreatorTax + 1], [call EXCEPT !.digest = @ + 1]}
          ELSE {[call EXCEPT !.amount = @ + 1]})
    \cup (IF call.fn \in {"buy", "sell"} THEN {[call EXCEPT !.min = 1]} ELSE {})
    \cup (IF call.fn \in {"buy", "sell", "approve"}
          THEN {[call EXCEPT !.target = c] : c \in Curves} ELSE {})

OddRequests(r) ==
  {[r EXCEPT !.prefund = @ + 1], [r EXCEPT !.deadline = @ + RecoveryLife]}
    \cup (UNION {{[r EXCEPT !.calls[i] = c] : c \in OddCalls(r.calls[i])}
                 : i \in 1..Len(r.calls)})
    \cup {[r EXCEPT !.id = claims.id, !.attestation = claims] : claims \in issued}
    \cup {[r EXCEPT !.id = None, !.attestation = None, !.authorization = a] :
            a \in {None} \cup {[message EXCEPT !.accounts = SetToSeq(@)] : message \in signed}}

Alter ==
  /\ stage = "built" /\ ~built.altered
  /\ \E r \in OddRequests(request) : request' = r
  /\ built' = [built EXCEPT !.altered = TRUE]
  /\ UNCHANGED <<task, world, held, papers, stage, admitted, outcome, left, requests>>

(***************************************************************************)
(* The relayer and the chain.                                              *)
(***************************************************************************)
RequestAllowed == Allowed(market, issued, signed, request, clock)

Admit ==
  /\ stage = "built" /\ RequestAllowed
  /\ stage' = "admitted"
  /\ admitted' = [market |-> market, now |-> now]
  /\ UNCHANGED <<task, world, held, papers, request, built, outcome, left, requests>>

\* The client throws and the user begins anew.
Over ==
  /\ stage' = "idle"
  /\ request' = NoRequest /\ built' = None /\ admitted' = None /\ outcome' = NoOutcome
  /\ quote' = None /\ approval' = None
  /\ UNCHANGED <<task, world, held, issued, signed, left, requests>>

Refuse == stage = "built" /\ ~RequestAllowed /\ Over

main == request.calls[Len(request.calls)]

\* The transaction is included in time, and what it calls does not revert.
BuyFills ==
  /\ main.amount <= held.usdg
  /\ market.phase = 0 /\ CurveFillsBuy(market.curve, main.amount, main.min)

SellFills ==
  /\ main.amount <= held.token
  /\ market.phase = 0 /\ ~Ready(market)
  /\ CurveFillsSell(market.curve, main.amount, main.min)

Executes ==
  /\ now <= request.deadline
  /\ CASE main.fn = "buy"      -> BuyFills
       [] main.fn = "sell"     -> SellFills
       [] main.fn = "transfer" -> main.amount <= held.usdg
       [] OTHER -> /\ ~market.closed /\ main.value = market.fee
                   /\ main.digest = market.digest

Execute ==
  /\ stage = "admitted" /\ Executes
  /\ stage' = "executed"
  /\ UNCHANGED <<task, moves, now, skew, papers, request, built, admitted, requests>>

ExecuteBuy ==
  /\ Execute /\ main.fn = "buy"
  /\ LET q == BuyQuote(market.curve, main.amount)
         got == IF main.to = Account THEN q.tokensOut ELSE 0
     IN  /\ held' = [usdg |-> held.usdg - q.spent, token |-> held.token + got]
         /\ outcome' = [spent |-> q.spent, got |-> got]
  /\ market' = [market EXCEPT !.curve = AfterBuy(@, main.amount)]
  /\ UNCHANGED left

ExecuteSell ==
  /\ Execute /\ main.fn = "sell"
  /\ LET paid == SellQuote(market.curve, main.amount)
         got == IF main.to = Account THEN paid ELSE 0
     IN  /\ held' = [usdg |-> held.usdg + got, token |-> held.token - main.amount]
         /\ outcome' = [spent |-> main.amount, got |-> got]
  /\ market' = [market EXCEPT !.curve = AfterSell(@, main.amount)]
  /\ UNCHANGED left

ExecuteTransfer ==
  /\ Execute /\ main.fn = "transfer"
  /\ held' = [held EXCEPT !.usdg = @ - main.amount]
  /\ left' = left \cup {[to |-> main.to, amount |-> main.amount,
                         admitted |-> admitted.now, at |-> now]}
  /\ UNCHANGED <<market, outcome>>

ExecuteLaunch ==
  /\ Execute /\ main.fn = "launchToken"
  /\ UNCHANGED <<market, held, outcome, left>>

Revert == stage = "admitted" /\ ~Executes /\ Over

\* The user goes on to something else.
Close == stage = "executed" /\ Over

Replies(deposit, amount) ==
  LET good == GoodReply(deposit, deposit, amount)
  IN  {good, [good EXCEPT !.route = "changed"], [good EXCEPT !.in = @ + 1],
       [good EXCEPT !.minimum = 0], [good EXCEPT !.items = "several"],
       [good EXCEPT !.from = Wallet], [good EXCEPT !.value = 1],
       [good EXCEPT !.call = "other"], [good EXCEPT !.amount = @ + 1],
       [good EXCEPT !.to = Account]}

Next ==
  \/ OthersBuy \/ OthersSell \/ SnipeTaxDecays \/ Graduate \/ FactoryChanges \/ Tick
  \/ \E token \in Tokens, curve \in Curves, in \in Amounts, slippage \in Slippages :
       \/ BuildBuy(token, curve, in, slippage)
       \/ BuildSell(token, curve, in, slippage)
  \/ \E tax \in {0, MaxCreatorTax, MaxCreatorTax + 1}, metadata \in {"bounded", "overlong"} :
       BuildLaunch(tax, metadata)
  \/ ReadPrefund
  \/ \E deposit \in Deposits, amount \in Amounts :
       \E reply \in Replies(deposit, amount) : Quote(deposit, amount, reply)
  \/ BuildReturn
  \/ \E amount \in Amounts, time \in 0..now : WalletSigns(amount, time)
  \/ BuildRecovery
  \/ Alter
  \/ Admit \/ Refuse
  \/ ExecuteBuy \/ ExecuteSell \/ ExecuteTransfer \/ ExecuteLaunch \/ Revert \/ Close

Spec == Init /\ [][Next]_vars

(***************************************************************************)
(* Properties.                                                             *)
(***************************************************************************)
fresh == stage \in {"built", "admitted"} /\ ~built.altered

\* The reserves, what the curve may sell and what the account holds stay
\* natural numbers whatever is bought and sold in whatever order, which is
\* what the code's unsigned quotes rely on.
TypeOK ==
  /\ task \in {"launch", "trade", "return"}
  /\ market.curve \in Curve /\ market.phase \in {0, 1}
  /\ moves \in 0..MaxMoves /\ now \in 0..MaxTime /\ skew \in -MaxSkew..MaxSkew
  /\ held \in [usdg: Nat, token: Nat]
  /\ stage \in {"idle", "building", "built", "admitted", "executed"}
  /\ stage = "idle" <=> request = NoRequest
  /\ outcome \in [spent: Nat, got: Nat]
  /\ \A e \in left : e.admitted <= e.at
  /\ requests \in 0..MaxRequests

\* The relayer lets a trade or a launch through that the SDK built on the very
\* market it is judged in, whatever the slippage the user chose: the adapter
\* and the validator, two translations of the same curve, agree.  The validator
\* takes half of the quote for its floor and refuses a floor of zero, so the
\* quote must be at least two units.
Substantial ==
  \/ task = "launch"
  \/ main.fn = "buy" /\ BuyQuote(market.curve, main.amount).tokensOut > 1
  \/ main.fn = "sell" /\ SellQuote(market.curve, main.amount) > 1

TradesPass ==
  (/\ fresh /\ stage = "built" /\ task # "return"
   /\ built.market = market
   /\ Substantial)
  => RequestAllowed

\* The relayer lets a return through as long as its quote has not expired, and
\* a recovery that ends before the wallet's authorization does, wherever its
\* clock is within the skew it allows for.  The deposit address Relay named
\* must not be the account itself.
ReturnsPass ==
  (/\ fresh /\ stage = "built" /\ task = "return"
   /\ main.to # Account
   /\ now + MaxSkew <= request.deadline
   /\ IF request.id = None THEN request.deadline <= request.authorization.deadline
      ELSE now + MaxSkew <= request.attestation.expiresAt)
  => RequestAllowed

\* A trade the relayer has let through fills when the market is still the one
\* it was built on: the minimum the SDK computes for a partial fill is one the
\* curve, which scales it down again, meets.
QuotedTradeExecutes ==
  fresh /\ stage = "admitted" /\ task # "return" /\ built.market = market
  => Executes

\* What an executed trade gets for what it spends is within the user's slippage
\* of the rate that was quoted, up to rounding, whatever others have done to
\* the curve since and however little of a buy the curve could fill.
PaidAtQuotedRate ==
  LET part == Bps - built.slippage
      q == BuyQuote(built.market.curve, main.amount)
  IN  stage = "executed" /\ ~built.altered
      => /\ main.fn = "buy" =>
              Bps * q.spent * (outcome.got + 3) > part * q.tokensOut * outcome.spent
         /\ main.fn = "sell" =>
              Bps * (outcome.got + 2) > part * SellQuote(built.market.curve, main.amount)

\* Even a trade that this client did not build pays the account half of what
\* the market offered when the relayer judged it, up to rounding.
PolicyFloor ==
  LET q == BuyQuote(admitted.market.curve, main.amount)
  IN  stage = "executed"
      => /\ main.fn = "buy" =>
              2 * q.spent * (outcome.got + 3) > q.tokensOut * outcome.spent
         /\ main.fn = "sell" =>
              2 * (outcome.got + 2) > SellQuote(admitted.market.curve, main.amount)

\* USDG leaves the account by a transfer only to a deposit address, and in the
\* amount, of an attestation the proxy made for this account and that had not
\* expired when the relayer looked, or to the wallet in the amount the wallet
\* signed for and before the time it signed for.
ReturnsAreAuthorized ==
  \A e \in left :
    \/ \E claims \in issued :
         /\ claims.account = Account /\ claims.deposit = e.to /\ claims.amount = e.amount
         /\ e.admitted <= claims.expiresAt + MaxSkew
    \/ \E message \in signed :
         /\ message.recipient = e.to
         /\ [account |-> Account, amount |-> e.amount] \in message.accounts
         /\ e.at <= message.deadline
=============================================================================
