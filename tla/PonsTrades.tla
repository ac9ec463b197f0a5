----------------------------- MODULE PonsTrades -----------------------------
(***************************************************************************)
(* The batches of calls the Pons adapter builds (adapters/pons-v2.ts) and  *)
(* the ones the semantic validator of the relayer lets through             *)
(* (pons-v2-policy.ts): launches and trades on a curve, each judged        *)
(* against the market it is judged in.                                     *)
(*                                                                         *)
(* A market is [curve, phase, closed, fee, digest]: the traded curve, the  *)
(* phase of the factory's record (0: on its curve), whether launching is   *)
(* closed (canLaunch, the config's enabled flag and the approval of the    *)
(* pair token together), the launch fee and the economics digest, 0 if     *)
(* there is none.                                                          *)
(***************************************************************************)
EXTENDS PonsCurve, Sequences

CONSTANTS
  Account,        \* the position's execution account
  Factory, Usdg,  \* deployment.factory, deployment.usdg
  Tokens, Curves, \* launch tokens and the curves that trade them
  CurveOf,        \* the curve the factory has recorded for a token
  TokenOf,        \* what a curve answers to token()
  PairOf,         \* what a curve answers to pairToken()
  FactoryOf,      \* what a curve answers to factory()
  MaxSlippage,    \* MAX_SLIPPAGE_BPS, the adapter's limit as well
  MaxCreatorTax   \* maxCreatorTaxBps of the factory

ASSUME TradesAssumption ==
  /\ CurveOf \in [Tokens -> Curves]
  /\ TokenOf \in [Curves -> Tokens]
  /\ MaxSlippage \in 0..(Bps \div 2)
  /\ MaxCreatorTax \in 0..Bps

Ready(market) == market.curve.sellable = 0

Approve(token, spender, amount) ==
  [target |-> token, value |-> 0, fn |-> "approve", to |-> spender, amount |-> amount]

Trade(curve, fn, amount, min, to) ==
  [target |-> curve, value |-> 0, fn |-> fn, amount |-> amount, min |-> min, to |-> to]

Launch(fee, pair, to, tax, digest, metadata) ==
  [target |-> Factory, value |-> fee, fn |-> "launchToken", pair |-> pair, to |-> to,
   tax |-> tax, digest |-> digest, metadata |-> metadata]

(***************************************************************************)
(* The adapter.                                                            *)
(***************************************************************************)
\* Mutant: the factory's record of the token is not compared with the curve.
CarelessLiveCurve(market, token, curve, selling) ==
  /\ market.phase = 0
  /\ PairOf[curve] = Usdg
  /\ FactoryOf[curve] = Factory
  /\ selling => ~Ready(market)

\* validateLiveCurve.
LiveCurve(market, token, curve, selling) ==
  /\ market.phase = 0
  /\ CurveOf[token] = curve
  /\ TokenOf[curve] = token
  /\ PairOf[curve] = Usdg
  /\ FactoryOf[curve] = Factory
  /\ selling => ~Ready(market)

BuildsBuy(market, token, curve, in, slippage) ==
  /\ LiveCurve(market, token, curve, FALSE)
  /\ BuyQuotable(market.curve, in)
  /\ slippage \in 0..MaxSlippage
  /\ BuyMinimum(BuyQuote(market.curve, in), in, slippage) > 0

BuyCalls(market, curve, in, slippage) ==
  << Approve(Usdg, curve, in),
     Trade(curve, "buy", in,
           BuyMinimum(BuyQuote(market.curve, in), in, slippage), Account) >>

BuildsSell(market, token, curve, in, slippage) ==
  /\ LiveCurve(market, token, curve, TRUE)
  /\ SellQuotable(market.curve, in)
  /\ slippage \in 0..MaxSlippage
  /\ ApplySlippage(SellQuote(market.curve, in), slippage) > 0

SellCalls(market, token, curve, in, slippage) ==
  << Approve(token, curve, in),
     Trade(curve, "sell", in,
           ApplySlippage(SellQuote(market.curve, in), slippage), Account) >>

\* buildPonsV2LaunchCalls; metadata stands for all the byte lengths together.
BuildsLaunch(market, tax, metadata) ==
  /\ metadata = "bounded"
  /\ ~market.closed
  /\ market.digest # 0
  /\ tax <= MaxCreatorTax

LaunchCalls(market, tax, metadata) ==
  << Launch(market.fee, Usdg, Account, tax, market.digest, metadata) >>

(***************************************************************************)
(* The semantic validator.                                                 *)
(***************************************************************************)
\* validateLaunch.
LaunchAllowed(market, call, prefund) ==
  /\ call.fn = "launchToken"
  /\ call.pair = Usdg
  /\ call.to = Account
  /\ call.digest # 0
  /\ call.metadata = "bounded"
  /\ ~market.closed
  /\ call.value = market.fee /\ prefund = market.fee
  /\ call.tax <= MaxCreatorTax
  /\ call.digest = market.digest

BuyAllowed(market, approval, trade) ==
  /\ approval.target = Usdg
  /\ approval.amount = trade.amount
  /\ trade.min > 0
  /\ trade.to = Account
  /\ BuyQuotable(market.curve, trade.amount)
  /\ LET floor == BuyMinimum(BuyQuote(market.curve, trade.amount), trade.amount, MaxSlippage)
     IN  floor > 0 /\ trade.min >= floor

SellAllowed(market, approval, trade) ==
  /\ ~Ready(market)
  /\ approval.target = TokenOf[trade.target]
  /\ approval.amount = trade.amount
  /\ trade.min > 0
  /\ trade.to = Account
  /\ SellQuotable(market.curve, trade.amount)
  /\ LET floor == ApplySlippage(SellQuote(market.curve, trade.amount), MaxSlippage)
     IN  floor > 0 /\ trade.min >= floor

\* Mutant: whoever is named as the recipient of a buy is left alone.
AnyoneTradeAllowed(market, approval, trade, prefund) ==
  /\ approval.value = 0 /\ trade.value = 0 /\ prefund = 0
  /\ approval.fn = "approve"
  /\ trade.fn \in {"buy", "sell"}
  /\ approval.to = trade.target
  /\ FactoryOf[trade.target] = Factory
  /\ PairOf[trade.target] = Usdg
  /\ market.phase = 0
  /\ CurveOf[TokenOf[trade.target]] = trade.target
  /\ IF trade.fn = "buy" THEN BuyAllowed(market, approval, [trade EXCEPT !.to = Account])
     ELSE SellAllowed(market, approval, trade)

\* validateCurveTrade.
TradeAllowed(market, approval, trade, prefund) ==
  /\ approval.value = 0 /\ trade.value = 0 /\ prefund = 0
  /\ approval.fn = "approve"
  /\ trade.fn \in {"buy", "sell"}
  /\ approval.to = trade.target
  /\ FactoryOf[trade.target] = Factory
  /\ PairOf[trade.target] = Usdg
  /\ market.phase = 0
  /\ CurveOf[TokenOf[trade.target]] = trade.target
  /\ IF trade.fn = "buy" THEN BuyAllowed(market, approval, trade)
     ELSE SellAllowed(market, approval, trade)
=============================================================================
