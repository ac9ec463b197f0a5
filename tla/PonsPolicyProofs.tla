-------------------------- MODULE PonsPolicyProofs --------------------------
(***************************************************************************)
(* What the semantic policy lets through, and what it leads to, for every  *)
(* curve, every fee, every life of a request and any number of moves.      *)
(*                                                                         *)
(* The bounds on the price rest on one fact about integer division,        *)
(* RateSurvives: a minimum that was rounded down twice when it was quoted  *)
(* and is scaled down once more by the curve still keeps the quoted rate,  *)
(* up to three units.  PolicyInv carries, from the step that builds a      *)
(* request to the step that executes it, what the builder and the          *)
(* validator have seen.                                                    *)
(***************************************************************************)
EXTENDS PonsPolicy, FiniteSetTheorems, TLAPS

(***************************************************************************)
(* Integer division.                                                       *)
(***************************************************************************)
LEMMA Floor ==
  ASSUME NEW a \in Int, NEW n \in Nat, n > 0
  PROVE  /\ a \div n \in Int
         /\ n * (a \div n) <= a
         /\ a < n * (a \div n) + n
BY Z3

LEMMA Times ==
  ASSUME NEW a \in Int, NEW b \in Int, NEW c \in Nat, a <= b
  PROVE  a * c <= b * c
BY Z3

LEMMA TimesStrict ==
  ASSUME NEW a \in Int, NEW b \in Int, NEW c \in Nat, c > 0
  PROVE  /\ a < b => a * c < b * c
         /\ a * c < b * c => a < b
BY Z3

LEMMA FloorMono ==
  ASSUME NEW a \in Int, NEW b \in Int, NEW n \in Nat, n > 0, a <= b
  PROVE  a \div n <= b \div n
BY Z3

LEMMA FloorNat ==
  ASSUME NEW a \in Nat, NEW n \in Nat, n > 0
  PROVE  a \div n \in Nat /\ a \div n <= a
BY Z3

LEMMA FloorAtMost ==
  ASSUME NEW a \in Int, NEW n \in Nat, n > 0, NEW k \in Int
  PROVE  /\ a < (k + 1) * n => a \div n <= k
         /\ k * n <= a => k <= a \div n
BY Z3

(***************************************************************************)
(* The curve: quotes exist within the reserves, and the reserves stay      *)
(* natural.                                                                *)
(***************************************************************************)
LEMMA ShareBounds ==
  ASSUME NEW a \in Nat, NEW b \in Nat
  PROVE  /\ Share(a, b) \in Nat
         /\ Bps * Share(a, b) <= a * b
<1>1. a * b \in Nat
  BY Z3
<1> QED
  BY <1>1, Floor, FloorNat DEF Share, Bps

LEMMA TaxBounds ==
  ASSUME NEW c \in Curve
  PROVE  /\ FeeBps \in Nat /\ CreatorTaxBps \in Nat /\ SnipeTax(c) \in Nat
         /\ FeeBps + CreatorTaxBps + SnipeTax(c) + MinBuyNetBps <= Bps
BY CurveAssumption DEF SnipeTax, Curve, Bps, MinBuyNetBps

LEMMA NetBounds ==
  ASSUME NEW c \in Curve, NEW in \in Nat
  PROVE  Net(c, in) \in 0..in
<1> DEFINE f == FeeBps
           t == CreatorTaxBps
           s == SnipeTax(c)
<1>1. f \in Nat /\ t \in Nat /\ s \in Nat /\ f + t + s <= Bps
  BY TaxBounds DEF Bps, MinBuyNetBps
<1> HIDE DEF f, t, s
<1>2. /\ Share(in, f) \in Nat /\ Share(in, t) \in Nat /\ Share(in, s) \in Nat
      /\ Bps * Share(in, f) <= in * f
      /\ Bps * Share(in, t) <= in * t
      /\ Bps * Share(in, s) <= in * s
  BY <1>1, ShareBounds
<1>3. in * f + in * t + in * s <= in * Bps
  <2>1. in * f + in * t + in * s = (f + t + s) * in
    BY <1>1, Z3
  <2> QED
    BY <1>1, <2>1, Times DEF Bps
<1>4. Bps * (Share(in, f) + Share(in, t) + Share(in, s)) <= Bps * in
  BY <1>1, <1>2, <1>3 DEF Bps
<1> QED
  BY <1>2, <1>4 DEF Net, Bps, f, t, s

LEMMA OutBounds ==
  ASSUME NEW in \in Nat, NEW reserveIn \in Nat, NEW reserveOut \in Nat, reserveIn > 0
  PROVE  /\ AmountOut(in, reserveIn, reserveOut) \in 0..reserveOut
         /\ reserveOut > 0 => AmountOut(in, reserveIn, reserveOut) < reserveOut
<1>1. reserveIn + in \in Nat /\ reserveIn + in > 0 /\ in * reserveOut \in Nat
  BY Z3
<1>2. in * reserveOut <= reserveOut * (reserveIn + in)
  BY Z3
<1>3. reserveOut > 0 => in * reserveOut < reserveOut * (reserveIn + in)
  BY Z3
<1>4. in * reserveOut < (reserveOut + 1) * (reserveIn + in)
  BY Z3
<1> QED
  BY <1>1, <1>2, <1>3, <1>4, FloorNat, FloorAtMost DEF AmountOut

LEMMA InBounds ==
  ASSUME NEW out \in Nat, NEW reserveIn \in Nat, NEW reserveOut \in Nat,
         InQuotable(out, reserveIn, reserveOut)
  PROVE  AmountIn(out, reserveIn, reserveOut) \in Nat \ {0}
<1>1. out * reserveIn \in Nat /\ reserveOut - out \in Nat /\ reserveOut - out > 0
  BY Z3 DEF InQuotable
<1> QED
  BY <1>1, FloorNat DEF AmountIn

LEMMA GrossedBounds ==
  ASSUME NEW c \in Curve, InQuotable(c.sellable, c.quote, c.token)
  PROVE  Grossed(c) \in Nat \ {0}
<1> DEFINE n == AmountIn(c.sellable, c.quote, c.token)
           d == Bps - FeeBps - CreatorTaxBps - SnipeTax(c)
<1>1. n \in Nat \ {0}
  BY InBounds DEF Curve
<1>2. d \in Nat \ {0}
  BY TaxBounds DEF Bps, MinBuyNetBps
<1> HIDE DEF n, d
<1>3. n * Bps + d - 1 \in Nat /\ 1 * d <= n * Bps + d - 1
  BY <1>1, <1>2 DEF Bps
<1>4. (n * Bps + d - 1) \div d \in Nat /\ 1 <= (n * Bps + d - 1) \div d
  BY <1>2, <1>3, FloorNat, FloorAtMost
<1> QED
  BY <1>4 DEF Grossed, CeilDiv, n, d

LEMMA BuyQuoteBounds ==
  ASSUME NEW c \in Curve, NEW in \in Nat, BuyQuotable(c, in)
  PROVE  /\ BuyQuote(c, in).tokensOut \in Nat
         /\ BuyQuote(c, in).tokensOut <= c.sellable
         /\ BuyQuote(c, in).tokensOut <= c.token
         /\ BuyQuote(c, in).spent \in 1..in
<1>1. /\ in > 0 /\ Net(c, in) \in Nat /\ c.quote > 0 /\ c.token > 0
      /\ c.quote \in Nat /\ c.token \in Nat /\ c.sellable \in Nat
  BY NetBounds DEF BuyQuotable, OutQuotable, Curve
<1>2. FullOut(c, in) \in 0..c.token
  BY <1>1, OutBounds DEF FullOut
<1>3. CASE FullOut(c, in) <= c.sellable
  BY <1>1, <1>2, <1>3 DEF BuyQuote
<1>4. CASE ~ (FullOut(c, in) <= c.sellable)
  <2>1. FullOut(c, in) > c.sellable
    BY <1>1, <1>2, <1>4
  <2>2. InQuotable(c.sellable, c.quote, c.token)
    BY <2>1 DEF BuyQuotable
  <2>3. Grossed(c) \in Nat \ {0}
    BY <2>2, GrossedBounds
  <2>4. BuyQuote(c, in) = [tokensOut |-> c.sellable,
                           spent |-> IF Grossed(c) < in THEN Grossed(c) ELSE in]
    BY <1>4 DEF BuyQuote
  <2> QED
    BY <1>1, <2>2, <2>3, <2>4 DEF InQuotable
<1> QED
  BY <1>3, <1>4

LEMMA AfterBuyTypes ==
  ASSUME NEW c \in Curve, NEW in \in Nat, BuyQuotable(c, in)
  PROVE  AfterBuy(c, in) \in Curve
<1> DEFINE q == BuyQuote(c, in)
<1>1. q.tokensOut \in Nat /\ q.tokensOut <= c.sellable /\ q.tokensOut <= c.token
  BY BuyQuoteBounds
<1>2. q.spent \in Nat
  BY BuyQuoteBounds
<1>3. Net(c, q.spent) \in Nat
  BY <1>2, NetBounds
<1> HIDE DEF q
<1>4. AfterBuy(c, in) = [c EXCEPT !.quote = @ + Net(c, q.spent), !.token = @ - q.tokensOut,
                                  !.sellable = @ - q.tokensOut]
  BY DEF AfterBuy, q
<1>5. /\ c.quote + Net(c, q.spent) \in Nat
      /\ c.token - q.tokensOut \in Nat
      /\ c.sellable - q.tokensOut \in Nat
  BY <1>1, <1>3 DEF Curve
<1> QED
  BY <1>4, <1>5 DEF Curve

LEMMA SellBounds ==
  ASSUME NEW c \in Curve, NEW in \in Nat, SellQuotable(c, in)
  PROVE  /\ GrossSell(c, in) \in 0..c.quote
         /\ SellQuote(c, in) \in Nat
         /\ AfterSell(c, in) \in Curve
<1>1. c.quote \in Nat /\ c.token \in Nat /\ c.sellable \in Nat /\ c.token > 0
  BY DEF SellQuotable, OutQuotable, Curve
<1>2. GrossSell(c, in) \in 0..c.quote
  BY <1>1, OutBounds DEF GrossSell
<1>3. Share(GrossSell(c, in), FeeBps) \in Nat /\ Share(GrossSell(c, in), CreatorTaxBps) \in Nat
  BY <1>2, ShareBounds, TaxBounds
<1>4. SellQuote(c, in) \in Int /\ SellQuote(c, in) > 0
  BY <1>2, <1>3 DEF SellQuote, SellQuotable
<1>5. /\ c.quote - GrossSell(c, in) \in Nat
      /\ c.token + in \in Nat /\ c.sellable + in \in Nat
  BY <1>1, <1>2
<1>6. AfterSell(c, in) \in Curve
  BY <1>5 DEF AfterSell, Curve
<1> QED
  BY <1>2, <1>4, <1>6

LEMMA SlippageBounds ==
  ASSUME NEW amount \in Nat, NEW slippage \in 0..Bps
  PROVE  /\ ApplySlippage(amount, slippage) \in 0..amount
         /\ Bps * ApplySlippage(amount, slippage) <= amount * (Bps - slippage)
         /\ amount * (Bps - slippage) < Bps * ApplySlippage(amount, slippage) + Bps
<1> DEFINE kept == Bps - slippage
           share == amount * kept
<1>1. kept \in Nat /\ kept <= Bps /\ Bps \in Nat /\ Bps > 0
  BY DEF Bps
<1> HIDE DEF kept
<1>2. share \in Nat
  BY <1>1, Z3
<1>3. share < (amount + 1) * Bps
  <2>1. kept * amount <= Bps * amount
    BY <1>1, Times
  <2> QED
    BY <1>1, <2>1, Z3 DEF Bps
<1> HIDE DEF share
<1>4. /\ share \div Bps \in Nat /\ share \div Bps <= amount
      /\ Bps * (share \div Bps) <= share
      /\ share < Bps * (share \div Bps) + Bps
  BY <1>1, <1>2, <1>3, Floor, FloorNat, FloorAtMost
<1> QED
  BY <1>4 DEF ApplySlippage, kept, share

LEMMA SlippageMono ==
  ASSUME NEW amount \in Nat, NEW less \in 0..Bps, NEW more \in 0..Bps, less <= more
  PROVE  ApplySlippage(amount, more) <= ApplySlippage(amount, less)
<1> DEFINE m == Bps - more
           l == Bps - less
<1>1. m \in Nat /\ l \in Nat /\ m <= l /\ Bps \in Nat /\ Bps > 0
  BY DEF Bps
<1> HIDE DEF m, l
<1>2. amount * m <= amount * l /\ amount * m \in Int /\ amount * l \in Int
  BY <1>1, Z3
<1>3. (amount * m) \div Bps <= (amount * l) \div Bps
  BY <1>1, <1>2, FloorMono
<1> QED
  BY <1>3 DEF ApplySlippage, m, l

LEMMA HalfIsPositive ==
  ASSUME NEW amount \in Nat, amount > 1
  PROVE  ApplySlippage(amount, MaxSlippage) > 0
<1>1. MaxSlippage \in Int /\ 5000 <= Bps - MaxSlippage /\ Bps - MaxSlippage \in Nat
  BY TradesAssumption DEF Bps
<1>2. 1 * Bps <= amount * (Bps - MaxSlippage)
  BY <1>1, Z3 DEF Bps
<1>3. amount * (Bps - MaxSlippage) \in Int
  BY <1>1, Z3
<1>4. 1 <= (amount * (Bps - MaxSlippage)) \div Bps
  BY <1>2, <1>3, FloorAtMost DEF Bps
<1> QED
  BY <1>3, <1>4, Floor DEF ApplySlippage, Bps

\* The minimum the SDK takes for a buy keeps the quoted rate wherever the curve
\* fills it and however little of it: out for spent was quoted, out2 for spent2
\* is what is got.
LEMMA RateSurvives ==
  ASSUME NEW out \in Nat, NEW in \in Nat, NEW spent \in 1..in,
         NEW out2 \in Nat, NEW spent2 \in 0..in,
         NEW slippage \in 0..Bps, NEW min \in Nat,
         min >= ApplySlippage((out * in) \div spent, slippage),
         out2 >= (min * spent2) \div in
  PROVE  Bps * spent * (out2 + 3) > (Bps - slippage) * out * spent2
<1> DEFINE kept == Bps - slippage
           rate == (out * in) \div spent
<1>1. kept \in Nat /\ kept <= Bps /\ Bps \in Nat /\ Bps > 0 /\ in > 0 /\ spent > 0
  BY DEF Bps
<1>2. out * in \in Nat /\ min * spent2 \in Nat
  BY Z3
<1>3. rate \in Nat /\ out * in < spent * rate + spent
  BY <1>1, <1>2, Floor, FloorNat
<1>4. rate * kept < Bps * min + Bps
  <2>1. rate * kept < Bps * ApplySlippage(rate, slippage) + Bps /\ ApplySlippage(rate, slippage) \in Nat
    BY <1>3, SlippageBounds
  <2> QED
    BY <2>1 DEF Bps
<1>5. min * spent2 < in * (out2 + 1)
  <2>1. min * spent2 < in * ((min * spent2) \div in) + in /\ (min * spent2) \div in \in Int
    BY <1>1, <1>2, Floor
  <2>2. ((min * spent2) \div in) * in <= out2 * in
    BY <2>1, Times
  <2> QED
    BY <2>1, <2>2, Z3
<1> HIDE DEF kept, rate
<1>6. /\ Bps * out2 \in Nat /\ kept * out \in Nat
  BY <1>1, Z3
\* everything is multiplied by in, and by spent
<1>7. kept * out * in <= kept * spent * rate + kept * spent
  BY <1>1, <1>3, Z3
<1>8. spent * rate * kept <= spent * (Bps * min + Bps)
  BY <1>1, <1>3, <1>4, Z3
<1>9. kept * out * in <= spent * Bps * min + 2 * spent * Bps
  <2>1. kept * spent <= Bps * spent
    BY <1>1, Times
  <2> QED
    BY <1>1, <1>3, <1>7, <1>8, <2>1, Z3
<1>10. (kept * out * in) * spent2 <= (spent * Bps * min + 2 * spent * Bps) * spent2
  <2>1. kept * out * in \in Int /\ spent * Bps * min + 2 * spent * Bps \in Int /\ spent2 \in Nat
    BY <1>1, Z3
  <2> QED
    BY <1>9, <2>1, Times
<1>11. (min * spent2) * (spent * Bps) < (in * (out2 + 1)) * (spent * Bps)
  <2>1. spent * Bps \in Nat /\ spent * Bps > 0 /\ in * (out2 + 1) \in Int
    BY <1>1, Z3
  <2> QED
    BY <1>2, <1>5, <2>1, TimesStrict
<1>12. spent2 * (2 * spent * Bps) <= in * (2 * spent * Bps)
  <2>1. 2 * spent * Bps \in Nat
    BY <1>1, Z3
  <2> QED
    BY <2>1, Times
<1>13. (kept * out * spent2) * in < (Bps * spent * (out2 + 3)) * in
  BY <1>1, <1>10, <1>11, <1>12, Z3
<1>14. kept * out * spent2 \in Int /\ Bps * spent * (out2 + 3) \in Int
  BY <1>1, Z3
<1> QED
  BY <1>1, <1>13, <1>14, TimesStrict DEF kept
(***************************************************************************)
(* The inductive invariant.                                                *)
(***************************************************************************)
Things ==
  {Usdg, Account, Factory, Owner, Staging, Wallet} \cup Tokens \cup Curves \cup Deposits

ApproveRecords ==
  [target: Things, value: Nat, fn: {"approve"}, to: Things, amount: Nat]

TradeRecords ==
  [target: Things, value: Nat, fn: {"buy", "sell"}, amount: Nat, min: Nat, to: Things]

LaunchRecords ==
  [target: Things, value: Nat, fn: {"launchToken"}, pair: Things, to: Things,
   tax: Nat, digest: Nat, metadata: {"bounded", "overlong"}]

TransferRecords ==
  [target: Things, value: Nat, fn: {"transfer"}, to: Things, amount: Nat]

CallSet == ApproveRecords \cup TradeRecords \cup LaunchRecords \cup TransferRecords

Signable(message) ==
  /\ message \in [recipient: {Wallet}, accounts: SUBSET Sources, deadline: Nat]
  /\ IsFiniteSet(message.accounts)

RequestSet ==
  [calls: Seq(CallSet) \ {<< >>}, prefund: Nat, deadline: Nat, id: Deposits \cup {None},
   attestation: Attestations \cup {None}, authorization: Authorizations \cup {None}]

WorldTypes ==
  /\ task \in {"launch", "trade", "return"}
  /\ market \in Market
  /\ moves \in 0..MaxMoves /\ now \in 0..MaxTime /\ skew \in -MaxSkew..MaxSkew
  /\ task # "return" => now = 0 /\ skew = 0

PaperTypes ==
  /\ issued \subseteq Attestations
  /\ \A message \in signed : Signable(message)

FlowTypes ==
  /\ stage \in {"idle", "building", "built", "admitted", "executed"}
  /\ requests \in 0..MaxRequests
  /\ outcome \in [spent: Nat, got: Nat]
  /\ stage = "idle" => request = NoRequest
  /\ stage # "idle" => /\ request \in RequestSet
                       /\ built \in [market: Market, slippage: Nat, altered: BOOLEAN]
  /\ stage \in {"admitted", "executed"} => /\ admitted \in [market: Market, now: Nat]
                                           /\ admitted.now <= now

HeldTypes == held \in [usdg: Nat, token: Nat]

LeftTypes == \A e \in left : e.admitted <= e.at

\* A quote the client has accepted is one the proxy attests, and the approval
\* it has is one the wallet signed.
QuoteKept(q) ==
  /\ q.claims \in issued
  /\ q.claims.issuedAt <= now
  /\ q.claims.amount > 0
  /\ q.reply.id = q.claims.id /\ q.reply.token = Usdg
  /\ q.reply.to = q.claims.deposit /\ q.reply.amount = q.claims.amount

ApprovalKept(a) ==
  /\ a \in Authorizations
  /\ WellFormed(a)
  /\ a.accounts = <<[account |-> Account, amount |-> a.accounts[1].amount]>>
  /\ Message(a) \in signed
  /\ a.deadline <= now + AuthorizationLife

PapersKept ==
  /\ quote # None => QuoteKept(quote)
  /\ approval # None => ApprovalKept(approval)

\* What is under way, unless it was altered, is what one of the client's
\* builders has made of the market of that time.
Plain(calls, prefund, deadline) ==
  [calls |-> calls, prefund |-> prefund, deadline |-> deadline,
   id |-> None, attestation |-> None, authorization |-> None]

BuyMade(token, curve, in) ==
  /\ BuildsBuy(built.market, token, curve, in, built.slippage)
  /\ request = Plain(BuyCalls(built.market, curve, in, built.slippage), 0, CallLife)
  /\ stage # "executed" => in <= held.usdg

SellMade(token, curve, in) ==
  /\ BuildsSell(built.market, token, curve, in, built.slippage)
  /\ request = Plain(SellCalls(built.market, token, curve, in, built.slippage), 0, CallLife)
  /\ stage # "executed" => in <= held.token

LaunchMade(tax, metadata) ==
  /\ BuildsLaunch(built.market, tax, metadata)
  /\ request = Plain(LaunchCalls(built.market, tax, metadata), request.prefund, CallLife)
  /\ built.market.fee <= market.fee
  /\ stage # "building" => built.market.fee <= request.prefund /\ request.prefund <= market.fee

ReturnMade(claims, deadline) ==
  /\ claims \in issued
  /\ request = [Plain(<<Transfer(Usdg, claims.deposit, claims.amount)>>, 0, deadline)
                EXCEPT !.id = claims.id, !.attestation = claims]
  /\ claims.issuedAt <= now
  /\ claims.amount > 0
  /\ deadline <= now + CallLife

RecoveryMade(a, deadline) ==
  /\ ApprovalKept(a)
  /\ request = [Plain(<<Transfer(Usdg, Wallet, a.accounts[1].amount)>>, 0, deadline)
                EXCEPT !.authorization = a]
  /\ deadline <= now + RecoveryLife

TradeMade ==
  \E token \in Tokens, curve \in Curves, in \in Amounts :
    BuyMade(token, curve, in) \/ SellMade(token, curve, in)

ClientMade ==
  \/ task = "trade" /\ stage # "building" /\ TradeMade
  \/ /\ task = "launch"
     /\ \E tax \in {0, MaxCreatorTax, MaxCreatorTax + 1}, metadata \in {"bounded", "overlong"} :
          LaunchMade(tax, metadata)
  \/ /\ task = "return" /\ stage # "building"
     /\ \/ ReturnMade(request.attestation, request.deadline)
        \/ RecoveryMade(request.authorization, request.deadline)

MadeByClient == stage # "idle" /\ ~built.altered => ClientMade

\* The relayer has judged what is admitted, on the market and papers of then.
WasAllowed ==
  stage \in {"admitted", "executed"}
  => Allowed(admitted.market, issued, signed, request, admitted.now + skew)

Types == WorldTypes /\ PaperTypes /\ FlowTypes /\ HeldTypes /\ LeftTypes

PolicyInv ==
  /\ Types
  /\ PapersKept /\ MadeByClient /\ WasAllowed
  /\ PaidAtQuotedRate /\ PolicyFloor /\ ReturnsAreAuthorized

(***************************************************************************)
(* The world.                                                              *)
(***************************************************************************)
MarketMoves == OthersBuy \/ OthersSell \/ SnipeTaxDecays \/ Graduate \/ FactoryChanges

LEMMA MovesTo ==
  ASSUME WorldTypes, NEW changed \in Market, Moves(changed), changed.fee >= market.fee,
         task # "return"
  PROVE  /\ WorldTypes'
         /\ market'.fee >= market.fee
         /\ UNCHANGED <<task, now, skew, held, papers, flow, left>>
<1>1. market' = changed /\ UNCHANGED <<task, now, skew, held, papers, flow, left>> /\ moves' = moves + 1
      /\ moves < MaxMoves
  BY DEF Moves
<1>2. moves' \in 0..MaxMoves
  BY <1>1, PolicyAssumption DEF WorldTypes
<1> QED
  BY <1>1, <1>2 DEF WorldTypes

LEMMA MarketMovesTypes ==
  ASSUME WorldTypes, MarketMoves
  PROVE  /\ WorldTypes'
         /\ market'.fee >= market.fee
         /\ UNCHANGED <<task, now, skew, held, papers, flow, left>>
<1>1. /\ market \in Market /\ market.curve \in Curve /\ market.fee \in Nat /\ market.digest \in Nat
      /\ market.closed \in BOOLEAN /\ OthersAmount \in Nat
  BY PolicyAssumption DEF WorldTypes, Market
<1>2. CASE OthersBuy
  <2>1. AfterBuy(market.curve, OthersAmount) \in Curve
    BY <1>1, <1>2, AfterBuyTypes DEF OthersBuy
  <2> DEFINE changed == [market EXCEPT !.curve = AfterBuy(@, OthersAmount)]
  <2>2. changed \in Market /\ changed.fee >= market.fee
    BY <1>1, <2>1 DEF Market
  <2>3. Moves(changed) /\ task # "return"
    BY <1>2 DEF OthersBuy
  <2> HIDE DEF changed
  <2> QED
    BY <2>2, <2>3, MovesTo
<1>3. CASE OthersSell
  <2>1. AfterSell(market.curve, OthersAmount) \in Curve
    BY <1>1, <1>3, SellBounds DEF OthersSell
  <2> DEFINE changed == [market EXCEPT !.curve = AfterSell(@, OthersAmount)]
  <2>2. changed \in Market /\ changed.fee >= market.fee
    BY <1>1, <2>1 DEF Market
  <2>3. Moves(changed) /\ task # "return"
    BY <1>3 DEF OthersSell
  <2> HIDE DEF changed
  <2> QED
    BY <2>2, <2>3, MovesTo
<1>4. CASE SnipeTaxDecays
  <2>1. [market.curve EXCEPT !.snipe = 0] \in Curve
    BY <1>1 DEF Curve
  <2> DEFINE changed == [market EXCEPT !.curve.snipe = 0]
  <2>2. changed \in Market /\ changed.fee >= market.fee
    BY <1>1, <2>1 DEF Market
  <2>3. Moves(changed) /\ task # "return"
    BY <1>4 DEF SnipeTaxDecays
  <2> HIDE DEF changed
  <2> QED
    BY <2>2, <2>3, MovesTo
<1>5. CASE Graduate
  <2> DEFINE changed == [market EXCEPT !.phase = 1]
  <2>1. changed \in Market /\ changed.fee >= market.fee
    BY <1>1 DEF Market
  <2>2. Moves(changed) /\ task # "return"
    BY <1>5 DEF Graduate
  <2> HIDE DEF changed
  <2> QED
    BY <2>1, <2>2, MovesTo
<1>6. CASE FactoryChanges
  <2> DEFINE dearer == [market EXCEPT !.fee = @ + 1]
             other == [market EXCEPT !.digest = @ + 1]
             turned == [market EXCEPT !.closed = ~@]
  <2>1. dearer \in Market /\ dearer.fee >= market.fee
    BY <1>1 DEF Market
  <2>2. other \in Market /\ other.fee >= market.fee
    BY <1>1 DEF Market
  <2>3. turned \in Market /\ turned.fee >= market.fee
    <3>1. (~market.closed) \in BOOLEAN
      OBVIOUS
    <3>2. turned \in Market
      BY <1>1, <3>1, Zenon DEF Market
    <3>3. turned.fee = market.fee
      BY <1>1 DEF Market
    <3> QED
      BY <1>1, <3>2, <3>3
  <2>4. task # "return" /\ (Moves(dearer) \/ Moves(other) \/ Moves(turned))
    BY <1>6 DEF FactoryChanges
  <2> HIDE DEF dearer, other, turned
  <2> QED
    BY <2>1, <2>2, <2>3, <2>4, MovesTo
<1> QED
  BY <1>2, <1>3, <1>4, <1>5, <1>6 DEF MarketMoves

LEMMA MadeFrame ==
  ASSUME MadeByClient, UNCHANGED <<task, request, built>>, stage # "idle",
         stage' # "building" \/ stage' = stage,
         stage' # "executed" => stage # "executed" /\ held' = held,
         stage = "building" => stage' = "building",
         now \in Nat, now' \in Nat, now <= now', issued \subseteq issued', signed \subseteq signed',
         WorldTypes, WorldTypes', PaperTypes, FlowTypes, market.fee <= market'.fee
  PROVE  MadeByClient'
<1> SUFFICES ASSUME ~built.altered
             PROVE  ClientMade'
  BY DEF MadeByClient
<1>1. ClientMade
  BY DEF MadeByClient
<1>2. CASE task = "trade" /\ stage # "building" /\ TradeMade
  <2>1. PICK token \in Tokens, curve \in Curves, in \in Amounts :
          BuyMade(token, curve, in) \/ SellMade(token, curve, in)
    BY <1>2 DEF TradeMade
  <2>2. BuyMade(token, curve, in)' \/ SellMade(token, curve, in)'
    BY <2>1 DEF BuyMade, SellMade
  <2> QED
    BY <1>2, <2>2 DEF ClientMade, TradeMade
<1>3. CASE /\ task = "launch"
           /\ \E tax \in {0, MaxCreatorTax, MaxCreatorTax + 1}, metadata \in {"bounded", "overlong"} :
                LaunchMade(tax, metadata)
  <2>1. PICK tax \in {0, MaxCreatorTax, MaxCreatorTax + 1}, metadata \in {"bounded", "overlong"} :
          LaunchMade(tax, metadata)
    BY <1>3
  <2>2. /\ market.fee \in Nat /\ market'.fee \in Nat /\ built.market.fee \in Nat
        /\ request.prefund \in Nat
    BY DEF WorldTypes, FlowTypes, Market, RequestSet
  <2>3. PICK later : later = market'.fee
    OBVIOUS
  <2>4. later \in Nat /\ market.fee <= later
    BY <2>2, <2>3
  <2>7. built.market.fee <= later /\ (stage # "building" => built.market.fee <= request.prefund /\ request.prefund <= later)
    BY <2>1, <2>2, <2>4 DEF LaunchMade
  <2>8. stage' # "building" => stage # "building"
    OBVIOUS
  <2>5. request' = Plain(LaunchCalls(built'.market, tax, metadata), request'.prefund, CallLife)
    BY <2>1 DEF LaunchMade
  <2>6. LaunchMade(tax, metadata)'
    BY <2>1, <2>3, <2>7, <2>8, <2>5 DEF LaunchMade
  <2> QED
    BY <1>3, <2>6 DEF ClientMade
<1>4. CASE /\ task = "return" /\ stage # "building"
           /\ ReturnMade(request.attestation, request.deadline)
  <2>1. request.deadline \in Nat /\ request.attestation.issuedAt \in Nat
    <3>1. request.attestation \in Attestations
      BY <1>4 DEF PaperTypes, ReturnMade
    <3> QED
      BY <3>1 DEF FlowTypes, RequestSet, Attestations
  <2>2. ReturnMade(request.attestation, request.deadline)'
    BY <1>4, <2>1, PolicyAssumption DEF ReturnMade
  <2> QED
    BY <1>4, <2>2 DEF ClientMade
<1>5. CASE /\ task = "return" /\ stage # "building"
           /\ RecoveryMade(request.authorization, request.deadline)
  <2>1. request.deadline \in Nat /\ request.authorization.deadline \in Nat
    BY <1>5 DEF FlowTypes, RequestSet, RecoveryMade, ApprovalKept, Authorizations
  <2>2. RecoveryMade(request.authorization, request.deadline)'
    BY <1>5, <2>1, PolicyAssumption DEF RecoveryMade, ApprovalKept
  <2> QED
    BY <1>5, <2>2 DEF ClientMade
<1> QED
  BY <1>1, <1>2, <1>3, <1>4, <1>5 DEF ClientMade

LEMMA IdleKeeps ==
  ASSUME stage' = "idle"
  PROVE  MadeByClient' /\ WasAllowed' /\ PaidAtQuotedRate' /\ PolicyFloor'
BY DEF MadeByClient, WasAllowed, PaidAtQuotedRate, PolicyFloor

LEMMA FlowFrame ==
  ASSUME UNCHANGED <<request, stage, built, admitted, outcome, issued, signed, skew>>,
         WasAllowed, PaidAtQuotedRate, PolicyFloor
  PROVE  WasAllowed' /\ PaidAtQuotedRate' /\ PolicyFloor'
<1>1. WasAllowed'
  BY DEF WasAllowed
<1>2. PaidAtQuotedRate'
  BY DEF PaidAtQuotedRate, main
<1>3. PolicyFloor'
  BY DEF PolicyFloor, main
<1> QED
  BY <1>1, <1>2, <1>3

\* What has left stays authorized while attestations and signatures are added.
LEMMA LeftFrame ==
  ASSUME UNCHANGED left, issued \subseteq issued', signed \subseteq signed',
         ReturnsAreAuthorized, LeftTypes
  PROVE  ReturnsAreAuthorized' /\ LeftTypes'
BY DEF ReturnsAreAuthorized, LeftTypes

(***************************************************************************)
(* The client.                                                             *)
(***************************************************************************)
LEMMA RateTypes ==
  ASSUME NEW c \in Curve, NEW in \in Nat, BuyQuotable(c, in)
  PROVE  (BuyQuote(c, in).tokensOut * in) \div BuyQuote(c, in).spent \in Nat
<1> DEFINE out == BuyQuote(c, in).tokensOut
           spent == BuyQuote(c, in).spent
<1>1. out \in Nat /\ spent \in Nat /\ spent > 0
  BY BuyQuoteBounds
<1> HIDE DEF out, spent
<1>2. out * in \in Nat
  BY <1>1, Z3
<1> QED
  BY <1>1, <1>2, FloorNat DEF out, spent

LEMMA MinimumTypes ==
  ASSUME NEW c \in Curve, NEW in \in Nat, BuyQuotable(c, in), NEW slippage \in 0..Bps
  PROVE  BuyMinimum(BuyQuote(c, in), in, slippage) \in Nat
BY RateTypes, SlippageBounds DEF BuyMinimum

LEMMA SlippageTypes == 0..MaxSlippage \subseteq 0..Bps /\ MaxSlippage \in 0..Bps
<1>1. MaxSlippage \in Nat /\ MaxSlippage <= 5000
  BY TradesAssumption DEF Bps
<1> QED
  BY <1>1 DEF Bps

LEMMA BuyCallsTypes ==
  ASSUME NEW m \in Market, NEW curve \in Curves, NEW in \in Nat, BuyQuotable(m.curve, in),
         NEW slippage \in 0..MaxSlippage
  PROVE  BuyCalls(m, curve, in, slippage) \in Seq(CallSet) \ {<< >>}
<1> DEFINE min == BuyMinimum(BuyQuote(m.curve, in), in, slippage)
<1>1. m.curve \in Curve
  BY DEF Market
<1>2. min \in Nat
  BY <1>1, SlippageTypes, MinimumTypes
<1> HIDE DEF min
<1>3. Approve(Usdg, curve, in) \in ApproveRecords /\ Trade(curve, "buy", in, min, Account) \in TradeRecords
  BY <1>2 DEF Approve, Trade, ApproveRecords, TradeRecords, Things
<1>4. BuyCalls(m, curve, in, slippage) = <<Approve(Usdg, curve, in), Trade(curve, "buy", in, min, Account)>>
  BY DEF BuyCalls, min
<1> QED
  BY <1>3, <1>4 DEF CallSet

LEMMA SellCallsTypes ==
  ASSUME NEW m \in Market, NEW token \in Tokens, NEW curve \in Curves, NEW in \in Nat,
         SellQuotable(m.curve, in), NEW slippage \in 0..MaxSlippage
  PROVE  SellCalls(m, token, curve, in, slippage) \in Seq(CallSet) \ {<< >>}
<1> DEFINE min == ApplySlippage(SellQuote(m.curve, in), slippage)
<1>1. m.curve \in Curve
  BY DEF Market
<1>2. min \in Nat
  <2>1. SellQuote(m.curve, in) \in Nat
    BY <1>1, SellBounds
  <2>2. slippage \in 0..Bps
    BY SlippageTypes
  <2> QED
    BY <2>1, <2>2, SlippageBounds
<1> HIDE DEF min
<1>3. Approve(token, curve, in) \in ApproveRecords /\ Trade(curve, "sell", in, min, Account) \in TradeRecords
  BY <1>2 DEF Approve, Trade, ApproveRecords, TradeRecords, Things
<1>4. SellCalls(m, token, curve, in, slippage)
        = <<Approve(token, curve, in), Trade(curve, "sell", in, min, Account)>>
  BY DEF SellCalls, min
<1> QED
  BY <1>3, <1>4 DEF CallSet

LEMMA LaunchCallsTypes ==
  ASSUME NEW m \in Market, NEW tax \in Nat, NEW metadata \in {"bounded", "overlong"}
  PROVE  LaunchCalls(m, tax, metadata) \in Seq(CallSet) \ {<< >>}
<1>1. Launch(m.fee, Usdg, Account, tax, m.digest, metadata) \in LaunchRecords
  BY DEF Market, Launch, LaunchRecords, Things
<1> QED
  BY <1>1 DEF LaunchCalls, CallSet

LEMMA TransferTypes ==
  ASSUME NEW to \in Things, NEW amount \in Nat
  PROVE  <<Transfer(Usdg, to, amount)>> \in Seq(CallSet) \ {<< >>}
<1>1. Transfer(Usdg, to, amount) \in TransferRecords
  BY DEF Transfer, TransferRecords, Things
<1> QED
  BY <1>1 DEF CallSet

LEMMA PlainTypes ==
  ASSUME NEW calls \in Seq(CallSet) \ {<< >>}, NEW prefund \in Nat, NEW deadline \in Nat
  PROVE  Plain(calls, prefund, deadline) \in RequestSet
BY DEF Plain, RequestSet

LEMMA RequestIsPlain ==
  ASSUME NEW calls, NEW prefund, NEW life
  PROVE  Request(calls, prefund, life) = Plain(calls, prefund, now + life)
BY DEF Request, Plain

\* What every step of the client that builds a request has to show.
LEMMA BuildKeeps ==
  ASSUME PolicyInv, stage = "idle", NEW r \in RequestSet, NEW s \in {"building", "built"},
         NEW slippage \in Nat, Build(r, s, slippage), ClientMade'
  PROVE  PolicyInv'
<1> DEFINE b == [market |-> market, slippage |-> slippage, altered |-> FALSE]
<1>1. /\ requests < MaxRequests /\ stage' = s /\ request' = r /\ requests' = requests + 1 /\ built' = b
      /\ UNCHANGED <<task, world, held, papers, admitted, outcome, left>>
  BY DEF Build
<1>2. b \in [market: Market, slippage: Nat, altered: BOOLEAN]
  BY DEF PolicyInv, Types, WorldTypes
<1> HIDE DEF b
<1>3. requests' \in 0..MaxRequests
  BY <1>1, PolicyAssumption DEF PolicyInv, Types, FlowTypes
<1>4. WorldTypes' /\ PaperTypes' /\ HeldTypes' /\ LeftTypes'
  BY <1>1 DEF PolicyInv, Types, WorldTypes, PaperTypes, HeldTypes, LeftTypes, world, papers
<1>5. FlowTypes'
  BY <1>1, <1>2, <1>3 DEF PolicyInv, Types, FlowTypes
<1>6. PapersKept'
  BY <1>1 DEF PolicyInv, PapersKept, QuoteKept, ApprovalKept, world, papers
<1>7. WasAllowed' /\ PaidAtQuotedRate' /\ PolicyFloor'
  BY <1>1 DEF WasAllowed, PaidAtQuotedRate, PolicyFloor
<1>8. MadeByClient'
  BY DEF MadeByClient
<1>9. ReturnsAreAuthorized'
  BY <1>1 DEF PolicyInv, ReturnsAreAuthorized, papers
<1> QED
  BY <1>4, <1>5, <1>6, <1>7, <1>8, <1>9 DEF PolicyInv, Types

LEMMA BuildBuyKeeps ==
  ASSUME PolicyInv, NEW token \in Tokens, NEW curve \in Curves, NEW in \in Amounts,
         NEW slippage \in Slippages, BuildBuy(token, curve, in, slippage)
  PROVE  PolicyInv'
<1> DEFINE r == Plain(BuyCalls(market, curve, in, slippage), 0, CallLife)
<1>1. /\ task = "trade" /\ stage = "idle" /\ in <= held.usdg
      /\ BuildsBuy(market, token, curve, in, slippage)
  BY DEF BuildBuy
<1>2. now = 0 /\ market \in Market /\ in \in Nat /\ CallLife \in Nat /\ slippage \in Nat
  BY <1>1, PolicyAssumption DEF PolicyInv, Types, WorldTypes
<1>3. Build(r, "built", slippage)
  <2>1. now + CallLife = CallLife
    BY <1>2
  <2> QED
    BY <2>1, RequestIsPlain DEF BuildBuy
<1>4. r \in RequestSet
  <2>1. BuyCalls(market, curve, in, slippage) \in Seq(CallSet) \ {<< >>}
    BY <1>1, <1>2, BuyCallsTypes DEF BuildsBuy
  <2> QED
    BY <1>2, <2>1, PlainTypes
<1> HIDE DEF r
<1>5. /\ request' = r /\ built' = [market |-> market, slippage |-> slippage, altered |-> FALSE]
      /\ stage' = "built" /\ task' = task /\ held' = held
  BY <1>3 DEF Build
<1>6. BuyMade(token, curve, in)'
  BY <1>1, <1>5 DEF BuyMade, r
<1>7. ClientMade'
  BY <1>1, <1>5, <1>6 DEF ClientMade, TradeMade
<1> QED
  BY <1>1, <1>2, <1>3, <1>4, <1>7, BuildKeeps

LEMMA BuildSellKeeps ==
  ASSUME PolicyInv, NEW token \in Tokens, NEW curve \in Curves, NEW in \in Amounts,
         NEW slippage \in Slippages, BuildSell(token, curve, in, slippage)
  PROVE  PolicyInv'
<1> DEFINE r == Plain(SellCalls(market, token, curve, in, slippage), 0, CallLife)
<1>1. /\ task = "trade" /\ stage = "idle" /\ in <= held.token
      /\ BuildsSell(market, token, curve, in, slippage)
  BY DEF BuildSell
<1>2. now = 0 /\ market \in Market /\ in \in Nat /\ CallLife \in Nat /\ slippage \in Nat
  BY <1>1, PolicyAssumption DEF PolicyInv, Types, WorldTypes
<1>3. Build(r, "built", slippage)
  <2>1. now + CallLife = CallLife
    BY <1>2
  <2> QED
    BY <2>1, RequestIsPlain DEF BuildSell
<1>4. r \in RequestSet
  <2>1. SellCalls(market, token, curve, in, slippage) \in Seq(CallSet) \ {<< >>}
    BY <1>1, <1>2, SellCallsTypes DEF BuildsSell
  <2> QED
    BY <1>2, <2>1, PlainTypes
<1> HIDE DEF r
<1>5. /\ request' = r /\ built' = [market |-> market, slippage |-> slippage, altered |-> FALSE]
      /\ stage' = "built" /\ task' = task /\ held' = held
  BY <1>3 DEF Build
<1>6. SellMade(token, curve, in)'
  BY <1>1, <1>5 DEF SellMade, r
<1>7. ClientMade'
  BY <1>1, <1>5, <1>6 DEF ClientMade, TradeMade
<1> QED
  BY <1>1, <1>2, <1>3, <1>4, <1>7, BuildKeeps

LEMMA BuildLaunchKeeps ==
  ASSUME PolicyInv, NEW tax \in {0, MaxCreatorTax, MaxCreatorTax + 1},
         NEW metadata \in {"bounded", "overlong"}, BuildLaunch(tax, metadata)
  PROVE  PolicyInv'
<1> DEFINE r == Plain(LaunchCalls(market, tax, metadata), 0, CallLife)
<1>1. task = "launch" /\ stage = "idle" /\ BuildsLaunch(market, tax, metadata)
  BY DEF BuildLaunch
<1>2. now = 0 /\ market \in Market /\ tax \in Nat /\ CallLife \in Nat
  BY <1>1, PolicyAssumption, TradesAssumption DEF PolicyInv, Types, WorldTypes
<1>3. Build(r, "building", 0)
  <2>1. now + CallLife = CallLife
    BY <1>2
  <2> QED
    BY <2>1, RequestIsPlain DEF BuildLaunch
<1>4. r \in RequestSet
  <2>1. LaunchCalls(market, tax, metadata) \in Seq(CallSet) \ {<< >>}
    BY <1>2, LaunchCallsTypes
  <2> QED
    BY <1>2, <2>1, PlainTypes
<1>5. r.prefund = 0
  BY DEF Plain
<1> HIDE DEF r
<1>6. /\ request' = r /\ built' = [market |-> market, slippage |-> 0, altered |-> FALSE]
      /\ stage' = "building" /\ task' = task /\ market' = market
  BY <1>3 DEF Build, world
<1>7. LaunchMade(tax, metadata)'
  <2>1. market.fee <= market.fee
    BY <1>2 DEF Market
  <2> QED
    BY <1>1, <1>5, <1>6, <2>1 DEF LaunchMade, r
<1>8. ClientMade'
  BY <1>1, <1>6, <1>7 DEF ClientMade
<1> QED
  BY <1>1, <1>2, <1>3, <1>4, <1>8, BuildKeeps

LEMMA ReadPrefundKeeps ==
  ASSUME PolicyInv, ReadPrefund
  PROVE  PolicyInv'
<1>1. /\ stage = "building" /\ stage' = "built"
      /\ request' = [request EXCEPT !.prefund = market.fee]
      /\ UNCHANGED <<task, world, held, papers, built, admitted, outcome, left, requests>>
  BY DEF ReadPrefund
<1>2. /\ request \in RequestSet /\ built \in [market: Market, slippage: Nat, altered: BOOLEAN]
      /\ market.fee \in Nat
  BY <1>1 DEF PolicyInv, Types, FlowTypes, WorldTypes, Market
<1>3. request' \in RequestSet
  BY <1>1, <1>2 DEF RequestSet
<1>4. WorldTypes' /\ PaperTypes' /\ HeldTypes' /\ LeftTypes'
  BY <1>1 DEF PolicyInv, Types, WorldTypes, PaperTypes, HeldTypes, LeftTypes, world, papers
<1>5. FlowTypes'
  BY <1>1, <1>2, <1>3 DEF PolicyInv, Types, FlowTypes
<1>6. PapersKept'
  BY <1>1 DEF PolicyInv, PapersKept, QuoteKept, ApprovalKept, world, papers
<1>7. WasAllowed' /\ PaidAtQuotedRate' /\ PolicyFloor'
  BY <1>1 DEF WasAllowed, PaidAtQuotedRate, PolicyFloor
<1>8. MadeByClient'
  <2> SUFFICES ASSUME ~built.altered
               PROVE  ClientMade'
    BY <1>1 DEF MadeByClient
  <2>1. task = "launch"
        /\ \E tax \in {0, MaxCreatorTax, MaxCreatorTax + 1}, metadata \in {"bounded", "overlong"} :
             LaunchMade(tax, metadata)
    BY <1>1 DEF PolicyInv, MadeByClient, ClientMade
  <2>2. PICK tax \in {0, MaxCreatorTax, MaxCreatorTax + 1}, metadata \in {"bounded", "overlong"} :
          LaunchMade(tax, metadata)
    BY <2>1
  <2>3. request' = Plain(LaunchCalls(built.market, tax, metadata), market.fee, CallLife)
    BY <1>1, <2>2 DEF LaunchMade, Plain
  <2>4. request'.prefund = market.fee
    BY <2>3 DEF Plain
  <2>5. built.market.fee <= market.fee /\ market.fee <= market.fee
    BY <1>2, <2>2 DEF LaunchMade
  <2>6. LaunchMade(tax, metadata)'
    BY <1>1, <2>2, <2>3, <2>4, <2>5 DEF LaunchMade, world
  <2> QED
    BY <1>1, <2>1, <2>6 DEF ClientMade
<1>9. ReturnsAreAuthorized'
  BY <1>1 DEF PolicyInv, ReturnsAreAuthorized, papers
<1> QED
  BY <1>4, <1>5, <1>6, <1>7, <1>8, <1>9 DEF PolicyInv, Types

LEMMA ReplyTypes ==
  ASSUME NEW deposit \in Deposits, NEW amount \in Nat, NEW reply \in Replies(deposit, amount)
  PROVE  reply.id = deposit /\ reply.to \in Deposits \cup {Account}
BY DEF Replies, GoodReply

\* What a step that only adds papers, while nothing is under way, has to show.
LEMMA PapersStep ==
  ASSUME PolicyInv, stage = "idle", UNCHANGED <<task, world, held, flow, left>>,
         issued \subseteq issued', signed \subseteq signed', PaperTypes', PapersKept'
  PROVE  PolicyInv'
<1>1. WorldTypes' /\ HeldTypes'
  BY DEF PolicyInv, Types, WorldTypes, HeldTypes, world
<1>2. FlowTypes' /\ stage' = "idle"
  BY DEF PolicyInv, Types, FlowTypes, flow, world
<1>3. MadeByClient' /\ WasAllowed' /\ PaidAtQuotedRate' /\ PolicyFloor'
  BY <1>2, IdleKeeps
<1>4. ReturnsAreAuthorized' /\ LeftTypes'
  BY LeftFrame DEF PolicyInv, Types
<1> QED
  BY <1>1, <1>2, <1>3, <1>4 DEF PolicyInv, Types

LEMMA QuoteKeeps ==
  ASSUME PolicyInv, NEW deposit \in Deposits, NEW amount \in Amounts,
         NEW reply \in Replies(deposit, amount), Quote(deposit, amount, reply)
  PROVE  PolicyInv'
<1> DEFINE claims == Claims(reply, amount, now)
<1>1. /\ stage = "idle" /\ approval = None /\ ProxySeals(amount, reply)
      /\ issued' = issued \cup {claims}
      /\ quote' = IF ClientAccepts(amount, reply, claims) THEN [reply |-> reply, claims |-> claims] ELSE None
      /\ UNCHANGED <<task, world, held, signed, approval, flow, left>>
  BY DEF Quote
<1>2. amount \in Nat /\ now \in Nat /\ QuoteTtl \in Nat /\ now + QuoteTtl \in Nat
  BY PolicyAssumption, AuthorizationAssumption DEF PolicyInv, Types, WorldTypes
<1>3. reply.id = deposit /\ reply.to \in Deposits \cup {Account}
  BY <1>2, ReplyTypes
<1>4. claims \in Attestations
  BY <1>2, <1>3 DEF Claims, Attestations
<1>5. PaperTypes'
  BY <1>1, <1>4 DEF PolicyInv, Types, PaperTypes
<1>0. claims' = claims
  BY <1>1 DEF world
<1>6. ASSUME ClientAccepts(amount, reply, claims)
      PROVE  QuoteKept([reply |-> reply, claims |-> claims])'
  <2>1. /\ claims.issuedAt = now /\ claims.amount = amount /\ claims.id = reply.id
        /\ claims.deposit = reply.to
    BY DEF Claims
  <2>2. reply.token = Usdg /\ reply.amount = amount /\ amount > 0
    BY <1>1, <1>6 DEF ProxySeals, ClientAccepts
  <2>3. now <= now /\ now' = now
    BY <1>1, <1>2 DEF world
  <2> HIDE DEF claims
  <2> QED
    BY <1>0, <1>1, <2>1, <2>2, <2>3 DEF QuoteKept
<1> HIDE DEF claims
<1>7. PapersKept'
  BY <1>0, <1>1, <1>6 DEF PapersKept
<1> QED
  BY <1>1, <1>5, <1>7, PapersStep

LEMMA WalletSignsKeeps ==
  ASSUME PolicyInv, NEW amount \in Amounts, NEW time \in 0..now, WalletSigns(amount, time)
  PROVE  PolicyInv'
<1> DEFINE source == [account |-> Account, amount |-> amount]
           a == [recipient |-> Wallet, accounts |-> <<source>>, deadline |-> time + AuthorizationLife]
<1>1. /\ stage = "idle" /\ quote = None /\ WellFormed(a)
      /\ approval' = a /\ signed' = signed \cup {Message(a)}
      /\ UNCHANGED <<task, world, held, issued, quote, flow, left>>
  BY DEF WalletSigns
<1>2. /\ amount \in Nat /\ now \in Nat /\ AuthorizationLife \in Nat /\ time \in Nat
      /\ time + AuthorizationLife \in Nat /\ time + AuthorizationLife <= now + AuthorizationLife
  BY PolicyAssumption DEF PolicyInv, Types, WorldTypes
<1>3. source \in Sources
  BY <1>2 DEF Sources
<1>4. a \in Authorizations
  BY <1>2, <1>3 DEF Authorizations
<1>5. Signable(Message(a))
  <2>1. ToSet(<<source>>) = {source}
    BY DEF ToSet
  <2>2. IsFiniteSet({source})
    BY FS_Singleton
  <2>3. Message(a) = [recipient |-> Wallet, accounts |-> {source}, deadline |-> time + AuthorizationLife]
    BY <2>1 DEF Message
  <2> HIDE DEF source
  <2> QED
    BY <1>2, <1>3, <2>2, <2>3 DEF Signable
<1>6. PaperTypes'
  BY <1>1, <1>5 DEF PolicyInv, Types, PaperTypes
<1>7. ApprovalKept(a)'
  <2>1. a.accounts = <<[account |-> Account, amount |-> a.accounts[1].amount]>>
    OBVIOUS
  <2>2. a.deadline <= now' + AuthorizationLife
    BY <1>1, <1>2 DEF world
  <2> HIDE DEF a
  <2> QED
    BY <1>1, <1>4, <2>1, <2>2 DEF ApprovalKept
<1> HIDE DEF a
<1>8. PapersKept'
  BY <1>1, <1>7 DEF PapersKept
<1> QED
  BY <1>1, <1>6, <1>8, PapersStep

LEMMA BuildReturnKeeps ==
  ASSUME PolicyInv, BuildReturn
  PROVE  PolicyInv'
<1> DEFINE claims == quote.claims
           deadline == now + CallLife
           plain == Plain(<<Transfer(Usdg, claims.deposit, claims.amount)>>, 0, deadline)
           r == [plain EXCEPT !.id = claims.id, !.attestation = claims]
<1>1. task = "return" /\ stage = "idle" /\ QuoteKept(quote)
  BY DEF BuildReturn, PolicyInv, PapersKept
<1>2. claims \in Attestations /\ claims \in issued
  BY <1>1 DEF QuoteKept, PolicyInv, Types, PaperTypes
<1>3. claims.amount \in Nat /\ claims.deposit \in Things /\ claims.id \in Deposits
  BY <1>2 DEF Attestations, Things
<1>4. deadline \in Nat /\ deadline <= now + CallLife /\ 0 \in Nat
  BY PolicyAssumption DEF PolicyInv, Types, WorldTypes
<1>5. Build(r, "built", 0)
  <2>1. Request(<<Transfer(quote.reply.token, quote.reply.to, quote.reply.amount)>>, 0, CallLife) = plain
    BY <1>1, RequestIsPlain DEF QuoteKept
  <2> QED
    BY <1>1, <2>1 DEF BuildReturn, QuoteKept
<1>6. plain \in RequestSet
  BY <1>3, <1>4, TransferTypes, PlainTypes
<1> HIDE DEF plain
<1>7. r \in RequestSet
  BY <1>2, <1>3, <1>6 DEF RequestSet
<1>8. r.attestation = claims /\ r.deadline = deadline
  BY <1>6 DEF RequestSet, plain, Plain
<1>9. /\ request' = r /\ stage' = "built" /\ task' = task
      /\ UNCHANGED <<issued, now>>
  BY <1>5 DEF Build, papers, world
<1>10. ReturnMade(claims, deadline)'
  <2>1. request' = [Plain(<<Transfer(Usdg, claims.deposit, claims.amount)>>, 0, deadline)
                    EXCEPT !.id = claims.id, !.attestation = claims]
    BY <1>9 DEF plain
  <2>2. claims.issuedAt <= now /\ claims.amount > 0
    BY <1>1 DEF QuoteKept
  <2> HIDE DEF claims, deadline
  <2>3. claims' = claims /\ deadline' = deadline
    BY <1>5 DEF claims, deadline, Build, papers, world
  <2> QED
    BY <1>2, <1>4, <1>9, <2>1, <2>2, <2>3 DEF ReturnMade
<1>11. ClientMade'
  <2>1. claims' = claims /\ deadline' = deadline
    BY <1>5 DEF claims, deadline, Build, papers, world
  <2> HIDE DEF claims, deadline, r
  <2>2. request'.attestation = claims' /\ request'.deadline = deadline'
    BY <1>8, <1>9, <2>1
  <2> QED
    BY <1>1, <1>9, <1>10, <2>2 DEF ClientMade
<1> HIDE DEF r
<1> QED
  BY <1>1, <1>4, <1>5, <1>7, <1>11, BuildKeeps

LEMMA BuildRecoveryKeeps ==
  ASSUME PolicyInv, BuildRecovery
  PROVE  PolicyInv'
<1> DEFINE amount == approval.accounts[1].amount
           deadline == now + RecoveryLife
           plain == Plain(<<Transfer(Usdg, Wallet, amount)>>, 0, deadline)
           r == [plain EXCEPT !.authorization = approval]
<1>1. task = "return" /\ stage = "idle" /\ ApprovalKept(approval)
  BY DEF BuildRecovery, PolicyInv, PapersKept
<1>2. approval \in Authorizations /\ approval.recipient = Wallet
  BY <1>1 DEF ApprovalKept, Authorizations
<1>3. amount \in Nat /\ Wallet \in Things
  <2>1. Len(approval.accounts) \in 1..MaxSources /\ approval.accounts \in Seq(Sources)
    BY <1>1, <1>2 DEF ApprovalKept, WellFormed, Authorizations
  <2>2. approval.accounts[1] \in Sources
    BY <2>1, AuthorizationAssumption
  <2> QED
    BY <2>2 DEF Sources, Things
<1>4. deadline \in Nat /\ deadline <= now + RecoveryLife /\ 0 \in Nat
  BY PolicyAssumption DEF PolicyInv, Types, WorldTypes
<1>5. Build(r, "built", 0)
  <2>1. Request(<<Transfer(Usdg, approval.recipient, approval.accounts[1].amount)>>, 0, RecoveryLife) = plain
    BY <1>2, RequestIsPlain
  <2> QED
    BY <1>1, <2>1 DEF BuildRecovery
<1>6. plain \in RequestSet
  BY <1>3, <1>4, TransferTypes, PlainTypes
<1> HIDE DEF plain
<1>7. r \in RequestSet
  BY <1>2, <1>6 DEF RequestSet
<1>8. r.authorization = approval /\ r.deadline = deadline
  BY <1>6 DEF RequestSet, plain, Plain
<1>9. /\ request' = r /\ stage' = "built" /\ task' = task
      /\ UNCHANGED <<approval, signed, now>>
  BY <1>5 DEF Build, papers, world
<1>10. ApprovalKept(approval)'
  BY <1>1, <1>9 DEF ApprovalKept
<1>11. /\ request'.authorization = approval' /\ request'.deadline = deadline
       /\ request' = [Plain(<<Transfer(Usdg, Wallet, approval'.accounts[1].amount)>>, 0, deadline)
                      EXCEPT !.authorization = approval']
  BY <1>8, <1>9 DEF plain
<1>12. deadline <= now' + RecoveryLife
  BY <1>4, <1>9
<1> HIDE DEF r, deadline
<1>13. RecoveryMade(request.authorization, request.deadline)'
  BY <1>9, <1>10, <1>11, <1>12 DEF RecoveryMade, ApprovalKept
<1>14. ClientMade'
  BY <1>1, <1>9, <1>13 DEF ClientMade
<1> QED
  BY <1>1, <1>4, <1>5, <1>7, <1>14, BuildKeeps

(***************************************************************************)
(* Requests the client does not build.                                     *)
(***************************************************************************)
LEMMA SetToSeqTypes ==
  ASSUME NEW S, IsFiniteSet(S)
  PROVE  SetToSeq(S) \in Seq(S)
<1>1. Cardinality(S) \in Nat /\ ExistsBijection(1..Cardinality(S), S)
  BY FS_CardinalityType
<1>2. PICK f \in [1..Cardinality(S) -> S] : IsInjective(f)
  BY <1>1 DEF ExistsBijection, Bijection, Injection
<1>3. SetToSeq(S) \in [1..Cardinality(S) -> S]
  BY <1>2 DEF SetToSeq
<1> QED
  BY <1>1, <1>3

LEMMA OddCallsTypes ==
  ASSUME NEW call \in CallSet, NEW c \in OddCalls(call)
  PROVE  c \in CallSet
<1>1. Wallet \in Things /\ Curves \subseteq Things
  BY DEF Things
<1>2. CASE call \in ApproveRecords
  <2>1. call.fn = "approve" /\ call.amount \in Nat /\ call.amount + 1 \in Nat
    BY <1>2 DEF ApproveRecords
  <2>2. \/ c = [call EXCEPT !.value = 1] \/ c = [call EXCEPT !.to = Wallet]
        \/ c = [call EXCEPT !.amount = @ + 1]
        \/ \E curve \in Curves : c = [call EXCEPT !.target = curve]
    BY <2>1 DEF OddCalls
  <2>3. c \in ApproveRecords
    BY <1>1, <1>2, <2>1, <2>2 DEF ApproveRecords
  <2> QED
    BY <2>3 DEF CallSet
<1>3. CASE call \in TradeRecords
  <2>1. call.fn \in {"buy", "sell"} /\ call.amount \in Nat /\ call.amount + 1 \in Nat
    BY <1>3 DEF TradeRecords
  <2>2. \/ c = [call EXCEPT !.value = 1] \/ c = [call EXCEPT !.to = Wallet]
        \/ c = [call EXCEPT !.amount = @ + 1] \/ c = [call EXCEPT !.min = 1]
        \/ \E curve \in Curves : c = [call EXCEPT !.target = curve]
    BY <2>1 DEF OddCalls
  <2>3. c \in TradeRecords
    BY <1>1, <1>3, <2>1, <2>2 DEF TradeRecords
  <2> QED
    BY <2>3 DEF CallSet
<1>4. CASE call \in LaunchRecords
  <2>1. call.fn = "launchToken" /\ call.digest \in Nat /\ call.digest + 1 \in Nat /\ MaxCreatorTax + 1 \in Nat
    BY <1>4, TradesAssumption DEF LaunchRecords
  <2>2. \/ c = [call EXCEPT !.value = 1] \/ c = [call EXCEPT !.to = Wallet]
        \/ c = [call EXCEPT !.tax = MaxCreatorTax + 1] \/ c = [call EXCEPT !.digest = @ + 1]
    BY <2>1 DEF OddCalls
  <2>3. c \in LaunchRecords
    BY <1>1, <1>4, <2>1, <2>2 DEF LaunchRecords
  <2> QED
    BY <2>3 DEF CallSet
<1>5. CASE call \in TransferRecords
  <2>1. call.fn = "transfer" /\ call.amount \in Nat /\ call.amount + 1 \in Nat
    BY <1>5 DEF TransferRecords
  <2>2. \/ c = [call EXCEPT !.value = 1] \/ c = [call EXCEPT !.to = Wallet]
        \/ c = [call EXCEPT !.amount = @ + 1]
    BY <2>1 DEF OddCalls
  <2>3. c \in TransferRecords
    BY <1>1, <1>5, <2>1, <2>2 DEF TransferRecords
  <2> QED
    BY <2>3 DEF CallSet
<1> QED
  BY <1>2, <1>3, <1>4, <1>5 DEF CallSet

LEMMA OddRequestsTypes ==
  ASSUME PaperTypes, NEW q \in RequestSet, NEW r \in OddRequests(q)
  PROVE  r \in RequestSet
<1>1. /\ q.calls \in Seq(CallSet) \ {<< >>} /\ q.prefund + 1 \in Nat
      /\ q.deadline + RecoveryLife \in Nat
  BY PolicyAssumption DEF RequestSet
<1>2. \/ r = [q EXCEPT !.prefund = @ + 1]
      \/ r = [q EXCEPT !.deadline = @ + RecoveryLife]
      \/ \E i \in 1..Len(q.calls) : \E c \in OddCalls(q.calls[i]) : r = [q EXCEPT !.calls[i] = c]
      \/ \E claims \in issued : r = [q EXCEPT !.id = claims.id, !.attestation = claims]
      \/ \E a \in {None} \cup {[message EXCEPT !.accounts = SetToSeq(@)] : message \in signed} :
           r = [q EXCEPT !.id = None, !.attestation = None, !.authorization = a]
  <2> DEFINE S1 == {[q EXCEPT !.prefund = @ + 1], [q EXCEPT !.deadline = @ + RecoveryLife]}
             S2 == UNION {{[q EXCEPT !.calls[i] = c] : c \in OddCalls(q.calls[i])} : i \in 1..Len(q.calls)}
             S3 == {[q EXCEPT !.id = claims.id, !.attestation = claims] : claims \in issued}
             S4 == {[q EXCEPT !.id = None, !.attestation = None, !.authorization = a] :
                      a \in {None} \cup {[message EXCEPT !.accounts = SetToSeq(@)] : message \in signed}}
  <2>1. OddRequests(q) = S1 \cup S2 \cup S3 \cup S4
    BY Zenon DEF OddRequests
  <2>2. r \in S1 => r = [q EXCEPT !.prefund = @ + 1] \/ r = [q EXCEPT !.deadline = @ + RecoveryLife]
    OBVIOUS
  <2>3. r \in S2 => \E i \in 1..Len(q.calls) : \E c \in OddCalls(q.calls[i]) : r = [q EXCEPT !.calls[i] = c]
    BY Zenon
  <2>4. r \in S3 => \E claims \in issued : r = [q EXCEPT !.id = claims.id, !.attestation = claims]
    BY Zenon
  <2>5. r \in S4 => \E a \in {None} \cup {[message EXCEPT !.accounts = SetToSeq(@)] : message \in signed} :
                      r = [q EXCEPT !.id = None, !.attestation = None, !.authorization = a]
    BY Zenon
  <2> HIDE DEF S1, S2, S3, S4
  <2> QED
    BY <2>1, <2>2, <2>3, <2>4, <2>5, Zenon
<1>3. CASE r = [q EXCEPT !.prefund = @ + 1] \/ r = [q EXCEPT !.deadline = @ + RecoveryLife]
  BY <1>1, <1>3 DEF RequestSet
<1>4. ASSUME NEW i \in 1..Len(q.calls), NEW c \in OddCalls(q.calls[i]), r = [q EXCEPT !.calls[i] = c]
      PROVE  r \in RequestSet
  <2>1. c \in CallSet
    BY <1>1, OddCallsTypes
  <2> DEFINE calls == [q.calls EXCEPT ![i] = c]
  <2>2. calls \in Seq(CallSet) /\ Len(calls) = Len(q.calls)
    BY <1>1, <2>1
  <2>3. Len(q.calls) > 0
    BY <1>1
  <2>4. calls \in Seq(CallSet) \ {<< >>}
    BY <2>2, <2>3
  <2>5. r = [q EXCEPT !.calls = calls]
    BY <1>4
  <2> HIDE DEF calls
  <2> QED
    BY <2>4, <2>5 DEF RequestSet
<1>5. ASSUME NEW claims \in issued, r = [q EXCEPT !.id = claims.id, !.attestation = claims]
      PROVE  r \in RequestSet
  <2>1. claims \in Attestations /\ claims.id \in Deposits
    BY DEF PaperTypes, Attestations
  <2> QED
    BY <1>5, <2>1 DEF RequestSet
<1>6. ASSUME NEW a \in {None} \cup {[message EXCEPT !.accounts = SetToSeq(@)] : message \in signed},
             r = [q EXCEPT !.id = None, !.attestation = None, !.authorization = a]
      PROVE  r \in RequestSet
  <2>1. a \in Authorizations \cup {None}
    <3>1. ASSUME NEW message \in signed, a = [message EXCEPT !.accounts = SetToSeq(@)]
          PROVE  a \in Authorizations
      <4>1. /\ message \in [recipient: {Wallet}, accounts: SUBSET Sources, deadline: Nat]
            /\ IsFiniteSet(message.accounts)
        BY DEF PaperTypes, Signable
      <4> DEFINE accounts == SetToSeq(message.accounts)
      <4>2. accounts \in Seq(message.accounts) /\ message.accounts \subseteq Sources
        BY <4>1, SetToSeqTypes
      <4>3. accounts \in Seq(Sources)
        BY <4>2
      <4>4. a = [message EXCEPT !.accounts = accounts]
        BY <3>1
      <4> HIDE DEF accounts
      <4> QED
        BY <4>1, <4>3, <4>4 DEF Authorizations
    <3> QED
      BY <3>1
  <2> QED
    BY <1>6, <2>1 DEF RequestSet
<1> QED
  BY <1>2, <1>3, <1>4, <1>5, <1>6

LEMMA AlterKeeps ==
  ASSUME PolicyInv, Alter
  PROVE  PolicyInv'
<1>1. /\ stage = "built" /\ request' \in OddRequests(request)
      /\ built' = [built EXCEPT !.altered = TRUE]
      /\ UNCHANGED <<task, world, held, papers, stage, admitted, outcome, left, requests>>
  BY DEF Alter
<1>2. /\ request \in RequestSet /\ built \in [market: Market, slippage: Nat, altered: BOOLEAN]
      /\ PaperTypes
  BY <1>1 DEF PolicyInv, Types, FlowTypes
<1>3. request' \in RequestSet
  BY <1>1, <1>2, OddRequestsTypes
<1>4. built' \in [market: Market, slippage: Nat, altered: BOOLEAN] /\ built'.altered
  BY <1>1, <1>2
<1>5. WorldTypes' /\ PaperTypes' /\ HeldTypes' /\ LeftTypes'
  BY <1>1 DEF PolicyInv, Types, WorldTypes, PaperTypes, HeldTypes, LeftTypes, world, papers
<1>6. FlowTypes'
  BY <1>1, <1>3, <1>4 DEF PolicyInv, Types, FlowTypes
<1>7. PapersKept'
  BY <1>1 DEF PolicyInv, PapersKept, QuoteKept, ApprovalKept, world, papers
<1>8. WasAllowed' /\ PaidAtQuotedRate' /\ PolicyFloor'
  BY <1>1 DEF WasAllowed, PaidAtQuotedRate, PolicyFloor
<1>9. MadeByClient'
  BY <1>4 DEF MadeByClient
<1>10. ReturnsAreAuthorized'
  BY <1>1 DEF PolicyInv, ReturnsAreAuthorized, papers
<1> QED
  BY <1>5, <1>6, <1>7, <1>8, <1>9, <1>10 DEF PolicyInv, Types

(***************************************************************************)
(* The relayer and the chain.                                              *)
(***************************************************************************)
LEMMA AdmitKeeps ==
  ASSUME PolicyInv, Admit
  PROVE  PolicyInv'
<1>1. /\ stage = "built" /\ RequestAllowed /\ stage' = "admitted"
      /\ admitted' = [market |-> market, now |-> now]
      /\ UNCHANGED <<task, world, held, papers, request, built, outcome, left, requests>>
  BY DEF Admit
<1>2. now \in Nat /\ now <= now /\ market \in Market /\ market.fee \in Nat
  BY DEF PolicyInv, Types, WorldTypes, Market
<1>3. WorldTypes' /\ PaperTypes' /\ HeldTypes' /\ LeftTypes'
  BY <1>1 DEF PolicyInv, Types, WorldTypes, PaperTypes, HeldTypes, LeftTypes, world, papers
<1>4. FlowTypes'
  BY <1>1, <1>2 DEF PolicyInv, Types, FlowTypes, world
<1>5. PapersKept'
  BY <1>1 DEF PolicyInv, PapersKept, QuoteKept, ApprovalKept, world, papers
<1>6. WasAllowed'
  <2>1. admitted'.market = market /\ admitted'.now = now
    BY <1>1
  <2>2. Allowed(market, issued, signed, request, now + skew)
    BY <1>1 DEF RequestAllowed, clock
  <2> QED
    BY <1>1, <2>1, <2>2 DEF WasAllowed, papers, world
<1>7. PaidAtQuotedRate' /\ PolicyFloor'
  BY <1>1 DEF PaidAtQuotedRate, PolicyFloor
<1>8. MadeByClient'
  <2>1. market.fee <= market'.fee /\ now' \in Nat /\ now <= now'
    BY <1>1, <1>2 DEF world
  <2>2. issued \subseteq issued' /\ signed \subseteq signed'
    BY <1>1 DEF papers
  <2> QED
    BY <1>1, <1>2, <1>3, <2>1, <2>2, MadeFrame DEF PolicyInv, Types
<1>9. ReturnsAreAuthorized'
  BY <1>1 DEF PolicyInv, ReturnsAreAuthorized, papers
<1> QED
  BY <1>3, <1>4, <1>5, <1>6, <1>7, <1>8, <1>9 DEF PolicyInv, Types

LEMMA OverKeeps ==
  ASSUME PolicyInv, Over
  PROVE  PolicyInv'
<1>1. /\ stage' = "idle" /\ request' = NoRequest /\ outcome' = NoOutcome
      /\ quote' = None /\ approval' = None
      /\ UNCHANGED <<task, world, held, issued, signed, left, requests>>
  BY DEF Over
<1>2. WorldTypes' /\ PaperTypes' /\ HeldTypes' /\ LeftTypes'
  BY <1>1 DEF PolicyInv, Types, WorldTypes, PaperTypes, HeldTypes, LeftTypes, world
<1>3. FlowTypes'
  BY <1>1 DEF PolicyInv, Types, FlowTypes, NoOutcome
<1>4. PapersKept'
  BY <1>1 DEF PapersKept
<1>5. MadeByClient' /\ WasAllowed' /\ PaidAtQuotedRate' /\ PolicyFloor'
  BY <1>1, IdleKeeps
<1>6. ReturnsAreAuthorized'
  BY <1>1 DEF PolicyInv, ReturnsAreAuthorized
<1> QED
  BY <1>2, <1>3, <1>4, <1>5, <1>6 DEF PolicyInv, Types

LEMMA HalfRate ==
  ASSUME NEW spent \in Nat, NEW got \in Nat, NEW out \in Nat, NEW spent2 \in Nat,
         Bps * spent * got > (Bps - MaxSlippage) * out * spent2
  PROVE  2 * spent * got > out * spent2
<1> DEFINE a == spent * got
           b == out * spent2
           kept == Bps - MaxSlippage
<1>1. a \in Nat /\ b \in Nat /\ 2 * spent * got = 2 * a
  BY Z3
<1>2. kept \in Nat /\ 5000 <= kept
  BY TradesAssumption DEF Bps
<1> HIDE DEF kept
<1>3. Bps * a > kept * b
  <2>1. Bps * spent * got = Bps * a
    BY Z3 DEF Bps
  <2>2. kept * out * spent2 = kept * b
    BY <1>2, Z3
  <2> QED
    BY <2>1, <2>2 DEF kept
<1> HIDE DEF a, b
<1>4. 5000 * b <= kept * b
  BY <1>1, <1>2, Times
<1>5. Bps * a > 5000 * b
  <2>1. kept * b \in Int
    BY <1>1, <1>2, Z3
  <2> QED
    BY <1>1, <1>3, <1>4, <2>1 DEF Bps
<1>6. 2 * a > b
  BY <1>1, <1>5 DEF Bps
<1> QED
  BY <1>1, <1>6 DEF b

LEMMA SellRate ==
  ASSUME NEW quoted \in Nat, NEW slippage \in 0..Bps, NEW min \in Nat, NEW got \in Nat,
         min >= ApplySlippage(quoted, slippage), got >= min
  PROVE  Bps * (got + 2) > (Bps - slippage) * quoted
<1>1. /\ quoted * (Bps - slippage) < Bps * ApplySlippage(quoted, slippage) + Bps
      /\ ApplySlippage(quoted, slippage) \in Nat
  BY SlippageBounds
<1>2. Bps - slippage \in Nat
  BY DEF Bps
<1>3. quoted * (Bps - slippage) = (Bps - slippage) * quoted /\ (Bps - slippage) * quoted \in Int
  BY <1>2, Z3
<1> QED
  BY <1>1, <1>3 DEF Bps

LEMMA HalfSell ==
  ASSUME NEW got \in Nat, NEW quoted \in Nat, Bps * got > (Bps - MaxSlippage) * quoted
  PROVE  2 * got > quoted
<1> DEFINE kept == Bps - MaxSlippage
<1>1. kept \in Nat /\ 5000 <= kept
  BY TradesAssumption DEF Bps
<1>2. Bps * got > kept * quoted
  OBVIOUS
<1> HIDE DEF kept
<1>3. 5000 * quoted <= kept * quoted /\ kept * quoted \in Int
  BY <1>1, Times, Z3
<1> QED
  BY <1>2, <1>3 DEF Bps

LEMMA MainTypes ==
  ASSUME FlowTypes, stage # "idle"
  PROVE  /\ main \in CallSet
         /\ Len(request.calls) \in Nat /\ Len(request.calls) > 0
         /\ \A i \in 1..Len(request.calls) : request.calls[i] \in CallSet
<1>1. request.calls \in Seq(CallSet) /\ request.calls # << >>
  BY DEF FlowTypes, RequestSet
<1> QED
  BY <1>1 DEF main

LEMMA KindOfCall ==
  ASSUME NEW c \in CallSet
  PROVE  /\ c.fn \in {"approve", "buy", "sell", "launchToken", "transfer"}
         /\ c.fn \in {"buy", "sell"} => c \in TradeRecords
         /\ c.fn = "transfer" => c \in TransferRecords
BY DEF CallSet, ApproveRecords, TradeRecords, LaunchRecords, TransferRecords

\* What the relayer has let through is judged by the kind of its last call.
LEMMA TradeJudged ==
  ASSUME PolicyInv, stage \in {"admitted", "executed"}, main.fn \in {"buy", "sell"}
  PROVE  /\ main \in TradeRecords
         /\ TradeAllowed(admitted.market, request.calls[1], main, request.prefund)
         /\ admitted.market.curve \in Curve
<1>1. main \in TradeRecords
  BY MainTypes, KindOfCall DEF PolicyInv, Types, FlowTypes
<1>2. Allowed(admitted.market, issued, signed, request, admitted.now + skew)
  BY DEF PolicyInv, WasAllowed
<1>3. Len(request.calls) = 2
        /\ TradeAllowed(admitted.market, request.calls[1], request.calls[2], request.prefund)
  BY <1>2 DEF Allowed, main, TransferAllowed
<1>4. admitted.market.curve \in Curve
  BY DEF PolicyInv, Types, FlowTypes, Market
<1> QED
  BY <1>1, <1>3, <1>4 DEF main

LEMMA TransferJudged ==
  ASSUME PolicyInv, stage \in {"admitted", "executed"}, main.fn = "transfer"
  PROVE  /\ main \in TransferRecords
         /\ TransferAllowed(issued, signed, request, main, admitted.now + skew)
<1>1. main \in TransferRecords
  BY MainTypes, KindOfCall DEF PolicyInv, Types, FlowTypes
<1>2. Allowed(admitted.market, issued, signed, request, admitted.now + skew)
  BY DEF PolicyInv, WasAllowed
<1>3. Len(request.calls) = 1
        /\ TransferAllowed(issued, signed, request, request.calls[1], admitted.now + skew)
  BY <1>2 DEF Allowed, main, TradeAllowed
<1> QED
  BY <1>1, <1>3 DEF main

\* What the client has made is told by the kind of its last call as well.
LEMMA BuyMain ==
  ASSUME NEW token, NEW curve, NEW in, BuyMade(token, curve, in)
  PROVE  /\ main.fn = "buy" /\ main.amount = in /\ main.to = Account
         /\ main.target = curve /\ Len(request.calls) = 2
         /\ request.calls[1] = Approve(Usdg, curve, in)
         /\ main = request.calls[2] /\ main.value = 0
         /\ main.min = BuyMinimum(BuyQuote(built.market.curve, in), in, built.slippage)
BY DEF BuyMade, Plain, BuyCalls, main, Trade

LEMMA SellMain ==
  ASSUME NEW token, NEW curve, NEW in, SellMade(token, curve, in)
  PROVE  /\ main.fn = "sell" /\ main.amount = in /\ main.to = Account
         /\ main.target = curve /\ Len(request.calls) = 2
         /\ request.calls[1] = Approve(token, curve, in)
         /\ main = request.calls[2] /\ main.value = 0
         /\ main.min = ApplySlippage(SellQuote(built.market.curve, in), built.slippage)
BY DEF SellMade, Plain, SellCalls, main, Trade

LEMMA LaunchMain ==
  ASSUME NEW tax, NEW metadata, LaunchMade(tax, metadata)
  PROVE  /\ Len(request.calls) = 1 /\ main = request.calls[1]
         /\ main = Launch(built.market.fee, Usdg, Account, tax, built.market.digest, metadata)
         /\ main.fn = "launchToken"
BY DEF LaunchMade, Plain, LaunchCalls, main, Launch

LEMMA ReturnMain ==
  ASSUME NEW claims, NEW deadline, ReturnMade(claims, deadline)
  PROVE  /\ Len(request.calls) = 1 /\ main = request.calls[1]
         /\ main = Transfer(Usdg, claims.deposit, claims.amount)
         /\ main.fn = "transfer"
         /\ request.id = claims.id /\ request.attestation = claims
         /\ request.authorization = None /\ request.prefund = 0
BY DEF ReturnMade, Plain, main, Transfer

LEMMA RecoveryMain ==
  ASSUME NEW a, NEW deadline, RecoveryMade(a, deadline)
  PROVE  /\ Len(request.calls) = 1 /\ main = request.calls[1]
         /\ main = Transfer(Usdg, Wallet, a.accounts[1].amount)
         /\ main.fn = "transfer"
         /\ request.id = None /\ request.attestation = None
         /\ request.authorization = a /\ request.prefund = 0
BY DEF RecoveryMade, Plain, main, Transfer

LEMMA MadeBuy ==
  ASSUME ClientMade, main.fn = "buy"
  PROVE  \E token \in Tokens, curve \in Curves, in \in Amounts : BuyMade(token, curve, in)
BY SellMain, LaunchMain, ReturnMain, RecoveryMain DEF ClientMade, TradeMade

LEMMA MadeSell ==
  ASSUME ClientMade, main.fn = "sell"
  PROVE  \E token \in Tokens, curve \in Curves, in \in Amounts : SellMade(token, curve, in)
BY BuyMain, LaunchMain, ReturnMain, RecoveryMain DEF ClientMade, TradeMade

\* What every execution has to show: the market and the balances keep their
\* types, and what the transaction has paid is within its two bounds.
LEMMA ExecuteKeeps ==
  ASSUME PolicyInv, Execute, market' \in Market, market.fee <= market'.fee,
         held' \in [usdg: Nat, token: Nat], outcome' \in [spent: Nat, got: Nat],
         PaidAtQuotedRate', PolicyFloor', LeftTypes', ReturnsAreAuthorized'
  PROVE  PolicyInv'
<1>1. /\ stage = "admitted" /\ stage' = "executed"
      /\ UNCHANGED <<task, moves, now, skew, papers, request, built, admitted, requests>>
  BY DEF Execute
<1>2. WorldTypes' /\ PaperTypes' /\ HeldTypes'
  BY <1>1 DEF PolicyInv, Types, WorldTypes, PaperTypes, HeldTypes, papers
<1>3. FlowTypes'
  BY <1>1 DEF PolicyInv, Types, FlowTypes
<1>4. PapersKept'
  BY <1>1 DEF PolicyInv, PapersKept, QuoteKept, ApprovalKept, papers
<1>5. WasAllowed'
  BY <1>1 DEF PolicyInv, WasAllowed, papers
<1>6. MadeByClient'
  <2>1. now \in Nat /\ now' \in Nat /\ now <= now'
    BY <1>1 DEF PolicyInv, Types, WorldTypes
  <2>2. issued \subseteq issued' /\ signed \subseteq signed'
    BY <1>1 DEF papers
  <2> QED
    BY <1>1, <1>2, <2>1, <2>2, MadeFrame DEF PolicyInv, Types
<1> QED
  BY <1>2, <1>3, <1>4, <1>5, <1>6 DEF PolicyInv, Types

LEMMA ExecuteBuyKeeps ==
  ASSUME PolicyInv, ExecuteBuy
  PROVE  PolicyInv'
<1> DEFINE c == market.curve
           in == main.amount
           q == BuyQuote(c, in)
           got == IF main.to = Account THEN q.tokensOut ELSE 0
<1>1. /\ Execute /\ main.fn = "buy" /\ Executes
      /\ held' = [usdg |-> held.usdg - q.spent, token |-> held.token + got]
      /\ outcome' = [spent |-> q.spent, got |-> got]
      /\ market' = [market EXCEPT !.curve = AfterBuy(c, in)]
      /\ UNCHANGED left
  BY DEF ExecuteBuy, Execute
<1>2. /\ stage = "admitted" /\ stage' = "executed"
      /\ UNCHANGED <<papers, request, built, admitted>>
  BY <1>1 DEF Execute
<1>3. /\ main \in TradeRecords
      /\ TradeAllowed(admitted.market, request.calls[1], main, request.prefund)
      /\ admitted.market.curve \in Curve
  BY <1>1, <1>2, TradeJudged
<1>4. in \in Nat /\ main.min \in Nat
  BY <1>3 DEF TradeRecords
<1>5. in <= held.usdg /\ BuyQuotable(c, in) /\ q.tokensOut >= (main.min * q.spent) \div in
  BY <1>1 DEF Executes, BuyFills, CurveFillsBuy
<1>6. market \in Market /\ c \in Curve /\ market.fee \in Nat
  BY DEF PolicyInv, Types, WorldTypes, Market
<1>7. q.tokensOut \in Nat /\ q.spent \in 1..in
  BY <1>4, <1>5, <1>6, BuyQuoteBounds
<1>8. AfterBuy(c, in) \in Curve
  BY <1>4, <1>5, <1>6, AfterBuyTypes
<1>9. /\ main' = main /\ built' = built /\ admitted' = admitted
  BY <1>2 DEF main
<1> HIDE DEF c, in, q
<1>10. market' \in Market /\ market.fee <= market'.fee
  BY <1>1, <1>6, <1>8 DEF Market
<1>11. held.usdg \in Nat /\ held.token \in Nat
  BY DEF PolicyInv, Types, HeldTypes
<1>12. got \in Nat /\ held.usdg - q.spent \in Nat /\ held.token + got \in Nat
  BY <1>4, <1>5, <1>7, <1>11
<1> HIDE DEF got
<1>13. held' \in [usdg: Nat, token: Nat] /\ outcome' \in [spent: Nat, got: Nat]
  BY <1>1, <1>7, <1>12
<1>14. PaidAtQuotedRate'
  <2>1. SUFFICES ASSUME ~built.altered
                 PROVE  LET part == Bps - built.slippage
                            was == BuyQuote(built.market.curve, in)
                        IN  Bps * was.spent * (got + 3) > part * was.tokensOut * q.spent
    BY <1>1, <1>2, <1>9 DEF PaidAtQuotedRate, in
  <2>2. ClientMade
    BY <1>2, <2>1 DEF PolicyInv, MadeByClient
  <2>3. PICK token \in Tokens, curve \in Curves, x \in Amounts : BuyMade(token, curve, x)
    BY <1>1, <2>2, MadeBuy
  <2>4. /\ in = x /\ main.to = Account
        /\ main.min = BuyMinimum(BuyQuote(built.market.curve, in), in, built.slippage)
    BY <2>3, BuyMain DEF in
  <2>5. got = q.tokensOut
    BY <2>4 DEF got
  <2>6. BuyQuotable(built.market.curve, in) /\ built.slippage \in 0..Bps
    BY <2>3, <2>4, SlippageTypes DEF BuyMade, BuildsBuy
  <2>7. built.market.curve \in Curve
    BY <1>2 DEF PolicyInv, Types, FlowTypes, Market
  <2> DEFINE was == BuyQuote(built.market.curve, in)
  <2>8. was.tokensOut \in Nat /\ was.spent \in 1..in
    BY <1>4, <2>6, <2>7, BuyQuoteBounds
  <2>9. main.min >= ApplySlippage((was.tokensOut * in) \div was.spent, built.slippage)
    BY <1>4, <2>4 DEF BuyMinimum
  <2> HIDE DEF was
  <2>10. Bps * was.spent * (q.tokensOut + 3) > (Bps - built.slippage) * was.tokensOut * q.spent
    <3>1. q.spent \in 0..in
      BY <1>4, <1>7
    <3> QED
      BY <1>4, <1>5, <1>7, <2>6, <2>8, <2>9, <3>1, RateSurvives, Zenon
  <2> QED
    BY <2>5, <2>10 DEF was
<1>15. PolicyFloor'
  <2> DEFINE was == BuyQuote(admitted.market.curve, in)
  <2>1. BuyAllowed(admitted.market, request.calls[1], main)
    BY <1>1, <1>3 DEF TradeAllowed
  <2>2. main.to = Account /\ BuyQuotable(admitted.market.curve, in)
        /\ main.min >= BuyMinimum(was, in, MaxSlippage)
    BY <2>1 DEF BuyAllowed, in
  <2>3. got = q.tokensOut
    BY <2>2 DEF got
  <2>4. was.tokensOut \in Nat /\ was.spent \in 1..in
    BY <1>3, <1>4, <2>2, BuyQuoteBounds
  <2>5. main.min >= ApplySlippage((was.tokensOut * in) \div was.spent, MaxSlippage)
    BY <2>2 DEF BuyMinimum
  <2> HIDE DEF was
  <2>6. Bps * was.spent * (q.tokensOut + 3) > (Bps - MaxSlippage) * was.tokensOut * q.spent
    <3>1. q.spent \in 0..in
      BY <1>4, <1>7
    <3> QED
      BY <1>4, <1>5, <1>7, <2>4, <2>5, <3>1, RateSurvives, SlippageTypes, Zenon
  <2>7. was.spent \in Nat /\ q.tokensOut + 3 \in Nat /\ q.spent \in Nat
    BY <1>7, <2>4
  <2>8. 2 * was.spent * (q.tokensOut + 3) > was.tokensOut * q.spent
    BY <2>4, <2>6, <2>7, HalfRate
  <2> QED
    BY <1>1, <1>9, <2>3, <2>8 DEF PolicyFloor, was, in
<1>16. LeftTypes' /\ ReturnsAreAuthorized'
  BY <1>1, <1>2 DEF PolicyInv, Types, LeftTypes, ReturnsAreAuthorized, papers
<1> QED
  BY <1>1, <1>10, <1>13, <1>14, <1>15, <1>16, ExecuteKeeps

LEMMA ExecuteSellKeeps ==
  ASSUME PolicyInv, ExecuteSell
  PROVE  PolicyInv'
<1> DEFINE c == market.curve
           in == main.amount
           paid == SellQuote(c, in)
           got == IF main.to = Account THEN paid ELSE 0
<1>1. /\ Execute /\ main.fn = "sell" /\ Executes
      /\ held' = [usdg |-> held.usdg + got, token |-> held.token - in]
      /\ outcome' = [spent |-> in, got |-> got]
      /\ market' = [market EXCEPT !.curve = AfterSell(c, in)]
      /\ UNCHANGED left
  BY DEF ExecuteSell, Execute
<1>2. /\ stage = "admitted" /\ stage' = "executed"
      /\ UNCHANGED <<papers, request, built, admitted>>
  BY <1>1 DEF Execute
<1>3. /\ main \in TradeRecords
      /\ TradeAllowed(admitted.market, request.calls[1], main, request.prefund)
      /\ admitted.market.curve \in Curve
  BY <1>1, <1>2, TradeJudged
<1>4. in \in Nat /\ main.min \in Nat
  BY <1>3 DEF TradeRecords
<1>5. in <= held.token /\ SellQuotable(c, in) /\ paid >= main.min
  BY <1>1 DEF Executes, SellFills, CurveFillsSell
<1>6. market \in Market /\ c \in Curve /\ market.fee \in Nat
  BY DEF PolicyInv, Types, WorldTypes, Market
<1>7. paid \in Nat /\ AfterSell(c, in) \in Curve
  BY <1>4, <1>5, <1>6, SellBounds
<1>8. /\ main' = main /\ built' = built /\ admitted' = admitted
  BY <1>2 DEF main
<1> HIDE DEF c, in, paid
<1>9. market' \in Market /\ market.fee <= market'.fee
  BY <1>1, <1>6, <1>7 DEF Market
<1>10. held.usdg \in Nat /\ held.token \in Nat
  BY DEF PolicyInv, Types, HeldTypes
<1>11. got \in Nat /\ held.usdg + got \in Nat /\ held.token - in \in Nat
  BY <1>4, <1>5, <1>7, <1>10
<1> HIDE DEF got
<1>12. held' \in [usdg: Nat, token: Nat] /\ outcome' \in [spent: Nat, got: Nat]
  BY <1>1, <1>4, <1>11
<1>13. PaidAtQuotedRate'
  <2>1. SUFFICES ASSUME ~built.altered
                 PROVE  LET part == Bps - built.slippage
                        IN  Bps * (got + 2) > part * SellQuote(built.market.curve, in)
    BY <1>1, <1>2, <1>8 DEF PaidAtQuotedRate, in
  <2>2. ClientMade
    BY <1>2, <2>1 DEF PolicyInv, MadeByClient
  <2>3. PICK token \in Tokens, curve \in Curves, x \in Amounts : SellMade(token, curve, x)
    BY <1>1, <2>2, MadeSell
  <2>4. /\ in = x /\ main.to = Account
        /\ main.min = ApplySlippage(SellQuote(built.market.curve, in), built.slippage)
    BY <2>3, SellMain DEF in
  <2>5. got = paid
    BY <2>4 DEF got
  <2>6. SellQuotable(built.market.curve, in) /\ built.slippage \in 0..Bps
    BY <2>3, <2>4, SlippageTypes DEF SellMade, BuildsSell
  <2>7. built.market.curve \in Curve
    BY <1>2 DEF PolicyInv, Types, FlowTypes, Market
  <2>8. SellQuote(built.market.curve, in) \in Nat
    BY <1>4, <2>6, <2>7, SellBounds
  <2>9. main.min >= ApplySlippage(SellQuote(built.market.curve, in), built.slippage)
    BY <1>4, <2>4
  <2> QED
    BY <1>4, <1>5, <1>7, <2>5, <2>6, <2>8, <2>9, SellRate
<1>14. PolicyFloor'
  <2> DEFINE was == SellQuote(admitted.market.curve, in)
  <2>1. SellAllowed(admitted.market, request.calls[1], main)
    BY <1>1, <1>3 DEF TradeAllowed
  <2>2. main.to = Account /\ SellQuotable(admitted.market.curve, in)
        /\ main.min >= ApplySlippage(was, MaxSlippage)
    BY <2>1 DEF SellAllowed, in
  <2>3. got = paid
    BY <2>2 DEF got
  <2>4. was \in Nat
    BY <1>3, <1>4, <2>2, SellBounds
  <2> HIDE DEF was
  <2>5. Bps * (paid + 2) > (Bps - MaxSlippage) * was
    BY <1>4, <1>5, <1>7, <2>2, <2>4, SellRate, SlippageTypes
  <2>6. 2 * (paid + 2) > was
    BY <1>7, <2>4, <2>5, HalfSell
  <2> QED
    BY <1>1, <1>8, <2>3, <2>6 DEF PolicyFloor, was, in
<1>15. LeftTypes' /\ ReturnsAreAuthorized'
  BY <1>1, <1>2 DEF PolicyInv, Types, LeftTypes, ReturnsAreAuthorized, papers
<1> QED
  BY <1>1, <1>9, <1>12, <1>13, <1>14, <1>15, ExecuteKeeps

LEMMA ExecuteTransferKeeps ==
  ASSUME PolicyInv, ExecuteTransfer
  PROVE  PolicyInv'
<1> DEFINE e == [to |-> main.to, amount |-> main.amount, admitted |-> admitted.now, at |-> now]
<1>1. /\ Execute /\ Executes /\ main.fn = "transfer"
      /\ held' = [held EXCEPT !.usdg = @ - main.amount]
      /\ left' = left \cup {e}
      /\ UNCHANGED <<market, outcome>>
  BY DEF ExecuteTransfer, Execute
<1>2. /\ stage = "admitted" /\ stage' = "executed"
      /\ UNCHANGED <<papers, request, built, admitted, skew, now>>
  BY <1>1 DEF Execute
<1>3. main \in TransferRecords /\ TransferAllowed(issued, signed, request, main, admitted.now + skew)
  BY <1>1, <1>2, TransferJudged
<1>4. main.amount \in Nat /\ main.amount <= held.usdg /\ now <= request.deadline
  BY <1>1, <1>3 DEF TransferRecords, Executes
<1>5. /\ market \in Market /\ market.fee \in Nat /\ now \in Nat /\ skew \in Int /\ MaxSkew \in Nat
      /\ -MaxSkew <= skew
  BY AuthorizationAssumption DEF PolicyInv, Types, WorldTypes, Market
<1>6. /\ request \in RequestSet /\ admitted.now \in Nat /\ admitted.now <= now
      /\ outcome \in [spent: Nat, got: Nat] /\ held \in [usdg: Nat, token: Nat]
  BY <1>2 DEF PolicyInv, Types, FlowTypes, HeldTypes
<1>7. held' \in [usdg: Nat, token: Nat]
  <2>1. held.usdg - main.amount \in Nat
    BY <1>4, <1>6
  <2> QED
    BY <1>1, <1>6, <2>1
<1>8. PaidAtQuotedRate' /\ PolicyFloor'
  <2>1. main'.fn = "transfer"
    BY <1>1, <1>2 DEF main
  <2> QED
    BY <2>1 DEF PaidAtQuotedRate, PolicyFloor
<1>9. LeftTypes'
  BY <1>1, <1>6 DEF PolicyInv, Types, LeftTypes
<1>10. \/ \E claims \in issued :
            /\ claims.account = Account /\ claims.deposit = e.to /\ claims.amount = e.amount
            /\ e.admitted <= claims.expiresAt + MaxSkew
       \/ \E message \in signed :
            /\ message.recipient = e.to
            /\ [account |-> Account, amount |-> e.amount] \in message.accounts
            /\ e.at <= message.deadline
  <2>1. CASE request.id = None
    <3> DEFINE a == request.authorization
               message == Message(a)
    <3>1. a # None /\ RecoveryVerified(signed, request, main.to, main.amount, admitted.now + skew)
      BY <1>3, <2>1 DEF TransferAllowed
    <3>2. a \in Authorizations /\ request.deadline \in Nat
      BY <1>6, <3>1 DEF RequestSet
    <3>3. /\ a.recipient = main.to /\ message \in signed /\ request.deadline <= a.deadline
          /\ \E i \in 1..Len(a.accounts) : a.accounts[i] = [account |-> Account, amount |-> main.amount]
      BY <3>1 DEF RecoveryVerified, OutlivingRecoveryVerified
    <3>4. a.accounts \in Seq(Sources) /\ a.deadline \in Nat
      BY <3>2 DEF Authorizations
    <3> HIDE DEF a
    <3>5. [account |-> Account, amount |-> main.amount] \in ToSet(a.accounts)
      BY <3>3, <3>4 DEF ToSet
    <3>6. /\ message.recipient = a.recipient /\ message.accounts = ToSet(a.accounts)
          /\ message.deadline = a.deadline
      BY DEF Message
    <3>7. now <= a.deadline
      BY <1>4, <1>5, <3>2, <3>3, <3>4
    <3> HIDE DEF message
    <3> QED
      BY <3>3, <3>5, <3>6, <3>7
  <2>2. CASE request.id # None
    <3> DEFINE claims == request.attestation
    <3>1. ReturnVerified(issued, request, main.to, main.amount, admitted.now + skew)
      BY <1>3, <2>2 DEF TransferAllowed
    <3>2. /\ claims \in issued /\ claims.account = Account /\ claims.deposit = main.to
          /\ claims.amount = main.amount /\ admitted.now + skew <= claims.expiresAt
      BY <3>1 DEF ReturnVerified, Verified
    <3>3. claims.expiresAt \in Nat
      BY <3>2 DEF PolicyInv, Types, PaperTypes, Attestations
    <3> HIDE DEF claims
    <3>4. admitted.now <= claims.expiresAt + MaxSkew
      BY <1>5, <1>6, <3>2, <3>3
    <3> QED
      BY <3>2, <3>4
  <2> QED
    BY <2>1, <2>2
<1> HIDE DEF e
<1>11. ReturnsAreAuthorized'
  <2>1. issued' = issued /\ signed' = signed
    BY <1>2 DEF papers
  <2> QED
    BY <1>1, <1>10, <2>1 DEF PolicyInv, ReturnsAreAuthorized
<1>12. market' \in Market /\ market.fee <= market'.fee /\ outcome' \in [spent: Nat, got: Nat]
  BY <1>1, <1>5, <1>6
<1> QED
  BY <1>1, <1>7, <1>8, <1>9, <1>11, <1>12, ExecuteKeeps

LEMMA ExecuteLaunchKeeps ==
  ASSUME PolicyInv, ExecuteLaunch
  PROVE  PolicyInv'
<1>1. Execute /\ main.fn = "launchToken" /\ UNCHANGED <<market, held, outcome, left>>
  BY DEF ExecuteLaunch
<1>2. UNCHANGED <<papers, request, built, admitted>>
  BY <1>1 DEF Execute
<1>3. market \in Market /\ market.fee \in Nat /\ market.fee <= market.fee
  BY DEF PolicyInv, Types, WorldTypes, Market
<1>4. held' \in [usdg: Nat, token: Nat] /\ outcome' \in [spent: Nat, got: Nat]
  BY <1>1 DEF PolicyInv, Types, HeldTypes, FlowTypes
<1>5. PaidAtQuotedRate' /\ PolicyFloor'
  <2>1. main'.fn = "launchToken"
    BY <1>1, <1>2 DEF main
  <2> QED
    BY <2>1 DEF PaidAtQuotedRate, PolicyFloor
<1>6. LeftTypes' /\ ReturnsAreAuthorized'
  BY <1>1, <1>2 DEF PolicyInv, Types, LeftTypes, ReturnsAreAuthorized, papers
<1> QED
  BY <1>1, <1>3, <1>4, <1>5, <1>6, ExecuteKeeps

\* What a step of the world, which touches nothing that is under way, keeps.
LEMMA WorldKeeps ==
  ASSUME PolicyInv, UNCHANGED <<task, skew, held, papers, flow, left>>, WorldTypes',
         market.fee <= market'.fee, now <= now'
  PROVE  PolicyInv'
<1>1. now \in Nat /\ now' \in Nat
  BY DEF PolicyInv, Types, WorldTypes
<1>2. UNCHANGED <<issued, signed, quote, approval, request, stage, built, admitted, outcome, requests>>
  BY DEF papers, flow
<1>3. PaperTypes' /\ HeldTypes' /\ LeftTypes'
  BY <1>2 DEF PolicyInv, Types, PaperTypes, HeldTypes, LeftTypes
<1>4. FlowTypes'
  <2>1. stage \in {"admitted", "executed"} => admitted \in [market: Market, now: Nat] /\ admitted.now <= now
    BY DEF PolicyInv, Types, FlowTypes
  <2>2. stage \in {"admitted", "executed"} => admitted.now <= now'
    <3>1. ASSUME stage \in {"admitted", "executed"}
          PROVE  admitted.now <= now'
      <4>1. admitted.now \in Nat /\ admitted.now <= now
        BY <2>1, <3>1
      <4> QED
        BY <1>1, <4>1
    <3> QED
      BY <3>1
  <2> QED
    BY <1>2, <2>2 DEF PolicyInv, Types, FlowTypes
<1>5. PapersKept'
  <2>1. ASSUME quote # None
        PROVE  QuoteKept(quote)'
    <3>1. QuoteKept(quote)
      BY <2>1 DEF PolicyInv, PapersKept
    <3>2. quote.claims.issuedAt \in Nat
      BY <3>1 DEF QuoteKept, PolicyInv, Types, PaperTypes, Attestations
    <3>3. quote.claims.issuedAt <= now'
      BY <1>1, <3>1, <3>2 DEF QuoteKept
    <3> QED
      BY <1>2, <3>1, <3>3 DEF QuoteKept
  <2>2. ASSUME approval # None
        PROVE  ApprovalKept(approval)'
    <3>1. ApprovalKept(approval)
      BY <2>2 DEF PolicyInv, PapersKept
    <3>2. approval.deadline \in Nat
      BY <3>1 DEF ApprovalKept, Authorizations
    <3>3. approval.deadline <= now' + AuthorizationLife
      BY <1>1, <3>1, <3>2, PolicyAssumption DEF ApprovalKept
    <3> QED
      BY <1>2, <3>1, <3>3 DEF ApprovalKept
  <2> QED
    BY <1>2, <2>1, <2>2 DEF PapersKept
<1>6. MadeByClient'
  <2>1. CASE stage = "idle"
    BY <1>2, <2>1 DEF MadeByClient
  <2>2. CASE stage # "idle"
    <3>1. issued \subseteq issued' /\ signed \subseteq signed'
      BY <1>2
    <3> QED
      BY <1>1, <1>2, <2>2, <3>1, MadeFrame DEF PolicyInv, Types
  <2> QED
    BY <2>1, <2>2
<1>7. WasAllowed' /\ PaidAtQuotedRate' /\ PolicyFloor'
  BY <1>2, FlowFrame DEF PolicyInv
<1>8. ReturnsAreAuthorized'
  BY <1>2 DEF PolicyInv, ReturnsAreAuthorized
<1> QED
  BY <1>3, <1>4, <1>5, <1>6, <1>7, <1>8 DEF PolicyInv, Types

LEMMA MarketKeeps ==
  ASSUME PolicyInv, MarketMoves
  PROVE  PolicyInv'
<1>1. /\ WorldTypes' /\ market'.fee >= market.fee
      /\ UNCHANGED <<task, now, skew, held, papers, flow, left>>
  BY MarketMovesTypes DEF PolicyInv, Types
<1>2. now <= now'
  BY <1>1 DEF PolicyInv, Types, WorldTypes
<1>3. market.fee <= market'.fee
  BY <1>1 DEF PolicyInv, Types, WorldTypes, Market
<1> QED
  BY <1>1, <1>2, <1>3, WorldKeeps

LEMMA TickKeeps ==
  ASSUME PolicyInv, Tick
  PROVE  PolicyInv'
<1>1. /\ task = "return" /\ now < MaxTime /\ now' = now + 1
      /\ UNCHANGED <<task, market, moves, skew, held, papers, flow, left>>
  BY DEF Tick
<1>2. now' \in 0..MaxTime /\ now <= now'
  BY <1>1, PolicyAssumption DEF PolicyInv, Types, WorldTypes
<1>3. WorldTypes'
  BY <1>1, <1>2 DEF PolicyInv, Types, WorldTypes
<1>4. market.fee <= market'.fee
  BY <1>1 DEF PolicyInv, Types, WorldTypes, Market
<1> QED
  BY <1>1, <1>2, <1>3, <1>4, WorldKeeps

LEMMA PolicyInit ==
  ASSUME Init
  PROVE  PolicyInv
<1>1. WorldTypes
  <2>1. skew \in -MaxSkew..MaxSkew /\ (task # "return" => skew = 0)
    BY PolicyAssumption, AuthorizationAssumption DEF Init
  <2> QED
    BY <2>1, PolicyAssumption DEF Init, WorldTypes
<1>2. PaperTypes /\ HeldTypes /\ LeftTypes
  BY PolicyAssumption DEF Init, PaperTypes, HeldTypes, LeftTypes
<1>3. FlowTypes
  BY PolicyAssumption DEF Init, FlowTypes, NoOutcome
<1> QED
  BY <1>1, <1>2, <1>3
  DEF Init, PolicyInv, Types, PapersKept, MadeByClient, WasAllowed, PaidAtQuotedRate, PolicyFloor,
      ReturnsAreAuthorized

LEMMA PolicyStep ==
  ASSUME PolicyInv, Next
  PROVE  PolicyInv'
<1>1. CASE OthersBuy \/ OthersSell \/ SnipeTaxDecays \/ Graduate \/ FactoryChanges
  BY <1>1, MarketKeeps DEF MarketMoves
<1>2. CASE Tick
  BY <1>2, TickKeeps
<1>3. CASE \E token \in Tokens, curve \in Curves, in \in Amounts, slippage \in Slippages :
             BuildBuy(token, curve, in, slippage) \/ BuildSell(token, curve, in, slippage)
  BY <1>3, BuildBuyKeeps, BuildSellKeeps
<1>4. CASE \E tax \in {0, MaxCreatorTax, MaxCreatorTax + 1}, metadata \in {"bounded", "overlong"} :
             BuildLaunch(tax, metadata)
  BY <1>4, BuildLaunchKeeps
<1>5. CASE ReadPrefund
  BY <1>5, ReadPrefundKeeps
<1>6. CASE \E deposit \in Deposits, amount \in Amounts :
             \E reply \in Replies(deposit, amount) : Quote(deposit, amount, reply)
  BY <1>6, QuoteKeeps
<1>7. CASE BuildReturn
  BY <1>7, BuildReturnKeeps
<1>8. CASE \E amount \in Amounts, time \in 0..now : WalletSigns(amount, time)
  BY <1>8, WalletSignsKeeps
<1>9. CASE BuildRecovery
  BY <1>9, BuildRecoveryKeeps
<1>10. CASE Alter
  BY <1>10, AlterKeeps
<1>11. CASE Admit
  BY <1>11, AdmitKeeps
<1>12. CASE Refuse \/ Revert \/ Close
  BY <1>12, OverKeeps DEF Refuse, Revert, Close
<1>13. CASE ExecuteBuy
  BY <1>13, ExecuteBuyKeeps
<1>14. CASE ExecuteSell
  BY <1>14, ExecuteSellKeeps
<1>15. CASE ExecuteTransfer
  BY <1>15, ExecuteTransferKeeps
<1>16. CASE ExecuteLaunch
  BY <1>16, ExecuteLaunchKeeps
<1> HIDE DEF PolicyInv
<1> QED
  BY <1>1, <1>2, <1>3, <1>4, <1>5, <1>6, <1>7, <1>8, <1>9, <1>10, <1>11, <1>12, <1>13, <1>14,
     <1>15, <1>16 DEF Next

LEMMA PolicyInvariant == Spec => []PolicyInv
<1>1. PolicyInv /\ [Next]_vars => PolicyInv'
  <2>1. ASSUME PolicyInv, UNCHANGED vars
        PROVE  PolicyInv'
    <3>1. market.fee <= market'.fee /\ now <= now' /\ WorldTypes'
          /\ UNCHANGED <<task, skew, held, papers, flow, left>>
      BY <2>1 DEF vars, world, PolicyInv, Types, WorldTypes, Market
    <3> QED
      BY <2>1, <3>1, WorldKeeps
  <2> QED
    BY <2>1, PolicyStep
<1> QED
  BY <1>1, PolicyInit, PTL DEF Spec

(***************************************************************************)
(* The theorems.                                                           *)
(***************************************************************************)
\* Whatever is bought, sold, altered or refused in whatever order, the curve
\* and the account keep natural amounts and a request exists exactly while one
\* is under way.
THEOREM PonsTypeCorrect == Spec => []TypeOK
<1>1. PolicyInv => TypeOK
  <2> SUFFICES ASSUME PolicyInv
               PROVE  TypeOK
    OBVIOUS
  <2>1. stage = "idle" <=> request = NoRequest
    <3>1. stage # "idle" => request.calls # << >>
      BY DEF PolicyInv, Types, FlowTypes, RequestSet
    <3> QED
      BY <3>1 DEF PolicyInv, Types, FlowTypes, NoRequest
  <2>2. market.curve \in Curve /\ market.phase \in {0, 1}
    BY DEF PolicyInv, Types, WorldTypes, Market
  <2> QED
    BY <2>1, <2>2 DEF TypeOK, PolicyInv, Types, WorldTypes, FlowTypes, HeldTypes, LeftTypes
<1> QED
  BY <1>1, PolicyInvariant, PTL

\* An executed trade pays what was quoted, less the slippage and the rounding.
THEOREM QuotedRateIsPaid == Spec => []PaidAtQuotedRate
<1>1. PolicyInv => PaidAtQuotedRate
  BY DEF PolicyInv
<1> QED
  BY <1>1, PolicyInvariant, PTL

\* No trade the relayer lets through pays less than half of the market's offer.
THEOREM FloorIsPaid == Spec => []PolicyFloor
<1>1. PolicyInv => PolicyFloor
  BY DEF PolicyInv
<1> QED
  BY <1>1, PolicyInvariant, PTL

\* What leaves the account by a transfer is attested or signed for.
THEOREM TransfersAreAuthorized == Spec => []ReturnsAreAuthorized
<1>1. PolicyInv => ReturnsAreAuthorized
  BY DEF PolicyInv
<1> QED
  BY <1>1, PolicyInvariant, PTL

LEMMA FreshIsMade ==
  ASSUME PolicyInv, fresh
  PROVE  /\ ClientMade /\ stage # "building"
         /\ built \in [market: Market, slippage: Nat, altered: BOOLEAN]
         /\ request \in RequestSet
BY DEF fresh, PolicyInv, MadeByClient, Types, FlowTypes

\* The clocks agree while the position does not return anything.
LEMMA OneClock ==
  ASSUME PolicyInv, task # "return"
  PROVE  clock = 0 /\ now = 0
BY DEF PolicyInv, Types, WorldTypes, clock

LEMMA LivesFit ==
  /\ CallLife \in Nat /\ RecoveryLife \in Nat /\ AuthorizationLife \in Nat
  /\ MaxSkew \in Nat /\ MaxDeadline \in Nat /\ MaxWindow \in Nat
  /\ CallLife + MaxSkew <= MaxDeadline
  /\ RecoveryLife + MaxSkew <= MaxDeadline
  /\ AuthorizationLife + MaxSkew <= MaxWindow
BY PolicyAssumption, AuthorizationAssumption

\* The relayer's clock is at most MaxSkew away from that of the chain.
LEMMA ClockBounds ==
  ASSUME PolicyInv
  PROVE  clock \in Int /\ now \in Nat /\ clock <= now + MaxSkew /\ now <= clock + MaxSkew
BY LivesFit DEF PolicyInv, Types, WorldTypes, clock

LEMMA BuyPasses ==
  ASSUME PolicyInv, task # "return", built.market = market,
         NEW token \in Tokens, NEW curve \in Curves, NEW in \in Amounts, BuyMade(token, curve, in),
         BuyQuote(market.curve, in).tokensOut > 1
  PROVE  RequestAllowed
<1> DEFINE q == BuyQuote(market.curve, in)
           rate == (q.tokensOut * in) \div q.spent
<1>1. /\ LiveCurve(market, token, curve, FALSE) /\ BuyQuotable(market.curve, in)
      /\ built.slippage \in 0..MaxSlippage
      /\ BuyMinimum(q, in, built.slippage) > 0
      /\ request = Plain(BuyCalls(market, curve, in, built.slippage), 0, CallLife)
  BY DEF BuyMade, BuildsBuy
<1>2. in \in Nat /\ market.curve \in Curve /\ in > 0
  BY <1>1, PolicyAssumption DEF PolicyInv, Types, WorldTypes, Market, BuyQuotable
<1>3. q.tokensOut \in Nat /\ q.spent \in 1..in /\ q.tokensOut > 1
  BY <1>1, <1>2, BuyQuoteBounds
<1>4. rate \in Nat
  BY <1>1, <1>2, RateTypes
<1> HIDE DEF q
<1>5. rate > 1
  <2>1. q.spent \in Nat /\ q.spent > 0 /\ q.tokensOut * in \in Nat
    BY <1>2, <1>3, Z3
  <2>2. 2 * q.spent <= q.tokensOut * in
    <3>1. 2 * q.spent <= 2 * in
      BY <1>2, <1>3
    <3>2. 2 * in <= q.tokensOut * in
      BY <1>2, <1>3, Times
    <3> QED
      BY <1>2, <2>1, <3>1, <3>2
  <2>3. 2 <= rate
    BY <2>1, <2>2, FloorAtMost
  <2> QED
    BY <1>4, <2>3
<1> HIDE DEF rate
<1> DEFINE floor == BuyMinimum(q, in, MaxSlippage)
           min == BuyMinimum(q, in, built.slippage)
<1>6. floor = ApplySlippage(rate, MaxSlippage) /\ min = ApplySlippage(rate, built.slippage)
  BY DEF BuyMinimum, rate
<1>7. floor > 0
  BY <1>4, <1>5, <1>6, HalfIsPositive
<1>8. floor <= min
  <2>1. built.slippage \in 0..Bps /\ MaxSlippage \in 0..Bps /\ built.slippage <= MaxSlippage
    BY <1>1, SlippageTypes
  <2> QED
    BY <1>4, <1>6, <2>1, SlippageMono
<1>9. min >= floor
  <2>1. min \in Int /\ floor \in Int
    <3>1. built.slippage \in 0..Bps /\ MaxSlippage \in 0..Bps
      BY <1>1, SlippageTypes
    <3> QED
      BY <1>4, <1>6, <3>1, SlippageBounds
  <2> QED
    BY <1>8, <2>1
<1>10. /\ Len(request.calls) = 2 /\ request.deadline = CallLife /\ request.prefund = 0
       /\ request.calls[1] = Approve(Usdg, curve, in)
       /\ request.calls[2] = Trade(curve, "buy", in, min, Account)
  BY <1>1 DEF Plain, BuyCalls, q
<1>11. BuyAllowed(market, request.calls[1], request.calls[2])
  <2>1. /\ request.calls[1].target = Usdg /\ request.calls[1].amount = in
        /\ request.calls[2].amount = in /\ request.calls[2].min = min /\ request.calls[2].to = Account
    BY <1>10 DEF Approve, Trade
  <2>2. min > 0
    BY <1>1
  <2> HIDE DEF min, floor
  <2> QED
    BY <1>1, <1>7, <1>9, <2>1, <2>2 DEF BuyAllowed, floor, q
<1>12. TradeAllowed(market, request.calls[1], request.calls[2], request.prefund)
  <2>1. /\ request.calls[1].value = 0 /\ request.calls[1].fn = "approve" /\ request.calls[1].to = curve
        /\ request.calls[2].value = 0 /\ request.calls[2].fn = "buy" /\ request.calls[2].target = curve
    BY <1>10 DEF Approve, Trade
  <2> QED
    BY <1>1, <1>10, <1>11, <2>1 DEF TradeAllowed, LiveCurve
<1>13. request.calls[2].target \in Curves
  BY <1>10 DEF Trade
<1>14. clock = 0 /\ request.deadline >= clock /\ request.deadline <= clock + MaxDeadline
  BY <1>10, OneClock, LivesFit
<1> QED
  BY <1>10, <1>12, <1>13, <1>14 DEF RequestAllowed, Allowed

LEMMA SellPasses ==
  ASSUME PolicyInv, task # "return", built.market = market,
         NEW token \in Tokens, NEW curve \in Curves, NEW in \in Amounts, SellMade(token, curve, in),
         SellQuote(market.curve, in) > 1
  PROVE  RequestAllowed
<1> DEFINE quoted == SellQuote(market.curve, in)
           floor == ApplySlippage(quoted, MaxSlippage)
           min == ApplySlippage(quoted, built.slippage)
<1>1. /\ LiveCurve(market, token, curve, TRUE) /\ SellQuotable(market.curve, in)
      /\ built.slippage \in 0..MaxSlippage /\ min > 0
      /\ request = Plain(SellCalls(market, token, curve, in, built.slippage), 0, CallLife)
  BY DEF SellMade, BuildsSell
<1>2. in \in Nat /\ market.curve \in Curve
  BY PolicyAssumption DEF PolicyInv, Types, WorldTypes, Market
<1>3. quoted \in Nat /\ quoted > 1
  BY <1>1, <1>2, SellBounds
<1>4. built.slippage \in 0..Bps /\ MaxSlippage \in 0..Bps /\ built.slippage <= MaxSlippage
  BY <1>1, SlippageTypes
<1> HIDE DEF quoted
<1>5. min \in Int /\ floor \in Int /\ floor <= min /\ floor > 0
  BY <1>3, <1>4, SlippageBounds, SlippageMono, HalfIsPositive
<1>6. min >= floor
  BY <1>5
<1>7. /\ Len(request.calls) = 2 /\ request.deadline = CallLife /\ request.prefund = 0
      /\ request.calls[1] = Approve(token, curve, in)
      /\ request.calls[2] = Trade(curve, "sell", in, min, Account)
  BY <1>1 DEF Plain, SellCalls, quoted
<1>8. SellAllowed(market, request.calls[1], request.calls[2])
  <2>1. /\ request.calls[1].target = token /\ request.calls[1].amount = in
        /\ request.calls[2].amount = in /\ request.calls[2].min = min /\ request.calls[2].to = Account
        /\ request.calls[2].target = curve
    BY <1>7 DEF Approve, Trade
  <2>2. ~Ready(market) /\ TokenOf[curve] = token
    BY <1>1 DEF LiveCurve
  <2> HIDE DEF min, floor
  <2> QED
    BY <1>1, <1>5, <1>6, <2>1, <2>2 DEF SellAllowed, floor, quoted
<1>9. TradeAllowed(market, request.calls[1], request.calls[2], request.prefund)
  <2>1. /\ request.calls[1].value = 0 /\ request.calls[1].fn = "approve" /\ request.calls[1].to = curve
        /\ request.calls[2].value = 0 /\ request.calls[2].fn = "sell" /\ request.calls[2].target = curve
    BY <1>7 DEF Approve, Trade
  <2> QED
    BY <1>1, <1>7, <1>8, <2>1 DEF TradeAllowed, LiveCurve
<1>10. request.calls[2].target \in Curves
  BY <1>7 DEF Trade
<1>11. clock = 0 /\ request.deadline >= clock /\ request.deadline <= clock + MaxDeadline
  BY <1>7, OneClock, LivesFit
<1> QED
  BY <1>7, <1>9, <1>10, <1>11 DEF RequestAllowed, Allowed

LEMMA LaunchPasses ==
  ASSUME PolicyInv, task = "launch", stage = "built", built.market = market,
         NEW tax, NEW metadata, LaunchMade(tax, metadata)
  PROVE  RequestAllowed
<1>1. /\ BuildsLaunch(market, tax, metadata)
      /\ request = Plain(LaunchCalls(market, tax, metadata), request.prefund, CallLife)
      /\ market.fee <= request.prefund /\ request.prefund <= market.fee
  BY DEF LaunchMade
<1>2. market.fee \in Nat /\ request.prefund \in Nat
  BY DEF PolicyInv, Types, WorldTypes, FlowTypes, Market, RequestSet
<1>3. request.prefund = market.fee
  BY <1>1, <1>2
<1>4. /\ Len(request.calls) = 1 /\ request.deadline = CallLife
      /\ request.calls[1] = Launch(market.fee, Usdg, Account, tax, market.digest, metadata)
  BY <1>1 DEF Plain, LaunchCalls
<1>5. LaunchAllowed(market, request.calls[1], request.prefund)
  BY <1>1, <1>3, <1>4 DEF LaunchAllowed, Launch, BuildsLaunch
<1>6. request.calls[1].target = Factory /\ request.calls[1].fn = "launchToken"
  BY <1>4 DEF Launch
<1>7. clock = 0 /\ request.deadline >= clock /\ request.deadline <= clock + MaxDeadline
  BY <1>4, OneClock, LivesFit
<1> QED
  BY <1>4, <1>5, <1>6, <1>7 DEF RequestAllowed, Allowed

\* What the SDK builds and the market has not left behind, the relayer lets
\* through: the two translations of the curve agree.
THEOREM SdkTradesPass == Spec => []TradesPass
<1>1. ASSUME PolicyInv, fresh, stage = "built", task # "return", built.market = market, Substantial
      PROVE  RequestAllowed
  <2>1. ClientMade
    BY <1>1, FreshIsMade
  <2>2. CASE task = "launch"
    <3>1. PICK tax, metadata : LaunchMade(tax, metadata)
      BY <2>1, <2>2 DEF ClientMade
    <3> QED
      BY <1>1, <2>2, <3>1, LaunchPasses
  <2>3. CASE main.fn = "buy" /\ BuyQuote(market.curve, main.amount).tokensOut > 1
    <3>1. PICK token \in Tokens, curve \in Curves, in \in Amounts : BuyMade(token, curve, in)
      BY <2>1, <2>3, MadeBuy
    <3>2. main.amount = in
      BY <3>1, BuyMain
    <3> QED
      BY <1>1, <2>3, <3>1, <3>2, BuyPasses
  <2>4. CASE main.fn = "sell" /\ SellQuote(market.curve, main.amount) > 1
    <3>1. PICK token \in Tokens, curve \in Curves, in \in Amounts : SellMade(token, curve, in)
      BY <2>1, <2>4, MadeSell
    <3>2. main.amount = in
      BY <3>1, SellMain
    <3> QED
      BY <1>1, <2>4, <3>1, <3>2, SellPasses
  <2> QED
    BY <1>1, <2>2, <2>3, <2>4 DEF Substantial
<1>2. PolicyInv => TradesPass
  BY <1>1 DEF TradesPass
<1> QED
  BY <1>2, PolicyInvariant, PTL

\* A return or a recovery that ends in time is let through, however the two
\* clocks stand to each other within the skew.
THEOREM ReturnsAreLetThrough == Spec => []ReturnsPass
<1>1. ASSUME PolicyInv, fresh, stage = "built", task = "return", main.to # Account,
             now + MaxSkew <= request.deadline,
             IF request.id = None THEN request.deadline <= request.authorization.deadline
             ELSE now + MaxSkew <= request.attestation.expiresAt
      PROVE  RequestAllowed
  <2>1. ClientMade /\ request \in RequestSet
    BY <1>1, FreshIsMade
  <2>2. request.deadline \in Nat /\ request.deadline >= clock
    BY <1>1, <2>1, ClockBounds, LivesFit DEF RequestSet
  <2>3. CASE ReturnMade(request.attestation, request.deadline)
    <3> DEFINE claims == request.attestation
    <3>1. /\ claims \in issued /\ claims.issuedAt <= now /\ claims.amount > 0
          /\ request.deadline <= now + CallLife
      BY <2>3 DEF ReturnMade
    <3>2. claims \in Attestations
      BY <1>1, <3>1 DEF PolicyInv, Types, PaperTypes
    <3>3. /\ claims.issuedAt \in Nat /\ claims.expiresAt \in Nat /\ claims.account = Account
          /\ claims.owner = Owner /\ claims.recipient \notin {Account, Owner} /\ claims.id # None
          /\ claims # None
      BY <3>2, PolicyAssumption, AuthorizationAssumption DEF Attestations
    <3>4. /\ Len(request.calls) = 1 /\ main = request.calls[1]
          /\ main = Transfer(Usdg, claims.deposit, claims.amount)
          /\ request.id = claims.id /\ request.authorization = None /\ request.prefund = 0
      BY <2>3, ReturnMain
    <3>5. /\ main.target = Usdg /\ main.value = 0 /\ main.fn = "transfer"
          /\ main.to = claims.deposit /\ main.amount = claims.amount
      BY <3>4 DEF Transfer
    <3>6. now + MaxSkew <= claims.expiresAt
      BY <1>1, <3>3, <3>4
    <3>7. request.deadline <= clock + MaxDeadline
      BY <1>1, <2>2, <3>1, ClockBounds, LivesFit
    <3>8. Verified(claims, clock)
      <4>1. claims.issuedAt <= clock + MaxSkew
        BY <1>1, <3>1, <3>3, ClockBounds, LivesFit
      <4>2. clock <= claims.expiresAt
        BY <1>1, <3>3, <3>6, ClockBounds, LivesFit
      <4> QED
        BY <4>1, <4>2 DEF Verified
    <3>9. ReturnVerified(issued, request, main.to, main.amount, clock)
      BY <3>1, <3>3, <3>4, <3>5, <3>8 DEF ReturnVerified
    <3>10. TransferAllowed(issued, signed, request, main, clock)
      BY <1>1, <3>1, <3>3, <3>4, <3>5, <3>9 DEF TransferAllowed
    <3> QED
      BY <2>2, <3>4, <3>5, <3>7, <3>10 DEF RequestAllowed, Allowed
  <2>4. CASE RecoveryMade(request.authorization, request.deadline)
    <3> DEFINE a == request.authorization
    <3>1. ApprovalKept(a) /\ request.deadline <= now + RecoveryLife
      BY <2>4 DEF RecoveryMade
    <3>2. /\ a \in Authorizations /\ WellFormed(a) /\ Message(a) \in signed
          /\ a.accounts = <<[account |-> Account, amount |-> a.accounts[1].amount]>>
          /\ a.deadline <= now + AuthorizationLife
      BY <3>1 DEF ApprovalKept
    <3>3. /\ Len(request.calls) = 1 /\ main = request.calls[1]
          /\ main = Transfer(Usdg, Wallet, a.accounts[1].amount)
          /\ request.id = None /\ request.attestation = None /\ request.prefund = 0
      BY <2>4, RecoveryMain
    <3>4. /\ main.target = Usdg /\ main.value = 0 /\ main.fn = "transfer"
          /\ main.to = Wallet /\ main.amount = a.accounts[1].amount
      BY <3>3 DEF Transfer
    <3>5. a.deadline \in Nat /\ a.recipient = Wallet /\ request.deadline <= a.deadline
      BY <1>1, <3>2, <3>3 DEF Authorizations
    <3>6. Len(a.accounts) = 1 /\ a.accounts[1] = [account |-> Account, amount |-> main.amount]
      BY <3>2, <3>4
    <3>7. main.amount > 0
      BY <3>2, <3>4, <3>6 DEF WellFormed
    <3>8. clock <= a.deadline /\ a.deadline <= clock + MaxWindow
      BY <1>1, <2>2, <3>2, <3>5, ClockBounds, LivesFit
    <3>9. request.deadline <= clock + MaxDeadline
      BY <1>1, <2>2, <3>1, ClockBounds, LivesFit
    <3>10. RecoveryVerified(signed, request, main.to, main.amount, clock)
      <4>1. \E i \in 1..Len(a.accounts) : a.accounts[i] = [account |-> Account, amount |-> main.amount]
        BY <3>6
      <4> QED
        BY <3>2, <3>4, <3>5, <3>8, <4>1 DEF RecoveryVerified, OutlivingRecoveryVerified
    <3>11. a # None
      BY <3>2, PolicyAssumption
    <3>12. TransferAllowed(issued, signed, request, main, clock)
      BY <1>1, <3>3, <3>4, <3>7, <3>10, <3>11 DEF TransferAllowed
    <3> QED
      BY <2>2, <3>3, <3>4, <3>9, <3>12 DEF RequestAllowed, Allowed
  <2> QED
    BY <1>1, <2>1, <2>3, <2>4 DEF ClientMade
<1>2. PolicyInv => ReturnsPass
  BY <1>1 DEF ReturnsPass
<1> QED
  BY <1>2, PolicyInvariant, PTL

\* A trade or a launch that was let through, and whose market has not moved
\* since it was built, is executed: the minimum of a partial fill is met.
THEOREM SdkTradesExecute == Spec => []QuotedTradeExecutes
<1>1. ASSUME PolicyInv, fresh, stage = "admitted", task # "return", built.market = market
      PROVE  Executes
  <2>1. ClientMade /\ request \in RequestSet
    BY <1>1, FreshIsMade
  <2>2. CASE task = "launch"
    <3>1. PICK tax, metadata : LaunchMade(tax, metadata)
      BY <2>1, <2>2 DEF ClientMade
    <3>2. /\ main.fn = "launchToken" /\ main.value = market.fee /\ main.digest = market.digest
      BY <1>1, <3>1, LaunchMain DEF Launch
    <3>3. ~market.closed /\ request.deadline = CallLife
      BY <1>1, <3>1 DEF LaunchMade, BuildsLaunch, Plain
    <3>4. now <= request.deadline
      BY <1>1, <3>3, OneClock, LivesFit
    <3> QED
      BY <3>2, <3>3, <3>4 DEF Executes
  <2>3. ASSUME NEW token \in Tokens, NEW curve \in Curves, NEW in \in Amounts, BuyMade(token, curve, in)
        PROVE  Executes
    <3> DEFINE q == BuyQuote(market.curve, in)
               rate == (q.tokensOut * in) \div q.spent
               min == ApplySlippage(rate, built.slippage)
    <3>1. /\ LiveCurve(market, token, curve, FALSE) /\ BuyQuotable(market.curve, in)
          /\ built.slippage \in 0..MaxSlippage /\ in <= held.usdg
          /\ request = Plain(BuyCalls(market, curve, in, built.slippage), 0, CallLife)
      BY <1>1, <2>3 DEF BuyMade, BuildsBuy
    <3>2. main.fn = "buy" /\ main.amount = in /\ main.min = min
      BY <1>1, <2>3, BuyMain DEF BuyMinimum
    <3>3. in \in Nat /\ market.curve \in Curve
      BY <1>1, PolicyAssumption DEF PolicyInv, Types, WorldTypes, Market
    <3>4. q.tokensOut \in Nat /\ q.spent \in 1..in
      BY <3>1, <3>3, BuyQuoteBounds
    <3>5. rate \in Nat
      BY <3>1, <3>3, RateTypes
    <3> HIDE DEF q
    <3>6. q.spent * rate <= q.tokensOut * in
      <4>1. q.spent \in Nat /\ q.spent > 0 /\ q.tokensOut * in \in Int
        BY <3>3, <3>4, Z3
      <4> QED
        BY <4>1, Floor
    <3> HIDE DEF rate
    <3>7. min \in Nat /\ min <= rate
      <4>1. built.slippage \in 0..Bps
        BY <3>1, SlippageTypes
      <4> QED
        BY <3>5, <4>1, SlippageBounds
    <3> HIDE DEF min
    <3>8. (min * q.spent) \div in <= q.tokensOut
      <4>1. min * q.spent <= rate * q.spent /\ min * q.spent \in Int /\ in > 0
        BY <3>3, <3>4, <3>5, <3>7, Times, Z3
      <4>2. min * q.spent < (q.tokensOut + 1) * in
        BY <3>3, <3>4, <3>5, <3>6, <4>1, Z3
      <4> QED
        BY <3>3, <3>4, <4>1, <4>2, FloorAtMost
    <3>9. q.tokensOut >= (min * q.spent) \div in
      <4>1. (min * q.spent) \div in \in Int
        <5>1. min * q.spent \in Int /\ in > 0
          BY <3>3, <3>4, <3>7, Z3
        <5> QED
          BY <3>3, <5>1, Floor
      <4> QED
        BY <3>4, <3>8, <4>1
    <3>10. BuyFills
      BY <3>1, <3>2, <3>9 DEF BuyFills, CurveFillsBuy, LiveCurve, q
    <3>11. now <= request.deadline
      <4>1. request.deadline = CallLife
        BY <3>1 DEF Plain
      <4> QED
        BY <1>1, <4>1, OneClock, LivesFit
    <3> QED
      BY <3>2, <3>10, <3>11 DEF Executes
  <2>4. ASSUME NEW token \in Tokens, NEW curve \in Curves, NEW in \in Amounts, SellMade(token, curve, in)
        PROVE  Executes
    <3> DEFINE quoted == SellQuote(market.curve, in)
    <3>1. /\ LiveCurve(market, token, curve, TRUE) /\ SellQuotable(market.curve, in)
          /\ built.slippage \in 0..MaxSlippage /\ in <= held.token
          /\ request = Plain(SellCalls(market, token, curve, in, built.slippage), 0, CallLife)
      BY <1>1, <2>4 DEF SellMade, BuildsSell
    <3>2. main.fn = "sell" /\ main.amount = in /\ main.min = ApplySlippage(quoted, built.slippage)
      BY <1>1, <2>4, SellMain
    <3>3. in \in Nat /\ market.curve \in Curve
      BY <1>1, PolicyAssumption DEF PolicyInv, Types, WorldTypes, Market
    <3>4. quoted \in Nat /\ built.slippage \in 0..Bps
      BY <3>1, <3>3, SellBounds, SlippageTypes
    <3> HIDE DEF quoted
    <3>5. quoted >= ApplySlippage(quoted, built.slippage)
      BY <3>4, SlippageBounds
    <3>6. SellFills
      BY <3>1, <3>2, <3>5 DEF SellFills, CurveFillsSell, LiveCurve, quoted
    <3>7. now <= request.deadline
      <4>1. request.deadline = CallLife
        BY <3>1 DEF Plain
      <4> QED
        BY <1>1, <4>1, OneClock, LivesFit
    <3> QED
      BY <3>2, <3>6, <3>7 DEF Executes
  <2> QED
    BY <1>1, <2>1, <2>2, <2>3, <2>4 DEF ClientMade, TradeMade
<1>2. PolicyInv => QuotedTradeExecutes
  BY <1>1 DEF QuotedTradeExecutes
<1> QED
  BY <1>2, PolicyInvariant, PTL
=============================================================================
