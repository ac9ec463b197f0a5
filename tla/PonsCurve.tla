----------------------------- MODULE PonsCurve -----------------------------
(***************************************************************************)
(* The integer arithmetic of a Pons bonding curve as the SDK reproduces it *)
(* (adapters/pons-v2.ts), and the curve itself, which is not in the        *)
(* repository, as that code takes it to be.                                *)
(*                                                                         *)
(* The code throws where a quote does not exist.  Here the Quotable        *)
(* predicates say when it does, and the operators are read only then.      *)
(***************************************************************************)
EXTENDS Integers

CONSTANTS
  FeeBps,         \* feeBps of the curve
  CreatorTaxBps   \* creatorTaxBps of the curve

Bps == 10000
MinBuyNetBps == 100

ASSUME CurveAssumption ==
  /\ {FeeBps, CreatorTaxBps} \subseteq Nat
  /\ FeeBps + CreatorTaxBps + MinBuyNetBps <= Bps

\* What the SDK reads from a curve: its reserves, what it may still sell, and
\* the launch-window tax of the moment.
Curve == [quote: Nat, token: Nat, sellable: Nat, snipe: Nat]

Share(amount, bps) == (amount * bps) \div Bps

CeilDiv(n, d) == (n + d - 1) \div d

AmountOut(in, reserveIn, reserveOut) == (in * reserveOut) \div (reserveIn + in)

OutQuotable(in, reserveIn, reserveOut) ==
  /\ in > 0 /\ reserveIn > 0 /\ reserveOut > 0
  /\ AmountOut(in, reserveIn, reserveOut) > 0

AmountIn(out, reserveIn, reserveOut) == (out * reserveIn) \div (reserveOut - out) + 1

InQuotable(out, reserveIn, reserveOut) ==
  out > 0 /\ reserveIn > 0 /\ reserveOut > out

(***************************************************************************)
(* quotePonsV2Buy.                                                         *)
(***************************************************************************)
SnipeTax(c) ==
  LET most == Bps - FeeBps - CreatorTaxBps - MinBuyNetBps
  IN  IF c.snipe > most THEN most ELSE c.snipe

Net(c, in) ==
  in - Share(in, FeeBps) - Share(in, CreatorTaxBps) - Share(in, SnipeTax(c))

FullOut(c, in) == AmountOut(Net(c, in), c.quote, c.token)

BuyQuotable(c, in) ==
  /\ in > 0
  /\ OutQuotable(Net(c, in), c.quote, c.token)
  /\ FullOut(c, in) > c.sellable => InQuotable(c.sellable, c.quote, c.token)

\* The fees are added back to the input a partial fill needs, rounded up, and
\* never beyond what the buyer offered.
Grossed(c) ==
  CeilDiv(AmountIn(c.sellable, c.quote, c.token) * Bps,
          Bps - FeeBps - CreatorTaxBps - SnipeTax(c))

BuyQuote(c, in) ==
  IF FullOut(c, in) <= c.sellable
  THEN [tokensOut |-> FullOut(c, in), spent |-> in]
  ELSE [tokensOut |-> c.sellable,
        spent |-> IF Grossed(c) < in THEN Grossed(c) ELSE in]

(***************************************************************************)
(* quotePonsV2Sell.                                                        *)
(***************************************************************************)
GrossSell(c, in) == AmountOut(in, c.token, c.quote)

SellQuote(c, in) ==
  GrossSell(c, in) - Share(GrossSell(c, in), FeeBps)
                   - Share(GrossSell(c, in), CreatorTaxBps)

SellQuotable(c, in) ==
  /\ OutQuotable(in, c.token, c.quote)
  /\ SellQuote(c, in) > 0

(***************************************************************************)
(* applySlippage and buyMinimumFromQuote.                                  *)
(***************************************************************************)
ApplySlippage(amount, slippage) == (amount * (Bps - slippage)) \div Bps

\* Mutant: the minimum of a partial fill is not brought to the rate of a full one.
PartialBuyMinimum(quote, in, slippage) == ApplySlippage(quote.tokensOut, slippage)

\* Mutant: one is added to the rate, as getAmountIn adds one to an input.
RoundedUpBuyMinimum(quote, in, slippage) ==
  ApplySlippage((quote.tokensOut * in) \div quote.spent + 1, slippage)

BuyMinimum(quote, in, slippage) ==
  ApplySlippage((quote.tokensOut * in) \div quote.spent, slippage)

(***************************************************************************)
(* The curve executes.  It scales the minimum by what a partial fill       *)
(* spends, as the comment on buyMinimumFromQuote says, and computes what   *)
(* the SDK reproduces.                                                     *)
(***************************************************************************)
CurveFillsBuy(c, in, min) ==
  /\ BuyQuotable(c, in)
  /\ LET q == BuyQuote(c, in) IN q.tokensOut >= (min * q.spent) \div in

AfterBuy(c, in) ==
  LET q == BuyQuote(c, in)
  IN  [c EXCEPT !.quote = @ + Net(c, q.spent),
                !.token = @ - q.tokensOut,
                !.sellable = @ - q.tokensOut]

CurveFillsSell(c, in, min) == SellQuotable(c, in) /\ SellQuote(c, in) >= min

AfterSell(c, in) ==
  [c EXCEPT !.quote = @ - GrossSell(c, in), !.token = @ + in, !.sellable = @ + in]
=============================================================================
