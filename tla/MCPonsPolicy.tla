---------------------------- MODULE MCPonsPolicy ----------------------------
(***************************************************************************)
(* One position on a small curve: 1000 against 1000, 300 of them for sale, *)
(* a launch-window tax of a fifth.  c2 is a lookalike: it says it trades   *)
(* t1, but the factory's curve for t1 is c1.                               *)
(***************************************************************************)
EXTENDS PonsPolicy

CONSTANTS t1, t2, c1, c2, d1, d2

MCCurveOf == [t \in Tokens |-> IF t = t1 THEN c1 ELSE c2]
MCTokenOf == [c \in Curves |-> t1]
MCPairOf == [c \in Curves |-> Usdg]
MCFactoryOf == [c \in Curves |-> Factory]

MCMarket ==
  [curve |-> [quote |-> 1000, token |-> 1000, sellable |-> 300, snipe |-> 2000],
   phase |-> 0, closed |-> FALSE, fee |-> 1, digest |-> 1]
MCHeld == [usdg |-> 700, token |-> 200]
MCSkews == -1..1
=============================================================================
