------------------------------ MODULE Preview ------------------------------
(***************************************************************************)
(* The numbers the web app shows before anything is signed: its own copies *)
(* of the verdict split, the discount and the top-up arithmetic            *)
(* (app/src/lib), beside the program's in Money and the backend's in       *)
(* providers/money.ts.  Quotients are exact: the app computes them in      *)
(* doubles, which carry amounts of this size without loss.                 *)
(***************************************************************************)
EXTENDS Money

CONSTANTS USDC_ONE,    \* base units in one rUSDC (10^6)
          RATE_ONE,    \* fixed-point scale of the PLN per USDC rate (10^6)
          CENT         \* base units in a hundredth of one rUSDC (10^4)

ASSUME ScaleAssumption ==
    /\ USDC_ONE \in Nat \ {0} /\ RATE_ONE \in Nat \ {0} /\ CENT \in Nat \ {0}
    /\ USDC_ONE = 100 * CENT

GROSZ_PER_PLN == 100

Larger(a, b) == IF a >= b THEN a ELSE b
CeilDiv(a, b) == (a + b - 1) \div b

-----------------------------------------------------------------------------
(* lib/mediation.ts *)
feeCap(deposit) == deposit \div APPRAISER_FEE_CAP_DIVISOR
feeFor(deposit, agreedFee) == Smaller(agreedFee, feeCap(deposit))

BadTieToLandlord(deposit, deduction) == IF 2 * deduction >= deposit THEN "tenant" ELSE "landlord"
feePayer(deposit, deduction) == IF 2 * deduction > deposit THEN "tenant" ELSE "landlord"

verdictSplit(deposit, deduction, fee) ==
    LET refund       == deposit - deduction
        fromLandlord == Smaller(fee, deduction)
    IN IF feePayer(deposit, deduction) = "tenant"
         THEN LET feePaid == Smaller(fee, refund)
              IN Shares(refund - feePaid, deduction, feePaid)
         ELSE Shares(refund - (fee - fromLandlord), deduction - fromLandlord, fee)

(* lib/chain.ts, lib/apartment.ts *)
maxDiscountRent(p)  == (TypicalRent(p) * RENT_HEADROOM_PCT) \div 100
qualifiesForDiscount(p, rent) == GoodStanding(p) /\ rent <= maxDiscountRent(p)
depositFor(standard, discount) ==
    IF discount = 0 THEN standard ELSE (standard * (100 - discount)) \div 100

-----------------------------------------------------------------------------
(* The public part of a top-up: lib/holdback.ts, screens/TopUp.tsx, and the *)
(* conversion the backend credits by.                                       *)
depositShortfall(public, deposit) == Larger(0, deposit - public)

plnToCover(base, rate, minPln) ==
    Larger(minPln, CeilDiv(base * rate, USDC_ONE * RATE_ONE))

plnToUsdc(grosz, rate) ==
    (grosz * USDC_ONE * RATE_ONE) \div (GROSZ_PER_PLN * rate)

(* What the screen believes the amount buys: whole cents, rounded down. *)
BadTopUpBaseRounded(grosz, rate) == (CeilDiv(grosz * RATE_ONE, rate)) * CENT
topUpBase(grosz, rate) == ((grosz * RATE_ONE) \div rate) * CENT

holdbackFor(bought, shortfall, default) ==
    IF shortfall > 0 THEN Smaller(shortfall, bought)
                     ELSE Larger(0, Smaller(default, bought))

(* start: refused when the lease's shortfall is not covered. *)
TopUpStarts(grosz, rate, shortfall) == topUpBase(grosz, rate) >= shortfall
(* checkout: refused when more should stay public than is bought. *)
CheckoutAccepts(grosz, rate, holdback) == holdback <= plnToUsdc(grosz, rate)
=============================================================================
