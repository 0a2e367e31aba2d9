-------------------------- MODULE MCMoneyProofs --------------------------
(***************************************************************************)
(* The properties that MCMoney checks up to MaxDeposit, for every deposit. *)
(***************************************************************************)
EXTENDS MCMoney, MoneyProofs

(* The walk only ever stands on a legal triple.                             *)
LegalTriple == deposit \in Nat \ {0} /\ deduction \in 0 .. deposit /\ fee \in Nat

LEMMA TripleInvariant == Spec => []LegalTriple
<1>1. Init => LegalTriple
  BY DEF Init, LegalTriple
<1>2. LegalTriple /\ [Next]_vars => LegalTriple'
  BY DEF LegalTriple, Next, MoreDeducted, HigherFee, Exhausted, vars
<1> QED
  BY <1>1, <1>2, PTL DEF Spec

(* Every verdict pays out exactly the deposit, within the agreed fee and    *)
(* the cap, and the loser pays (verdict_split).                             *)
THEOREM VerdictSplitSoundHolds == Spec => []VerdictSplitSound
<1>1. LegalTriple => VerdictSplitSound
  BY VerdictSplitConserves DEF LegalTriple, VerdictSplitSound
<1> QED
  BY <1>1, TripleInvariant, PTL

(* A larger award never hurts the landlord or helps the tenant.             *)
THEOREM VerdictMonotoneHolds == Spec => []VerdictMonotone
<1>1. LegalTriple => VerdictMonotone
  BY VerdictSplitMonotone DEF LegalTriple, VerdictMonotone
<1> QED
  BY <1>1, TripleInvariant, PTL

(* A full return rate is written for a full return only (return_bps).       *)
THEOREM FullBpsHolds == Spec => []FullBpsMeansFullReturn
<1>1. LegalTriple => FullBpsMeansFullReturn
  BY ReturnBpsIsARate DEF LegalTriple, FullBpsMeansFullReturn
<1> QED
  BY <1>1, TripleInvariant, PTL

(* All three, for every deposit, deduction and agreed fee (verdict_split,   *)
(* return_bps).                                                             *)
THEOREM VerdictsAreSound == Spec => []VerdictsSound
<1>1. VerdictSplitSound /\ VerdictMonotone /\ FullBpsMeansFullReturn => VerdictsSound
  BY DEF VerdictsSound
<1> QED
  BY <1>1, VerdictSplitSoundHolds, VerdictMonotoneHolds, FullBpsHolds, PTL

-----------------------------------------------------------------------------
(* What the app computes beside the program.                                *)

(* A bound on a quotient is a bound on the dividend.                        *)
LEMMA AtMostQuotient ==
    ASSUME NEW a \in Nat, NEW n \in Nat, NEW b \in Nat \ {0}
    PROVE  a <= n \div b <=> b * a <= n
<1> DEFINE q == n \div b
<1>1. q \in Nat /\ b * q <= n /\ n < b * q + b
  BY QuotientBounds
<1> HIDE DEF q
<1>2. a <= q => b * a <= b * q /\ b * a \in Nat /\ b * q \in Nat
  BY <1>1
<1>3. a >= q + 1 => b * a >= b * q + b /\ b * a \in Nat /\ b * q \in Nat
  BY <1>1
<1> QED BY <1>1, <1>2, <1>3 DEF q

(* The discount the landlord is shown is the discount the program gives. *)
LEMMA DiscountForeseen ==
    ASSUME NEW d \in Nat \ {0}, NEW k \in Nat, NEW f \in Nat, NEW rent \in Nat, NEW p,
           p = [FreshProfile EXCEPT !.leases_completed = 1, !.paid_on_time = d,
                                    !.rent_paid_total = d * k + f]
    PROVE  /\ qualifiesForDiscount(p, rent) <=> DeservesDiscount(p, rent)
           /\ \A pct \in {0, GOOD_STANDING_DISCOUNT_PCT} :
                 depositFor(rent, pct) = DepositAfterDiscount(rent, pct)
<1>1. TypicalRent(p) = (d * k + f) \div d /\ d * k + f \in Nat
  BY DEF TypicalRent, FreshProfile
<1>2. TypicalRent(p) \in Nat
  BY <1>1, QuotientBounds
<1>3. rent <= (TypicalRent(p) * 150) \div 100 <=> rent * 100 <= TypicalRent(p) * 150
  BY <1>2, AtMostQuotient
<1>4. rent = (rent * 100) \div 100
  OBVIOUS
<1> QED BY <1>3, <1>4 DEF qualifiesForDiscount, maxDiscountRent, DeservesDiscount, RENT_HEADROOM_PCT,
                          depositFor, DepositAfterDiscount, GOOD_STANDING_DISCOUNT_PCT

(* What the screens show before anybody signs is what the program will do:  *)
(* the split of a verdict, with its tie, cap and clamp, and the discount of *)
(* an offer, for every deposit, deduction, fee, rent and record of payments.*)
THEOREM AppForeseesHolds == Spec => []AppForesees
<1>1. LegalTriple => PreviewIsPayout
  BY SplitForeseen DEF LegalTriple, PreviewIsPayout
<1>2. LegalTriple => DiscountShownIsGiven
  <2> SUFFICES ASSUME LegalTriple, NEW rent \in 1 .. 2 * MaxDeposit
               PROVE  LET program == DeservesDiscount(walked, rent)
                          shown   == qualifiesForDiscount(walked, rent)
                          pct     == IF program THEN GOOD_STANDING_DISCOUNT_PCT ELSE 0
                      IN shown = program /\ depositFor(rent, pct) = DepositAfterDiscount(rent, pct)
    BY DEF DiscountShownIsGiven
  <2>1. rent \in Nat /\ deposit \in Nat \ {0} /\ deduction \in Nat /\ fee \in Nat
    BY WalkAssumption DEF LegalTriple
  <2>2. PICK p : p = walked
    OBVIOUS
  <2>3. /\ qualifiesForDiscount(p, rent) <=> DeservesDiscount(p, rent)
        /\ \A pct \in {0, GOOD_STANDING_DISCOUNT_PCT} :
              depositFor(rent, pct) = DepositAfterDiscount(rent, pct)
    BY <2>1, <2>2, DiscountForeseen DEF walked
  <2>4. qualifiesForDiscount(p, rent) \in BOOLEAN /\ DeservesDiscount(p, rent) \in BOOLEAN
    BY DEF qualifiesForDiscount, DeservesDiscount
  <2>5. qualifiesForDiscount(p, rent) = DeservesDiscount(p, rent)
    BY <2>3, <2>4
  <2> QED BY <2>2, <2>3, <2>5
<1>3. LegalTriple => AppForesees
  BY <1>1, <1>2 DEF AppForesees
<1> QED BY <1>3, TripleInvariant, PTL

-----------------------------------------------------------------------------
(* Zloty to base units and back.  What a top-up buys, in the units of the   *)
(* backend, is at least what the screen counts, in whole cents.             *)
LEMMA ProductsOrdered ==
    ASSUME NEW a \in Nat, NEW b \in Nat, NEW c \in Nat, a <= b
    PROVE  a * c <= b * c
  OBVIOUS

LEMMA Regrouped ==
    ASSUME NEW a \in Nat, NEW b \in Nat, NEW c \in Nat
    PROVE  a * b \in Nat /\ a * b = b * a /\ (a * b) * c = a * (b * c)
  OBVIOUS

LEMMA BoughtAtLeast ==
    ASSUME NEW n \in Nat, NEW grosz \in Nat, NEW rate \in Nat \ {0},
           n * rate <= (grosz * RATE_ONE) * CENT
    PROVE  n <= plnToUsdc(grosz, rate)
<1>1. RATE_ONE \in Nat /\ CENT \in Nat /\ USDC_ONE = 100 * CENT
  BY ScaleAssumption
<1> DEFINE gr == grosz * RATE_ONE
<1>2. gr \in Nat /\ gr * CENT \in Nat /\ n * rate \in Nat
  BY <1>1, Regrouped
<1>3. (grosz * USDC_ONE) * RATE_ONE = 100 * (gr * CENT)
  <2>1. grosz * USDC_ONE = 100 * (grosz * CENT)
    BY <1>1
  <2>2. (grosz * CENT) * RATE_ONE = gr * CENT
    BY <1>1
  <2>3. grosz * CENT \in Nat
    BY <1>1, Regrouped
  <2>4. (100 * (grosz * CENT)) * RATE_ONE = 100 * ((grosz * CENT) * RATE_ONE)
    <3>1. PICK x \in Nat : x = grosz * CENT
      BY <2>3
    <3>2. (100 * x) * RATE_ONE = 100 * (x * RATE_ONE)
      BY <1>1
    <3> QED BY <3>1, <3>2
  <2> QED BY <2>1, <2>2, <2>4
<1>4. (100 * rate) * n <= 100 * (gr * CENT)
  <2>1. (100 * rate) * n = 100 * (n * rate)
    OBVIOUS
  <2> QED BY <1>2, <2>1
<1>5. 100 * rate \in Nat \ {0} /\ 100 * (gr * CENT) \in Nat
  BY <1>2
<1> HIDE DEF gr
<1>6. n <= (100 * (gr * CENT)) \div (100 * rate)
  BY <1>4, <1>5, AtMostQuotient
<1> QED BY <1>3, <1>6 DEF plnToUsdc, GROSZ_PER_PLN

LEMMA CountedIsBought ==
    ASSUME NEW grosz \in Nat, NEW rate \in Nat \ {0}
    PROVE  topUpBase(grosz, rate) \in Nat /\ topUpBase(grosz, rate) <= plnToUsdc(grosz, rate)
<1>1. RATE_ONE \in Nat /\ CENT \in Nat
  BY ScaleAssumption
<1> DEFINE gr == grosz * RATE_ONE
           q == gr \div rate
<1>2. gr \in Nat
  BY <1>1, Regrouped
<1>3. q \in Nat /\ rate * q <= gr
  <2> HIDE DEF gr
  <2> QED BY <1>2, QuotientBounds
<1> HIDE DEF q
<1>4. (rate * q) * CENT <= gr * CENT
  <2>1. rate * q \in Nat
    BY <1>3, Regrouped
  <2> HIDE DEF gr
  <2> QED BY <1>1, <1>2, <1>3, <2>1, ProductsOrdered
<1>5. q * CENT \in Nat /\ (q * CENT) * rate = (rate * q) * CENT
  BY <1>1, <1>3
<1>6. q * CENT <= plnToUsdc(grosz, rate)
  BY <1>4, <1>5, BoughtAtLeast
<1> QED BY <1>5, <1>6 DEF topUpBase, q

LEMMA SuggestionCovers ==
    ASSUME NEW base \in Nat, NEW rate \in Nat \ {0}, NEW least \in Nat
    PROVE  plnToUsdc(GROSZ_PER_PLN * plnToCover(base, rate, least), rate) >= base
<1>1. /\ RATE_ONE \in Nat \ {0} /\ CENT \in Nat \ {0} /\ USDC_ONE = 100 * CENT
      /\ USDC_ONE \in Nat \ {0}
  BY ScaleAssumption
<1> DEFINE b == USDC_ONE * RATE_ONE
           n == base * rate
           q == (n + b - 1) \div b
           p == plnToCover(base, rate, least)
<1>2. b \in Nat \ {0} /\ n \in Nat
  BY <1>1
<1>3. q \in Nat /\ n <= b * q
  <2> HIDE DEF b, n
  <2>1. n + b - 1 \in Nat
    BY <1>2
  <2>2. q \in Nat /\ n + b - 1 < b * q + b
    BY <1>2, <2>1, QuotientBounds
  <2> HIDE DEF q
  <2>3. b * q \in Nat
    BY <1>2, <2>2, Regrouped
  <2> QED BY <1>2, <2>2, <2>3
<1>4. p = Larger(least, q)
  BY DEF plnToCover, CeilDiv
<1>5. p \in Nat /\ q <= p
  <2> HIDE DEF p, q
  <2> QED BY <1>3, <1>4 DEF Larger
<1> HIDE DEF p, q
<1>6. b * q <= p * b
  <2> HIDE DEF b
  <2>1. q * b <= p * b
    BY <1>2, <1>3, <1>5, ProductsOrdered
  <2> QED BY <1>2, <1>3, <2>1, Regrouped
<1>7. p * b = ((100 * p) * RATE_ONE) * CENT
  <2>1. b = 100 * (CENT * RATE_ONE) /\ CENT * RATE_ONE \in Nat
    BY <1>1
  <2>2. PICK x \in Nat : x = CENT * RATE_ONE
    BY <2>1
  <2>3. p * (100 * x) = (100 * p) * x
    BY <1>5
  <2>4. (100 * p) * x = ((100 * p) * RATE_ONE) * CENT
    BY <1>1, <1>5, <2>2
  <2> QED BY <2>1, <2>2, <2>3, <2>4
<1>8. base * rate <= ((100 * p) * RATE_ONE) * CENT
  <2>1. b * q \in Nat /\ p * b \in Nat
    BY <1>2, <1>3, <1>5, Regrouped
  <2> HIDE DEF b
  <2> QED BY <1>2, <1>3, <1>6, <1>7, <2>1
<1>9. 100 * p \in Nat
  BY <1>5
<1>10. base <= plnToUsdc(100 * p, rate)
  BY <1>8, <1>9, BoughtAtLeast
<1>11. plnToUsdc(100 * p, rate) \in Nat
  <2>1. ((100 * p) * USDC_ONE) * RATE_ONE \in Nat /\ 100 * rate \in Nat \ {0}
    BY <1>1, <1>9, Regrouped
  <2> QED BY <2>1, QuotientBounds DEF plnToUsdc, GROSZ_PER_PLN
<1> QED BY <1>10, <1>11 DEF p, GROSZ_PER_PLN

(* The suggested top-up is enough, and one the screen starts for a lease    *)
(* keeps the whole shortfall public and is never refused at the checkout,   *)
(* at every rate, though the three round to different units.                *)
THEOREM TopUpFundsDepositHolds == Spec => []TopUpFundsDeposit
<1>1. LegalTriple => TopUpFundsDeposit
  <2> SUFFICES ASSUME LegalTriple, NEW rate \in Rates,
                      NEW grosz \in {deduction * 37, deduction * 100, deduction * 100 + fee}
               PROVE  /\ plnToUsdc(GROSZ_PER_PLN * plnToCover(deposit, rate, fee), rate) >= deposit
                      /\ LET holdback == holdbackFor(topUpBase(grosz, rate), deposit, 0)
                         IN TopUpStarts(grosz, rate, deposit) =>
                                holdback = deposit /\ CheckoutAccepts(grosz, rate, holdback)
    BY DEF TopUpFundsDeposit, SuggestedTopUpCovers
  <2>1. /\ rate \in Nat \ {0} /\ grosz \in Nat
        /\ deposit \in Nat \ {0} /\ fee \in Nat
    BY WalkAssumption DEF LegalTriple
  <2>2. plnToUsdc(GROSZ_PER_PLN * plnToCover(deposit, rate, fee), rate) >= deposit
    BY <2>1, SuggestionCovers
  <2>3. /\ topUpBase(grosz, rate) \in Nat /\ plnToUsdc(grosz, rate) \in Int
        /\ topUpBase(grosz, rate) <= plnToUsdc(grosz, rate)
    <3>1. (grosz * USDC_ONE) * RATE_ONE \in Nat /\ 100 * rate \in Nat \ {0}
      BY <2>1, ScaleAssumption, Regrouped
    <3>2. plnToUsdc(grosz, rate) \in Nat
      BY <3>1, QuotientBounds DEF plnToUsdc, GROSZ_PER_PLN
    <3> QED BY <2>1, <3>2, CountedIsBought
  <2>4. ASSUME TopUpStarts(grosz, rate, deposit)
        PROVE  /\ holdbackFor(topUpBase(grosz, rate), deposit, 0) = deposit
               /\ deposit <= plnToUsdc(grosz, rate)
    <3>1. topUpBase(grosz, rate) >= deposit
      BY <2>4 DEF TopUpStarts
    <3> QED BY <2>1, <2>3, <3>1 DEF holdbackFor, Smaller
  <2> QED BY <2>2, <2>4 DEF CheckoutAccepts
<1> QED BY <1>1, TripleInvariant, PTL
=============================================================================
