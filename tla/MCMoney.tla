------------------------------ MODULE MCMoney ------------------------------
(***************************************************************************)
(* The pure functions of Money and Preview over every small deposit,       *)
(* deduction and agreed fee.  The walk below reaches each triple once.     *)
(***************************************************************************)
EXTENDS Preview

CONSTANTS MaxDeposit, MaxFee,
          Rates         \* scaled PLN per USDC

ASSUME WalkAssumption == MaxDeposit \in Nat /\ MaxFee \in Nat /\ Rates \subseteq Nat \ {0}

VARIABLES deposit, deduction, fee
vars == <<deposit, deduction, fee>>

Init == deposit \in 1 .. MaxDeposit /\ deduction = 0 /\ fee = 0

MoreDeducted == /\ deduction < deposit /\ deduction' = deduction + 1
                /\ UNCHANGED <<deposit, fee>>
HigherFee    == /\ fee < MaxFee /\ fee' = fee + 1
                /\ UNCHANGED <<deposit, deduction>>
Exhausted    == deduction = deposit /\ fee = MaxFee /\ UNCHANGED vars

Next == MoreDeducted \/ HigherFee \/ Exhausted
Spec == Init /\ [][Next]_vars

(* verdict_split pays out exactly the deposit in three natural shares, the  *)
(* appraiser no more than agreed and no more than the cap; a landlord who   *)
(* won keeps the award untouched, and a tenant who won pays only what the   *)
(* landlord's share could not cover.                                        *)
VerdictSplitSound ==
    LET s      == VerdictSplit(deposit, deduction, fee)
        refund == deposit - deduction
    IN /\ s \in Split
       /\ SplitTotal(s) = deposit
       /\ s["appraiser"] <= fee /\ 10 * s["appraiser"] <= deposit
       /\ IF 2 * deduction > deposit
            THEN s["landlord"] = deduction
            ELSE s["landlord"] > 0 => s["tenant"] = refund

(* An appraiser who awards one unit more never leaves the landlord with     *)
(* less or the tenant with more, also across the half that decides who      *)
(* pays the fee.                                                            *)
VerdictMonotone ==
    deduction < deposit =>
        LET s == VerdictSplit(deposit, deduction, fee)
            t == VerdictSplit(deposit, deduction + 1, fee)
        IN t["landlord"] >= s["landlord"] /\ t["tenant"] <= s["tenant"]

(* A record shows a full return only if nothing was withheld.               *)
FullBpsMeansFullReturn ==
    /\ ReturnBps(deposit, deduction) \in 0 .. BPS_FULL
    /\ ReturnBps(deposit, deduction) = BPS_FULL <=> deduction = 0

(* The verdict: sound in itself, never perverse from one to the next, and   *)
(* recorded as a full return only when nothing was withheld.                *)
VerdictsSound == VerdictSplitSound /\ VerdictMonotone /\ FullBpsMeansFullReturn

(* The app shows the parties and the appraiser exactly the split that the   *)
(* program will pay, whatever fee was quoted: the two are separate code, in *)
(* two languages, and the tie, the cap and the clamp must all agree.        *)
PreviewIsPayout ==
    verdictSplit(deposit, deduction, feeFor(deposit, fee)) = VerdictSplit(deposit, deduction, fee)

(* A tenant's record after leases of deposit payments of deduction each,    *)
(* the last of them fee higher.                                             *)
walked == [FreshProfile EXCEPT !.leases_completed = 1, !.paid_on_time = deposit,
                               !.rent_paid_total = deposit * deduction + fee]
(* The discount the landlord is shown is the discount the program gives: at *)
(* no rent, rounded average or deposit do the two disagree.                 *)
DiscountShownIsGiven ==
    \A rent \in 1 .. 2 * MaxDeposit :
        LET program == DeservesDiscount(walked, rent)
            shown   == qualifiesForDiscount(walked, rent)
            pct     == IF program THEN GOOD_STANDING_DISCOUNT_PCT ELSE 0
        IN shown = program /\ depositFor(rent, pct) = DepositAfterDiscount(rent, pct)

(* What the app computes for itself before anybody signs is what the        *)
(* program will do: the split of a verdict and the discount of an offer.    *)
AppForesees == PreviewIsPayout /\ DiscountShownIsGiven

(* The amount in zloty that the app suggests for a shortfall buys at least  *)
(* that shortfall at the backend's rate, which rounds the other way.        *)
SuggestedTopUpCovers ==
    \A rate \in Rates :
        plnToUsdc(GROSZ_PER_PLN * plnToCover(deposit, rate, fee), rate) >= deposit

(* The suggested top-up is enough, and any top-up the screen starts for a   *)
(* lease keeps the whole shortfall public and is never refused at the       *)
(* checkout for holding back more than it buys, although the suggestion,    *)
(* the screen and the backend round to different units.                     *)
TopUpFundsDeposit ==
    /\ SuggestedTopUpCovers
    /\ \A rate \in Rates, grosz \in {deduction * 37, deduction * 100, deduction * 100 + fee} :
          LET holdback == holdbackFor(topUpBase(grosz, rate), deposit, 0)
          IN TopUpStarts(grosz, rate, deposit) =>
                 holdback = deposit /\ CheckoutAccepts(grosz, rate, holdback)
=============================================================================
