------------------------------- MODULE Money -------------------------------
(***************************************************************************)
(* The arithmetic that decides where a deposit goes and what is written on *)
(* a wallet's record: the pure functions of programs/relstate/src/state.rs.*)
(*                                                                         *)
(* Amounts are natural numbers.  The two integer widths that matter are    *)
(* CONSTANTS: the record counters saturate at U32_MAX and U64_MAX, and the *)
(* products the code widens to u128 never wrap.                            *)
(***************************************************************************)
EXTENDS Integers

CONSTANTS U32_MAX,   \* largest u32
          U64_MAX    \* largest u64

ASSUME WidthAssumption == U32_MAX \in Nat /\ U64_MAX \in Nat

(* constants.rs: the values that do not depend on the build. *)
APPRAISER_FEE_CAP_DIVISOR  == 10
GOOD_STANDING_DISCOUNT_PCT == 50
RENT_HEADROOM_PCT          == 150
BPS_FULL                   == 10000

Smaller(a, b) == IF a <= b THEN a ELSE b

SatAdd(a, b, max) == Smaller(a + b, max)

-----------------------------------------------------------------------------
(* How a payout splits the deposit three ways. *)
Payee == {"tenant", "landlord", "appraiser"}
Split == [Payee -> Nat]

Shares(tenant, landlord, appraiser) ==
    [k \in Payee |-> CASE k = "tenant"    -> tenant
                       [] k = "landlord"  -> landlord
                       [] k = "appraiser" -> appraiser]

SplitTotal(s) == s["tenant"] + s["landlord"] + s["appraiser"]

BadFeeCapMissing(deposit) == deposit
AppraiserFeeCap(deposit) == deposit \div APPRAISER_FEE_CAP_DIVISOR

BadVerdictSplitNoClamp(deposit, deduction, agreedFee) ==
    LET fee == Smaller(agreedFee, AppraiserFeeCap(deposit))
    IN IF deduction * 2 > deposit
         THEN Shares(deposit - deduction - fee, deduction, fee)
         ELSE Shares(deposit - deduction, deduction - fee, fee)
(* "Loser pays", out of the deposit and nothing else. *)
VerdictSplit(deposit, deduction, agreedFee) ==
    LET refund       == deposit - deduction
        fee          == Smaller(agreedFee, AppraiserFeeCap(deposit))
        landlordWon  == deduction * 2 > deposit
        fromTenant   == Smaller(fee, refund)
        fromLandlord == Smaller(fee, deduction)
    IN IF landlordWon
         THEN Shares(refund - fromTenant, deduction, fromTenant)
         ELSE Shares(refund - (fee - fromLandlord), deduction - fromLandlord, fee)

BadPlainSplitOneLeg(deposit, deduction) == Shares(deposit - deduction, 0, 0)
(* A close with no appraiser: the deduction to the landlord, the rest back. *)
PlainSplit(deposit, deduction) == Shares(deposit - deduction, deduction, 0)

-----------------------------------------------------------------------------
(* The public record of a wallet. *)
Profile == [leases_completed: Nat, paid_on_time: Nat, paid_late: Nat,
            deposits_returned_full: Nat, deposit_total: Nat,
            deducted_total: Nat, defaults: Nat, deposits_claimed: Nat,
            rent_paid_total: Nat, last_deposit_return_bps: Int,
            deposit_events: Nat]

FreshProfile ==
    [leases_completed |-> 0, paid_on_time |-> 0, paid_late |-> 0,
     deposits_returned_full |-> 0, deposit_total |-> 0, deducted_total |-> 0,
     defaults |-> 0, deposits_claimed |-> 0, rent_paid_total |-> 0,
     last_deposit_return_bps |-> 0, deposit_events |-> 0]

ReturnBps(deposit, deduction) ==
    IF deposit = 0 THEN BPS_FULL
                   ELSE ((deposit - deduction) * BPS_FULL) \div deposit

RecordDepositOutcome(p, deposit, deduction) ==
    IF deposit = 0 THEN p
    ELSE [p EXCEPT
            !.last_deposit_return_bps = ReturnBps(deposit, deduction),
            !.deposit_total  = SatAdd(@, deposit, U64_MAX),
            !.deducted_total = SatAdd(@, deduction, U64_MAX),
            !.deposit_events = SatAdd(@, 1, U32_MAX)]

GoodStanding(p) == p.leases_completed >= 1 /\ p.paid_late = 0 /\ p.defaults = 0

TypicalRent(p) ==
    LET payments == p.paid_on_time + p.paid_late
    IN IF payments = 0 THEN 0 ELSE p.rent_paid_total \div payments

DeservesDiscount(p, rent) ==
    GoodStanding(p) /\ rent * 100 <= TypicalRent(p) * RENT_HEADROOM_PCT

DepositAfterDiscount(standard, discount) == (standard * (100 - discount)) \div 100
=============================================================================
