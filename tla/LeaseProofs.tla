---------------------------- MODULE LeaseProofs ----------------------------
(***************************************************************************)
(* Proofs about Lease, the Invites beside it and the Screens on it, for    *)
(* every value of their constants.                                         *)
(*                                                                         *)
(* The invariants are proved in layers, each inductive relative to the one *)
(* before: types, then the money and the bookkeeping of a dispute, then    *)
(* the clocks, then the selection of an appraiser, then what an invitation *)
(* and a view of the app still say of it.                                  *)
(***************************************************************************)
EXTENDS Invites, Screens, MoneyProofs

-----------------------------------------------------------------------------
(* Lemmas on the operators.                                                 *)

LEMMA EmptySplit == Shares(0, 0, 0) \in Split /\ SplitTotal(Shares(0, 0, 0)) = 0
BY SharesType, SharesFields DEF SplitTotal

LEMMA SplitTotalType == ASSUME NEW s \in Split PROVE SplitTotal(s) \in Nat
BY DEF Split, Payee, SplitTotal

(* Adding a split to what was paid adds the totals.                         *)
LEMMA SplitSum ==
    ASSUME NEW s \in Split, NEW t \in Split
    PROVE  LET u == [k \in Payee |-> s[k] + t[k]]
           IN /\ u \in Split
              /\ SplitTotal(u) = SplitTotal(s) + SplitTotal(t)
BY DEF Split, Payee, SplitTotal

LEMMA DeadlinesType ==
    ASSUME TypeOK
    PROVE  /\ end_ts \in Nat /\ claim_deadline \in Nat
           /\ dispute_deadline \in Nat /\ due \in Nat
           /\ resumed_pause \in Nat
<1>1. /\ start_ts \in Nat /\ paid_count \in Nat /\ now \in Nat /\ disputed_at \in Nat
      /\ claim_pause_secs \in Nat /\ terms.term \in Nat /\ terms.period \in Nat
  BY DEF TypeOK
<1>2. terms.term * terms.period \in Nat /\ paid_count * terms.period \in Nat
  BY <1>1
<1>3. CLAIM_WINDOW_SECS \in Nat /\ DISPUTE_WINDOW_SECS \in Nat
  BY LeaseAssumption
<1> QED
  BY <1>1, <1>2, <1>3
     DEF end_ts, claim_deadline, dispute_deadline, due, resumed_pause

(* mark_default: when the landlord may seize, at least one period is owed,  *)
(* so the subtraction does not go below zero and the seizure is at most the *)
(* deposit.                                                                 *)
LEMMA SeizedBounds ==
    ASSUME TypeOK, terms.period # 0, paid_count < terms.term, start_ts <= now,
           now > due + terms.grace + terms.period
    PROVE  seized \in Nat /\ seized <= terms.deposit
<1> DEFINE P == terms.period
           q == (now - start_ts) \div P
<1>1. /\ P \in Nat \ {0} /\ now \in Nat /\ start_ts \in Nat /\ paid_count \in Nat
      /\ terms.term \in Nat /\ terms.grace \in Nat /\ terms.rent \in Nat
      /\ terms.deposit \in Nat /\ now - start_ts \in Nat
  BY DEF TypeOK
<1>2. q \in Nat /\ now - start_ts < P * q + P
  BY <1>1, QuotientBounds
<1>3. paid_count * P <= now - start_ts /\ paid_count * P \in Nat
  BY <1>1 DEF due
<1> HIDE DEF q
<1>4. paid_count <= q
  <2> SUFFICES ASSUME q + 1 <= paid_count PROVE FALSE
    BY <1>1, <1>2
  <2> HIDE DEF P
  <2>1. P * (q + 1) <= P * paid_count
    BY <1>1, <1>2
  <2> QED
    BY <1>1, <1>2, <1>3, <2>1
<1>5. due_periods = Smaller(q + 1, terms.term)
  BY DEF due_periods, q
<1>6. due_periods - paid_count \in Nat
  BY <1>1, <1>2, <1>4, <1>5 DEF Smaller
<1>7. (due_periods - paid_count) * terms.rent \in Nat
  BY <1>1, <1>6
<1>8. owed \in Nat
  BY <1>7, WidthAssumption DEF owed, Smaller
<1> QED
  BY <1>1, <1>8 DEF seized, Smaller

-----------------------------------------------------------------------------
(* Layer 1: types.  MarkDefault divides by the period and the record        *)
(* divides by the deposit, so the terms must be sound; and no stamp lies in *)
(* the future.                                                              *)
TermsSound == status # "None" => terms.deposit # 0 /\ terms.period # 0
StampsPast == start_ts <= now /\ disputed_at <= now
TypeInv == TypeOK /\ TermsSound /\ StampsPast

LEMMA InitType == Init => TypeInv
<1> SUFFICES ASSUME Init PROVE TypeInv
  OBVIOUS
<1>1. FreshProfile \in Profile
  BY DEF FreshProfile, Profile
<1>2. PICK h \in TenantHistories :
         profile = [p \in Party |-> IF p = "tenant" THEN h ELSE FreshProfile]
  BY DEF Init
<1>3. profile \in [Party -> Profile]
  BY <1>1, <1>2, LeaseAssumption
<1>4. payout \in Split
  BY EmptySplit DEF Init
<1>5. terms \in [rent: Nat, deposit: Nat, term: Nat, period: Nat, grace: Nat,
                 mint: Mints \cup {NoMint}, discount: Nat]
  BY DEF Init, NoTerms
<1> QED
  BY <1>3, <1>4, <1>5
     DEF Init, TypeInv, TypeOK, TermsSound, StampsPast, Status, MAX_DISPUTE_ROUNDS

(* What the two closing helpers leave typed.                                *)
LEMMA PayOutType ==
    ASSUME TypeOK, NEW split \in Split, NEW signers \in SUBSET Wallet,
           PayOutVault(split, signers)
    PROVE  vault' \in Nat /\ payout' \in Split /\ closedBy' \subseteq Wallet
<1>1. vault' \in Nat
  BY SplitTotalType DEF PayOutVault, TypeOK
<1>2. payout' \in Split
  BY SplitSum DEF PayOutVault, TypeOK
<1> QED
  BY <1>1, <1>2 DEF PayOutVault

LEMMA RecordUpdateType ==
    ASSUME NEW p \in Profile
    PROVE  /\ [p EXCEPT !.leases_completed = SatAdd(@, 1, U32_MAX)] \in Profile
           /\ [p EXCEPT !.deposits_returned_full = SatAdd(@, 1, U32_MAX)] \in Profile
           /\ [p EXCEPT !.deposits_claimed = SatAdd(@, 1, U32_MAX)] \in Profile
           /\ [p EXCEPT !.defaults = SatAdd(@, 1, U32_MAX)] \in Profile
<1>1. \A n \in Nat : SatAdd(n, 1, U32_MAX) \in Nat
  BY SatAddType, WidthAssumption
<1> QED
  BY <1>1 DEF Profile

LEMMA CloseWithType ==
    ASSUME TypeOK, NEW split \in Split, NEW deduction \in Nat,
           NEW signers \in SUBSET Wallet, CloseWith(split, deduction, signers)
    PROVE  /\ vault' \in Nat /\ payout' \in Split /\ closedBy' \subseteq Wallet
           /\ profile' \in [Party -> Profile]
<1>1. \A p \in Party : RecordDepositOutcome(profile[p], terms.deposit, deduction) \in Profile
  BY RecordDepositOutcomeType DEF CloseWith, TypeOK
<1>2. ASSUME NEW r \in Profile
      PROVE  [r EXCEPT
                !.leases_completed = SatAdd(@, 1, U32_MAX),
                !.deposits_returned_full =
                   IF full_return(split, deduction) THEN SatAdd(@, 1, U32_MAX) ELSE @]
             \in Profile
  <2>1. \A n \in Nat : SatAdd(n, 1, U32_MAX) \in Nat
    BY SatAddType, WidthAssumption
  <2> QED
    BY <2>1 DEF Profile
<1>3. profile' \in [Party -> Profile]
  BY <1>1, <1>2 DEF CloseWith
<1> QED
  BY <1>3, PayOutType DEF CloseWith

(* A close re-establishes layer 1 on its own.                               *)
LEMMA CloseWithTypeInv ==
    ASSUME TypeInv, status # "None", NEW split \in Split, NEW deduction \in Nat,
           NEW signers \in SUBSET Wallet, CloseWith(split, deduction, signers),
           dispute' \in Dispute \cup {NoDispute}
    PROVE  TypeInv'
<1>1. /\ vault' \in Nat /\ payout' \in Split /\ closedBy' \subseteq Wallet
      /\ profile' \in [Party -> Profile]
  BY CloseWithType DEF TypeInv
<1>2. /\ now' = now /\ cleared' = cleared /\ activeSecs' = activeSecs /\ terms' = terms
      /\ start_ts' = start_ts /\ paid_count' = paid_count
      /\ rent_received' = rent_received /\ claim_pause_secs' = claim_pause_secs
      /\ dispute_rounds' = dispute_rounds /\ endorsed' = endorsed
      /\ status' = "Closed" /\ proposed_deduction' = 0 /\ disputed_at' = 0
  BY DEF CloseWith, clockVars, stretchVars
<1>3. TypeOK'
  BY <1>1, <1>2 DEF TypeInv, TypeOK, Status
<1> QED
  BY <1>2, <1>3 DEF TypeInv, TypeOK, TermsSound, StampsPast

LEMMA RentRecordedType ==
    ASSUME NEW p \in Profile, terms.rent \in Nat
    PROVE  RentRecorded(p) \in Profile
<1> DEFINE total == p.rent_paid_total + terms.rent
           early == IF on_time THEN p.paid_on_time + 1 ELSE p.paid_on_time
           late  == IF on_time THEN p.paid_late ELSE p.paid_late + 1
<1>1. total \in Nat /\ early \in Nat /\ late \in Nat
  BY DEF Profile
<1>2. RentRecorded(p) = [p EXCEPT !.rent_paid_total = total, !.paid_on_time = early,
                                  !.paid_late = late]
  BY DEF RentRecorded
<1> HIDE DEF total, early, late
<1> QED
  BY <1>1, <1>2 DEF Profile

(* Dispute::lowest_fee: for a company that stands on a list the minimum     *)
(* exists, so the unwrap_or(0) of pick_appraiser is never reached.          *)
LEMMA LowestFeeExists ==
    ASSUME NEW d \in Dispute, NEW n, was_proposed(d, n)
    PROVE  /\ lowest_fee(d, n) \in fees_for(d, n)
           /\ \A f \in fees_for(d, n) : lowest_fee(d, n) <= f
           /\ lowest_fee(d, n) \in Nat
<1>1. all_candidates(d) \subseteq Candidate
  BY DEF all_candidates, Dispute, Party
<1>2. fees_for(d, n) \subseteq Nat
  BY <1>1 DEF fees_for, Candidate
<1>3. fees_for(d, n) # {}
  BY DEF was_proposed, fees_for
<1>4. \E x \in fees_for(d, n) : \A y \in fees_for(d, n) : x <= y
  BY <1>2, <1>3, LowestExists
<1>5. /\ lowest_fee(d, n) \in fees_for(d, n)
      /\ \A f \in fees_for(d, n) : lowest_fee(d, n) <= f
  BY <1>4 DEF lowest_fee
<1> QED
  BY <1>2, <1>5

(* A selection instruction writes the Dispute account, keeps its type and   *)
(* never closes it.                                                         *)
LEMMA SelectionType ==
    ASSUME TypeInv, NEW p \in Party, SelectionBy(p)
    PROVE  /\ dispute \in Dispute /\ dispute' \in Dispute
           /\ endorsed' \subseteq Party \X Wallet
           /\ UnchangedBySelection
           /\ require_selection_open
<1>0. dispute \in Dispute \cup {NoDispute} /\ endorsed \subseteq Party \X Wallet
      /\ now \in Nat
  BY DEF TypeInv, TypeOK
<1>1. ASSUME NEW list \in CandidateLists, ProposeAppraisers(p, list)
      PROVE  dispute' \in Dispute /\ dispute \in Dispute
  <2>1. {[name |-> Canon[c.spelling], fee |-> c.fee] : c \in list} \subseteq Candidate
    <3>1. \A c \in list : Canon[c.spelling] # NoName
      BY <1>1 DEF ProposeAppraisers, list_allowed
    <3>2. list \subseteq [spelling: Spellings, fee: Nat]
          /\ Canon \in [Spellings -> Names \cup {NoName}]
      BY LeaseAssumption
    <3> QED BY <3>1, <3>2 DEF Candidate
  <2>2. dispute \in Dispute
    BY <1>0, <1>1 DEF ProposeAppraisers, require_selection_open
  <2> QED
    BY <1>1, <2>1, <2>2 DEF ProposeAppraisers, Dispute
<1>2. ASSUME NEW s \in Spellings, PickAppraiser(p, s)
      PROVE  dispute' \in Dispute /\ dispute \in Dispute
  <2> DEFINE name == Canon[s]
             picked == [dispute EXCEPT !.pick[p] = name]
  <2>1. dispute \in Dispute /\ name \in Names
    BY <1>0, <1>2, LeaseAssumption DEF PickAppraiser, require_selection_open
  <2>2. picked \in Dispute
    BY <2>1 DEF Dispute
  <2>3. lowest_fee(dispute, name) \in Nat
    BY <1>2, <2>1, LowestFeeExists DEF PickAppraiser
  <2>4. [picked EXCEPT !.agreed_name = name,
                       !.agreed_fee = lowest_fee(dispute, name)] \in Dispute
    BY <2>1, <2>2, <2>3 DEF Dispute
  <2> QED
    BY <1>2, <2>1, <2>2, <2>4 DEF PickAppraiser
<1>3. ASSUME NEW w \in Wallet \cup {NoKey}, ProposeAppraiserKey(p, w)
      PROVE  dispute' \in Dispute /\ dispute \in Dispute /\ w \in Wallet
  <2>1. dispute \in Dispute /\ w \in Wallet
    BY <1>0, <1>3 DEF ProposeAppraiserKey, require_selection_open
  <2> DEFINE spent == [dispute.key_proposals EXCEPT ![p] = @ + 1]
  <2>2. spent \in [Party -> Nat]
    BY <2>1 DEF Dispute
  <2>3. dispute' = [dispute EXCEPT !.key_proposals = spent, !.proposed_key = w,
                                   !.key_proposer = p]
    BY <1>3, <2>1 DEF ProposeAppraiserKey, Dispute
  <2> HIDE DEF spent
  <2> QED
    BY <2>1, <2>2, <2>3 DEF Dispute
<1>4. ASSUME NEW w \in Wallet \cup {NoKey}, ConfirmAppraiserKey(p, w)
      PROVE  dispute' \in Dispute /\ dispute \in Dispute /\ w \in Wallet
  <2>1. dispute \in Dispute /\ w \in Wallet /\ now + VERDICT_WINDOW_SECS \in Nat
    BY <1>0, <1>4, LeaseAssumption
       DEF ConfirmAppraiserKey, confirms_proposal, require_selection_open, Dispute
  <2> QED
    BY <1>4, <2>1 DEF ConfirmAppraiserKey, Dispute
<1>5. dispute \in Dispute /\ dispute' \in Dispute
  BY <1>1, <1>2, <1>3, <1>4 DEF SelectionBy
<1>6. endorsed' \subseteq Party \X Wallet
  <2>1. \/ endorsed' = endorsed
        \/ \E w \in Wallet : endorsed' = endorsed \cup {<<p, w>>}
    BY <1>3, <1>4 DEF SelectionBy, ProposeAppraisers, PickAppraiser,
                      ProposeAppraiserKey, ConfirmAppraiserKey
  <2> QED
    BY <1>0, <2>1
<1>7. UnchangedBySelection /\ require_selection_open
  BY DEF SelectionBy, ProposeAppraisers, PickAppraiser, ProposeAppraiserKey,
         ConfirmAppraiserKey
<1> QED
  BY <1>5, <1>6, <1>7

(* Every action keeps layer 1.                                              *)
LEMMA TypeStep == TypeInv /\ [Next]_vars => TypeInv'
<1> SUFFICES ASSUME TypeInv, [Next]_vars PROVE TypeInv'
  OBVIOUS
<1> USE DEF TypeInv, TypeOK, TermsSound, StampsPast
<1> USE DEF clockVars, stretchVars, claimVars, moneyVars, recordVars
<1>1. ASSUME NEW o \in Offers, ProposeLease(o) PROVE TypeInv'
  <2> DEFINE discount == IF DeservesDiscount(profile["tenant"], o.rent)
                           THEN GOOD_STANDING_DISCOUNT_PCT ELSE 0
             d == DepositAfterDiscount(o.standard_deposit, discount)
  <2>1. o \in Offer /\ MIN_PERIOD_SECS \in Nat \ {0}
    BY LeaseAssumption
  <2>2. discount \in 0 .. 100
    BY DEF GOOD_STANDING_DISCOUNT_PCT
  <2>3. d \in Nat
    <3>1. o.standard_deposit * (100 - discount) \in Nat
      BY <2>1, <2>2 DEF Offer
    <3> QED
      BY <3>1 DEF DepositAfterDiscount
  <2>4. terms' = [rent |-> o.rent, deposit |-> d, term |-> o.term,
                  period |-> o.period, grace |-> o.grace, mint |-> o.mint,
                  discount |-> discount] /\ d > 0
    BY <1>1 DEF ProposeLease
  <2> HIDE DEF discount, d
  <2>5. terms' \in [rent: Nat, deposit: Nat, term: Nat, period: Nat, grace: Nat,
                    mint: Mints \cup {NoMint}, discount: Nat]
    BY <2>1, <2>2, <2>3, <2>4 DEF Offer
  <2>6. terms'.deposit # 0 /\ terms'.period # 0
    BY <1>1, <2>1, <2>3, <2>4 DEF ProposeLease, Offer
  <2> QED
    BY <1>1, <2>5, <2>6 DEF ProposeLease, Status
<1>2. CASE FundDeposit
  BY <1>2 DEF FundDeposit, Status
<1>3. ASSUME NEW a \in 0 .. terms.rent, PayRent(a) PROVE TypeInv'
  <2>1. a \in Nat /\ rent_received' \in Nat /\ paid_count' \in Nat
    BY <1>3 DEF PayRent
  <2>2. profile' \in [Party -> Profile]
    <3>1. profile["tenant"] \in Profile /\ terms.rent \in Nat
      BY DEF Party
    <3>2. profile' = [profile EXCEPT !["tenant"] = RentRecorded(profile["tenant"])]
      BY <1>3 DEF PayRent
    <3> QED
      BY <3>1, <3>2, RentRecordedType
  <2> QED
    BY <1>3, <2>1, <2>2 DEF PayRent
<1>4. CASE MarkDefault
  <2>1. seized \in Nat /\ seized <= terms.deposit
    BY <1>4, SeizedBounds DEF MarkDefault
  <2>2. PlainSplit(terms.deposit, seized) \in Split
    BY <2>1, PlainSplitConserves
  <2>3. vault' \in Nat /\ payout' \in Split /\ closedBy' \subseteq Wallet
    BY <1>4, <2>2, PayOutType DEF MarkDefault, Party, Wallet
  <2>4. profile' \in [Party -> Profile]
    <3>1. profile["tenant"] \in Profile /\ profile["landlord"] \in Profile
      BY DEF Party
    <3>2. [profile["tenant"] EXCEPT !.defaults = SatAdd(@, 1, U32_MAX)] \in Profile
      BY <3>1, RecordUpdateType
    <3>3. RecordDepositOutcome(profile["landlord"], terms.deposit, seized) \in Profile
      BY <2>1, <3>1, RecordDepositOutcomeType
    <3>4. profile' = [profile EXCEPT
              !["tenant"] = [profile["tenant"] EXCEPT !.defaults = SatAdd(@, 1, U32_MAX)],
              !["landlord"] = RecordDepositOutcome(profile["landlord"], terms.deposit, seized)]
      BY <1>4 DEF MarkDefault
    <3> QED
      BY <3>2, <3>3, <3>4
  <2> QED
    BY <1>4, <2>3, <2>4 DEF MarkDefault, Status
<1>5. CASE ReleaseDeposit
  <2>1. CloseWith(PlainSplit(terms.deposit, 0), 0, {"landlord"})
    BY <1>5 DEF ReleaseDeposit, CloseWithDeduction
  <2>2. PlainSplit(terms.deposit, 0) \in Split /\ {"landlord"} \in SUBSET Wallet
    BY PlainSplitConserves DEF Party, Wallet
  <2>3. dispute' \in Dispute \cup {NoDispute} /\ status # "None"
    BY <1>5 DEF ReleaseDeposit, TermPaidAndEnded
  <2> QED
    BY <2>1, <2>2, <2>3, CloseWithTypeInv
<1>6. ASSUME NEW d \in Deductions, ProposeDeduction(d) PROVE TypeInv'
  <2>1. d \in Nat
    BY LeaseAssumption
  <2> QED
    BY <1>6, <2>1 DEF ProposeDeduction, TermPaidAndEnded, Status
<1>7. CASE ClaimDeposit
  <2>1. PlainSplit(terms.deposit, 0) \in Split /\ {"tenant"} \in SUBSET Wallet
    BY PlainSplitConserves DEF Party, Wallet
  <2>2. vault' \in Nat /\ payout' \in Split /\ closedBy' \subseteq Wallet
    BY <1>7, <2>1, PayOutType DEF ClaimDeposit
  <2>3. ASSUME NEW p \in Party
        PROVE  RecordDepositOutcome(profile[p], terms.deposit, 0) \in Profile
    BY RecordDepositOutcomeType
  <2>4. profile' \in [Party -> Profile]
    BY <1>7, <2>3, RecordUpdateType DEF ClaimDeposit
  <2> QED
    BY <1>7, <2>2, <2>4 DEF ClaimDeposit, Status
<1>8. ASSUME NEW d \in Deductions, SettleDispute(d) PROVE TypeInv'
  <2>1. CloseWith(PlainSplit(terms.deposit, d), d, {"tenant", "landlord"})
    BY <1>8 DEF SettleDispute, CloseWithDeduction
  <2>2. d \in Nat /\ d <= terms.deposit
    BY <2>1, LeaseAssumption DEF CloseWith
  <2>3. PlainSplit(terms.deposit, d) \in Split /\ {"tenant", "landlord"} \in SUBSET Wallet
    BY <2>2, PlainSplitConserves DEF Party, Wallet
  <2>4. dispute' \in Dispute \cup {NoDispute} /\ status # "None"
    BY <1>8 DEF SettleDispute
  <2> QED
    BY <2>1, <2>2, <2>3, <2>4, CloseWithTypeInv
<1>9. ASSUME AcceptDeduction \/ FinalizeDeduction PROVE TypeInv'
  <2>1. PICK s \in {{"tenant"}, {"landlord"}} :
           CloseWith(PlainSplit(terms.deposit, proposed_deduction), proposed_deduction, s)
    BY <1>9 DEF AcceptDeduction, FinalizeDeduction, CloseWithDeduction
  <2>2. proposed_deduction \in Nat /\ proposed_deduction <= terms.deposit
    BY <2>1 DEF CloseWith
  <2>3. PlainSplit(terms.deposit, proposed_deduction) \in Split /\ s \in SUBSET Wallet
    BY <2>2, PlainSplitConserves DEF Party, Wallet
  <2>4. dispute' \in Dispute \cup {NoDispute} /\ status # "None"
    BY <1>9 DEF AcceptDeduction, FinalizeDeduction
  <2> QED
    BY <2>1, <2>2, <2>3, <2>4, CloseWithTypeInv
<1>10. CASE AbandonDispute
  BY <1>10, DeadlinesType DEF AbandonDispute, Status, MAX_DISPUTE_ROUNDS
<1>11. CASE EscalateToMediation
  <2>1. now + SELECTION_WINDOW_SECS \in Nat
    BY LeaseAssumption
  <2>2. OpenDispute \in Dispute
    BY <2>1 DEF OpenDispute, Dispute
  <2> QED
    BY <1>11, <2>2, DeadlinesType DEF EscalateToMediation, Status, MAX_DISPUTE_ROUNDS
<1>12. ASSUME NEW p \in Party, SelectionBy(p) PROVE TypeInv'
  <2>1. dispute' \in Dispute /\ endorsed' \subseteq Party \X Wallet /\ UnchangedBySelection
    BY <1>12, SelectionType
  <2> QED
    BY <2>1 DEF UnchangedBySelection
<1>13. ASSUME NEW w \in Wallet, NEW d \in Deductions, SubmitVerdict(w, d) PROVE TypeInv'
  <2> DEFINE split == VerdictSplit(terms.deposit, d, dispute.agreed_fee)
  <2>1. CloseWith(split, d, {w}) /\ dispute' = NoDispute /\ status # "None"
    BY <1>13 DEF SubmitVerdict
  <2>2. d \in Nat /\ d <= terms.deposit /\ dispute.agreed_fee \in Nat
    BY <1>13, LeaseAssumption DEF SubmitVerdict, Dispute
  <2>3. split \in Split /\ {w} \in SUBSET Wallet
    BY <2>2, VerdictSplitConserves
  <2> QED
    BY <2>1, <2>2, <2>3, CloseWithTypeInv
<1>14. ASSUME NEW w \in Wallet, ExpireMediation(w) PROVE TypeInv'
  BY <1>14, DeadlinesType DEF ExpireMediation, Status
<1>15. CASE KycChange
  BY <1>15 DEF KycChange
<1>16. CASE Tick
  BY <1>16 DEF Tick
<1>17. CASE UNCHANGED vars
  BY <1>17 DEF vars
<1> QED
  BY <1>1, <1>2, <1>3, <1>4, <1>5, <1>6, <1>7, <1>8, <1>9, <1>10, <1>11, <1>12,
     <1>13, <1>14, <1>15, <1>16, <1>17
     DEF Next, Instruction, LandlordStep, TenantStep, SelectionStep, MediationExit,
         JointStep

(* Every variable keeps its type, whatever instructions run: no subtraction *)
(* of the program goes below zero and no division is by zero.               *)
THEOREM TypeCorrect == Spec => []TypeOK
<1>1. TypeInv => TypeOK
  BY DEF TypeInv
<1> QED
  BY <1>1, InitType, TypeStep, PTL DEF Spec

-----------------------------------------------------------------------------
(* Layer 2: the money and the bookkeeping of a dispute.  Neither invariant  *)
(* is inductive alone: a close empties the vault only because a stamp of    *)
(* funding and the status go together, and the rounds must fit the status   *)
(* for the second rejection to open the one Dispute account.                *)
Stages ==
    /\ start_ts = 0 <=> status \in {"None", "Proposed"}
    /\ start_ts = 0 => dispute_rounds = 0
    /\ status = "Disputed" => dispute_rounds < MAX_DISPUTE_ROUNDS
    /\ status = "Mediation" => dispute_rounds = MAX_DISPUTE_ROUNDS
    /\ status \in {"Disputed", "Mediation"} \/ dispute_rounds # 0
          => paid_count = terms.term
BookInv == TypeInv /\ VaultConservation /\ DisputeBookkeeping /\ Stages

LEMMA InitBooks == Init => BookInv
BY InitType, EmptySplit
   DEF Init, BookInv, VaultConservation, DisputeBookkeeping, Stages, Holding,
       MAX_DISPUTE_ROUNDS

(* The payout of a held deposit leaves nothing behind.                      *)
LEMMA PayOutBooks ==
    ASSUME BookInv, Holding, NEW split \in Split, SplitTotal(split) = terms.deposit,
           NEW signers, PayOutVault(split, signers)
    PROVE  /\ vault' = 0
           /\ SplitTotal(payout') = terms.deposit
           /\ start_ts # 0
<1>1. payout \in Split /\ SplitTotal(payout) \in Nat /\ terms.deposit \in Nat
      /\ vault \in Nat
  BY SplitTotalType DEF BookInv, TypeInv, TypeOK
<1>2. vault = terms.deposit /\ start_ts # 0
  BY DEF BookInv, VaultConservation, Holding, Stages
<1>3. SplitTotal(payout) = 0
  BY <1>1, <1>2 DEF BookInv, VaultConservation
<1>4. SplitTotal(payout') = SplitTotal(payout) + SplitTotal(split)
  BY <1>1, SplitSum DEF PayOutVault
<1> QED
  BY <1>1, <1>2, <1>3, <1>4 DEF PayOutVault

LEMMA CloseWithBooks ==
    ASSUME BookInv, Holding, NEW split \in Split, NEW deduction \in Nat, NEW signers,
           CloseWith(split, deduction, signers), dispute' = NoDispute, TypeInv'
    PROVE  BookInv'
<1>1. /\ start_ts' = start_ts /\ terms' = terms /\ status' = "Closed"
      /\ disputed_at' = 0 /\ proposed_deduction' = 0
      /\ paid_count' = paid_count /\ dispute_rounds' = dispute_rounds
  BY DEF CloseWith, stretchVars
<1>2. vault' = 0 /\ SplitTotal(payout') = terms.deposit /\ start_ts # 0
  BY PayOutBooks DEF CloseWith
<1>3. terms.deposit \in Nat
  BY DEF BookInv, TypeInv, TypeOK
<1>4. VaultConservation'
  BY <1>1, <1>2, <1>3 DEF VaultConservation, Holding
<1>5. DisputeBookkeeping'
  BY <1>1 DEF DisputeBookkeeping
<1>6. Stages'
  BY <1>1, <1>2 DEF Stages, BookInv
<1> QED
  BY <1>4, <1>5, <1>6 DEF BookInv

LEMMA BookStep == BookInv /\ [Next]_vars => BookInv'
<1> SUFFICES ASSUME BookInv, [Next]_vars PROVE BookInv'
  OBVIOUS
<1> DEFINE Rest == VaultConservation /\ DisputeBookkeeping /\ Stages
<1>0. TypeInv /\ TypeInv' /\ TypeOK
  BY TypeStep DEF BookInv, TypeInv
<1>a. Rest
  BY DEF BookInv
<1> SUFFICES Rest'
  BY <1>0 DEF BookInv
<1> USE DEF VaultConservation, DisputeBookkeeping, Stages, Holding, MAX_DISPUTE_ROUNDS
<1> USE DEF clockVars, stretchVars, claimVars, moneyVars, recordVars
<1>1. ASSUME NEW o \in Offers, ProposeLease(o) PROVE Rest'
  BY <1>a, <1>1 DEF ProposeLease
<1>2. CASE FundDeposit
  <2>1. now \in Nat \ {0} /\ vault \in Nat /\ terms.deposit \in Nat
        /\ SplitTotal(payout) \in Nat
    BY <1>0, SplitTotalType DEF TypeOK
  <2> QED
    BY <1>a, <1>2, <2>1 DEF FundDeposit
<1>3. ASSUME NEW a \in 0 .. terms.rent, PayRent(a) PROVE Rest'
  <2>1. paid_count \in Nat /\ terms.term \in Nat
    BY <1>0 DEF TypeOK
  <2> QED
    BY <1>a, <1>3, <2>1 DEF PayRent
<1>4. CASE MarkDefault
  <2>1. seized \in Nat /\ seized <= terms.deposit /\ terms.deposit \in Nat
    BY <1>0, <1>4, SeizedBounds DEF MarkDefault, TypeInv, TermsSound, StampsPast, TypeOK
  <2>2. vault' = 0 /\ SplitTotal(payout') = terms.deposit /\ start_ts # 0
    BY <1>4, <2>1, PlainSplitConserves, PayOutBooks DEF MarkDefault
  <2> QED
    BY <1>a, <1>4, <2>1, <2>2 DEF MarkDefault
<1>5. CASE ReleaseDeposit
  <2>1. CloseWith(PlainSplit(terms.deposit, 0), 0, {"landlord"}) /\ Holding
        /\ dispute' = NoDispute
    BY <1>a, <1>5 DEF ReleaseDeposit, CloseWithDeduction, TermPaidAndEnded
  <2>2. PlainSplit(terms.deposit, 0) \in Split
    BY <1>0, PlainSplitConserves DEF TypeOK
  <2> QED
    BY <1>0, <2>1, <2>2, CloseWithBooks DEF BookInv
<1>6. ASSUME NEW d \in Deductions, ProposeDeduction(d) PROVE Rest'
  BY <1>0, <1>a, <1>6 DEF ProposeDeduction, TermPaidAndEnded, may_propose_deduction, TypeOK
<1>7. CASE ClaimDeposit
  <2>1. PlainSplit(terms.deposit, 0) \in Split
        /\ SplitTotal(PlainSplit(terms.deposit, 0)) = terms.deposit
        /\ terms.deposit \in Nat
    BY <1>0, PlainSplitConserves DEF TypeOK
  <2>2. vault' = 0 /\ SplitTotal(payout') = terms.deposit /\ start_ts # 0
    BY <1>7, <2>1, PayOutBooks DEF ClaimDeposit
  <2>3. /\ status = "Active" /\ status' = "Closed"
        /\ start_ts' = start_ts /\ terms' = terms /\ paid_count' = paid_count
        /\ dispute' = dispute /\ disputed_at' = disputed_at
        /\ proposed_deduction' = proposed_deduction /\ dispute_rounds' = dispute_rounds
    BY <1>7 DEF ClaimDeposit
  <2> QED
    BY <1>a, <2>1, <2>2, <2>3
<1>8. ASSUME NEW d \in Deductions, SettleDispute(d) PROVE Rest'
  <2>1. CloseWith(PlainSplit(terms.deposit, d), d, {"tenant", "landlord"}) /\ Holding
        /\ dispute' = NoDispute
    BY <1>8 DEF SettleDispute, CloseWithDeduction
  <2>2. d \in Nat /\ d <= terms.deposit /\ terms.deposit \in Nat
    BY <1>0, <2>1, LeaseAssumption DEF CloseWith, TypeOK
  <2>3. PlainSplit(terms.deposit, d) \in Split
    BY <2>2, PlainSplitConserves
  <2> QED
    BY <1>0, <2>1, <2>2, <2>3, CloseWithBooks DEF BookInv
<1>9. ASSUME AcceptDeduction \/ FinalizeDeduction PROVE Rest'
  <2>1. PICK s \in {{"tenant"}, {"landlord"}} :
           CloseWith(PlainSplit(terms.deposit, proposed_deduction), proposed_deduction, s)
    BY <1>9 DEF AcceptDeduction, FinalizeDeduction, CloseWithDeduction
  <2>2. proposed_deduction \in Nat /\ proposed_deduction <= terms.deposit
        /\ terms.deposit \in Nat
    BY <1>0, <2>1 DEF CloseWith, TypeOK
  <2>3. PlainSplit(terms.deposit, proposed_deduction) \in Split
    BY <2>2, PlainSplitConserves
  <2>4. Holding /\ dispute' = NoDispute
    BY <1>a, <1>9 DEF AcceptDeduction, FinalizeDeduction
  <2> QED
    BY <1>0, <2>1, <2>2, <2>3, <2>4, CloseWithBooks DEF BookInv
<1>10. CASE AbandonDispute
  BY <1>0, <1>a, <1>10 DEF AbandonDispute, TypeOK
<1>11. CASE EscalateToMediation
  <2>1. OpenDispute \in Dispute
    BY <1>0, LeaseAssumption DEF OpenDispute, Dispute, TypeOK
  <2>2. OpenDispute # NoDispute
    BY <2>1, LeaseAssumption
  <2> QED
    BY <1>0, <1>a, <1>11, <2>2 DEF EscalateToMediation, TypeOK
<1>12. ASSUME NEW p \in Party, SelectionBy(p) PROVE Rest'
  <2>1. UnchangedBySelection /\ dispute \in Dispute /\ dispute' \in Dispute
    BY <1>0, <1>12, SelectionType
  <2>2. dispute # NoDispute /\ dispute' # NoDispute
    BY <2>1, LeaseAssumption
  <2> QED
    BY <1>a, <2>1, <2>2 DEF UnchangedBySelection
<1>13. ASSUME NEW w \in Wallet, NEW d \in Deductions, SubmitVerdict(w, d) PROVE Rest'
  <2> DEFINE split == VerdictSplit(terms.deposit, d, dispute.agreed_fee)
  <2>1. CloseWith(split, d, {w}) /\ dispute' = NoDispute /\ Holding
    BY <1>13 DEF SubmitVerdict
  <2>2. d \in Nat /\ d <= terms.deposit /\ dispute.agreed_fee \in Nat
        /\ terms.deposit \in Nat
    BY <1>0, <1>13, LeaseAssumption DEF SubmitVerdict, Dispute, TypeOK
  <2>3. split \in Split
    BY <2>2, VerdictSplitConserves
  <2> QED
    BY <1>0, <2>1, <2>2, <2>3, CloseWithBooks DEF BookInv
<1>14. ASSUME NEW w \in Wallet, ExpireMediation(w) PROVE Rest'
  BY <1>0, <1>a, <1>14 DEF ExpireMediation, TypeOK
<1>15. CASE KycChange
  BY <1>a, <1>15 DEF KycChange
<1>16. CASE Tick
  BY <1>a, <1>16 DEF Tick
<1>17. CASE UNCHANGED vars
  BY <1>a, <1>17 DEF vars
<1> QED
  BY <1>1, <1>2, <1>3, <1>4, <1>5, <1>6, <1>7, <1>8, <1>9, <1>10, <1>11, <1>12,
     <1>13, <1>14, <1>15, <1>16, <1>17
     DEF Next, Instruction, LandlordStep, TenantStep, SelectionStep, MediationExit,
         JointStep

LEMMA BooksAlways == Spec => []BookInv
BY InitBooks, BookStep, PTL DEF Spec

(* The vault holds the deposit from funding until the one step that empties *)
(* it, and the payees together receive exactly the deposit (pay_out_vault   *)
(* and every instruction that calls it).                                    *)
THEOREM VaultConserved == Spec => []VaultConservation
<1>1. BookInv => VaultConservation
  BY DEF BookInv
<1> QED
  BY <1>1, BooksAlways, PTL

(* The Dispute account, the stamp and the proposal exist exactly in the     *)
(* statuses that use them.                                                  *)
THEOREM DisputeBooksKept == Spec => []DisputeBookkeeping
<1>1. BookInv => DisputeBookkeeping
  BY DEF BookInv
<1> QED
  BY <1>1, BooksAlways, PTL

-----------------------------------------------------------------------------
(* Layer 3: the clocks.  activeSecs starts at the funding, and every second *)
(* after it is counted by exactly one of the two counters.                  *)
Unfunded == start_ts = 0 => activeSecs = 0 /\ claim_pause_secs = 0
ClockInv == BookInv /\ ClockAccounted /\ PauseBounded /\ Unfunded

LEMMA InitClock == Init => ClockInv
BY InitBooks DEF Init, ClockInv, ClockAccounted, PauseBounded, Unfunded, Holding

LEMMA ClockStep == ClockInv /\ [Next]_vars => ClockInv'
<1> SUFFICES ASSUME ClockInv, [Next]_vars PROVE ClockInv'
  OBVIOUS
<1> DEFINE Rest == ClockAccounted /\ PauseBounded /\ Unfunded
<1>0. BookInv /\ BookInv'
  BY BookStep DEF ClockInv
<1>a. Rest
  BY DEF ClockInv
<1> SUFFICES Rest'
  BY <1>0 DEF ClockInv
<1>b. /\ now \in Nat \ {0} /\ start_ts \in Nat /\ disputed_at \in Nat
      /\ activeSecs \in Nat /\ claim_pause_secs \in Nat
      /\ dispute_rounds \in 0 .. MAX_DISPUTE_ROUNDS
      /\ disputed_at <= now /\ start_ts <= now
  BY <1>0 DEF BookInv, TypeInv, TypeOK, StampsPast
<1>c. /\ (disputed_at # 0) <=> (status \in {"Disputed", "Mediation"})
      /\ start_ts = 0 <=> status \in {"None", "Proposed"}
      /\ status = "Disputed" => dispute_rounds < MAX_DISPUTE_ROUNDS
  BY <1>0 DEF BookInv, DisputeBookkeeping, Stages
<1>d. DISPUTE_WINDOW_SECS \in Nat \ {0}
  BY LeaseAssumption
<1>e. ASSUME UNCHANGED <<now, activeSecs, start_ts, claim_pause_secs, dispute_rounds>>,
             \/ UNCHANGED <<status, disputed_at>>
             \/ status' \in {"Closed", "Defaulted"}
             \/ status = "None" /\ status' = "Proposed"
      PROVE  Rest'
  BY <1>a, <1>c, <1>e DEF ClockAccounted, PauseBounded, Unfunded, Holding
<1> USE DEF clockVars, stretchVars, claimVars, moneyVars, recordVars
<1>1. CASE \/ LandlordStep \/ JointStep \/ AcceptDeduction \/ ClaimDeposit
           \/ \E w \in Wallet, d \in Deductions : SubmitVerdict(w, d)
  <2>1. ASSUME NEW d \in Deductions, ProposeDeduction(d) PROVE Rest'
    BY <1>a, <1>b, <1>c, <2>1
       DEF ProposeDeduction, TermPaidAndEnded, may_propose_deduction, ClockAccounted,
           PauseBounded, Unfunded, Holding, MAX_DISPUTE_ROUNDS
  <2>2. CASE \/ ReleaseDeposit \/ FinalizeDeduction \/ JointStep \/ AcceptDeduction
             \/ \E w \in Wallet, d \in Deductions : SubmitVerdict(w, d)
    BY <1>e, <2>2 DEF ReleaseDeposit, FinalizeDeduction, JointStep, SettleDispute,
       AcceptDeduction, SubmitVerdict, CloseWithDeduction, CloseWith
  <2>3. CASE MarkDefault \/ ClaimDeposit \/ \E o \in Offers : ProposeLease(o)
    BY <1>e, <2>3 DEF MarkDefault, ClaimDeposit, ProposeLease
  <2> QED
    BY <1>1, <2>1, <2>2, <2>3 DEF LandlordStep
<1>2. CASE FundDeposit
  BY <1>a, <1>b, <1>c, <1>2
     DEF FundDeposit, ClockAccounted, PauseBounded, Unfunded, Holding
<1>3. ASSUME NEW a \in 0 .. terms.rent, PayRent(a) PROVE Rest'
  BY <1>e, <1>3 DEF PayRent
<1>4. CASE AbandonDispute
  <2>1. claim_pause_secs' = claim_pause_secs + (now - disputed_at)
    BY <1>b, <1>c, <1>4 DEF AbandonDispute, resumed_pause
  <2>2. now - disputed_at <= DISPUTE_WINDOW_SECS - 1
    BY <1>b, <1>d, <1>4 DEF AbandonDispute, dispute_deadline
  <2> QED
    BY <1>a, <1>b, <1>c, <1>d, <1>4, <2>1, <2>2
       DEF AbandonDispute, ClockAccounted, PauseBounded, Unfunded, Holding,
           MAX_DISPUTE_ROUNDS
<1>5. CASE EscalateToMediation
  <2>1. claim_pause_secs' = claim_pause_secs + (now - disputed_at)
    BY <1>b, <1>c, <1>5 DEF EscalateToMediation, resumed_pause
  <2>2. now - disputed_at <= DISPUTE_WINDOW_SECS - 1
    BY <1>b, <1>d, <1>5 DEF EscalateToMediation, dispute_deadline
  <2> QED
    BY <1>a, <1>b, <1>c, <1>d, <1>5, <2>1, <2>2
       DEF EscalateToMediation, ClockAccounted, PauseBounded, Unfunded, Holding,
           MAX_DISPUTE_ROUNDS
<1>6. ASSUME NEW p \in Party, SelectionBy(p) PROVE Rest'
  <2>1. UnchangedBySelection
    BY <1>0, <1>6, SelectionType DEF BookInv
  <2> QED
    BY <1>e, <2>1 DEF UnchangedBySelection
<1>7. ASSUME NEW w \in Wallet, ExpireMediation(w) PROVE Rest'
  <2>1. claim_pause_secs' = claim_pause_secs + (now - disputed_at)
    BY <1>b, <1>c, <1>7 DEF ExpireMediation, resumed_pause
  <2>2. dispute_rounds = MAX_DISPUTE_ROUNDS
    BY <1>0, <1>7 DEF ExpireMediation, BookInv, Stages
  <2> QED
    BY <1>a, <1>b, <1>c, <1>7, <2>1, <2>2
       DEF ExpireMediation, ClockAccounted, PauseBounded, Unfunded, Holding
<1>8. CASE KycChange
  BY <1>e, <1>8 DEF KycChange
<1>9. CASE Tick
  BY <1>a, <1>b, <1>c, <1>9 DEF Tick, ClockAccounted, PauseBounded, Unfunded, Holding
<1>10. CASE UNCHANGED vars
  BY <1>e, <1>10 DEF vars
<1> QED
  BY <1>1, <1>2, <1>3, <1>4, <1>5, <1>6, <1>7, <1>8, <1>9, <1>10
     DEF Next, Instruction, LandlordStep, TenantStep, SelectionStep, MediationExit

LEMMA ClocksAlways == Spec => []ClockInv
BY InitClock, ClockStep, PTL DEF Spec

(* Every second since the funding is counted once (resume_claim_clock).     *)
THEOREM ClockIsAccounted == Spec => []ClockAccounted
<1>1. ClockInv => ClockAccounted
  BY DEF ClockInv
<1> QED
  BY <1>1, ClocksAlways, PTL

(* The proposals of the landlord delay the tenant's claim by less than a    *)
(* dispute window each (abandon_dispute, escalate_to_mediation).            *)
THEOREM PauseIsBounded == Spec => []PauseBounded
<1>1. ClockInv => PauseBounded
  BY DEF ClockInv
<1> QED
  BY <1>1, ClocksAlways, PTL

(* claim_deposit opens after exactly the term and the claim window of       *)
(* undisputed time, whatever was proposed, rejected or mediated.            *)
THEOREM ClaimWaitIsExact == Spec => []ClaimWaitExact
<1>1. ASSUME ClockInv PROVE ClaimWaitExact
  <2> SUFFICES ASSUME status = "Active"
               PROVE  now >= claim_deadline <=>
                         activeSecs >= terms.term * terms.period + CLAIM_WINDOW_SECS
    BY DEF ClaimWaitExact
  <2>1. start_ts # 0 /\ disputed_at = 0 /\ now - start_ts = activeSecs + claim_pause_secs
    BY <1>1 DEF ClockInv, BookInv, Stages, DisputeBookkeeping, ClockAccounted, Holding,
                TypeInv, TypeOK
  <2>2. /\ now \in Nat /\ start_ts \in Nat /\ activeSecs \in Nat
        /\ claim_pause_secs \in Nat /\ terms.term * terms.period \in Nat
        /\ CLAIM_WINDOW_SECS \in Nat
    BY <1>1, LeaseAssumption DEF ClockInv, BookInv, TypeInv, TypeOK
  <2> QED
    BY <2>1, <2>2 DEF claim_deadline, end_ts
<1> QED
  BY <1>1, ClocksAlways, PTL

(* The claim clock: no sequence of proposals, rejections, lapsed mediations *)
(* (settle_dispute, abandon_dispute, expire_mediation) loses a second of it.*)
THEOREM ClaimClockIsRight == Spec => []ClaimClockRight
<1>1. ClockAccounted /\ ClaimWaitExact /\ PauseBounded => ClaimClockRight
  BY DEF ClaimClockRight
<1> QED
  BY <1>1, ClockIsAccounted, ClaimWaitIsExact, PauseIsBounded, PTL

-----------------------------------------------------------------------------
(* Layer 4: the selection of an appraiser.  The properties of a binding     *)
(* rest on what the account says before it: whose proposal stands, and that *)
(* no list holds a fee above the cap.                                       *)
ProposalSigned(d) ==
    d.proposed_key # NoKey =>
        d.proposed_key \in Others /\ <<d.key_proposer, d.proposed_key>> \in endorsed
FeesCapped(d) == \A c \in all_candidates(d) : c.fee <= AppraiserFeeCap(terms.deposit)
SelectInv ==
    /\ BookInv
    /\ MediationBounded /\ AppraiserEndorsedByBoth /\ AgreedFeeIsLowest
    /\ dispute # NoDispute =>
          /\ dispute.selection_deadline = disputed_at + SELECTION_WINDOW_SECS
          /\ ProposalSigned(dispute) /\ FeesCapped(dispute)

LEMMA InitSelect == Init => SelectInv
BY InitBooks
   DEF Init, SelectInv, MediationBounded, AppraiserEndorsedByBoth, AgreedFeeIsLowest

(* Mediation opens with an empty account.                                   *)
LEMMA OpenSelect ==
    ASSUME SelectInv, EscalateToMediation, BookInv' PROVE SelectInv'
<1>1. /\ now \in Nat /\ SELECTION_WINDOW_SECS \in Nat /\ VERDICT_WINDOW_SECS \in Nat \ {0}
  BY LeaseAssumption DEF SelectInv, BookInv, TypeInv, TypeOK
<1>2. dispute' = OpenDispute /\ disputed_at' = now
  BY DEF EscalateToMediation
<1>3. /\ dispute'.selection_deadline = disputed_at' + SELECTION_WINDOW_SECS
      /\ dispute'.appraiser = NoKey /\ dispute'.agreed_name = NoName
      /\ dispute'.proposed_key = NoKey
      /\ dispute'.candidates["landlord"] = {} /\ dispute'.candidates["tenant"] = {}
  BY <1>2 DEF OpenDispute, Party
<1>4. ~is_bound(dispute)' /\ ~name_agreed(dispute)' /\ all_candidates(dispute)' = {}
  BY <1>3 DEF is_bound, name_agreed, all_candidates
<1> QED
  BY <1>1, <1>2, <1>3, <1>4
     DEF SelectInv, MediationBounded, AppraiserEndorsedByBoth, AgreedFeeIsLowest,
         ProposalSigned, FeesCapped

LEMMA SelectionSelect ==
    ASSUME SelectInv, NEW p \in Party, SelectionBy(p), BookInv' PROVE SelectInv'
<1>1. /\ dispute \in Dispute /\ dispute' \in Dispute /\ UnchangedBySelection
      /\ require_selection_open
  BY SelectionType DEF SelectInv, BookInv
<1>2. dispute # NoDispute /\ ~is_bound(dispute) /\ now < dispute.selection_deadline
  BY <1>1 DEF require_selection_open, selection_open
<1>3. terms' = terms /\ disputed_at' = disputed_at /\ now' = now
  BY <1>1 DEF UnchangedBySelection, claimVars, clockVars
<1>4. /\ dispute.selection_deadline = disputed_at + SELECTION_WINDOW_SECS
      /\ ProposalSigned(dispute) /\ FeesCapped(dispute)
      /\ MediationBounded /\ AgreedFeeIsLowest
  BY <1>2 DEF SelectInv
<1> USE DEF SelectInv
<1>5. ASSUME NEW list \in CandidateLists, ProposeAppraisers(p, list) PROVE SelectInv'
  <2> DEFINE built == {[name |-> Canon[c.spelling], fee |-> c.fee] : c \in list}
  <2>1. dispute' = [dispute EXCEPT !.candidates[p] = built] /\ endorsed' = endorsed
        /\ ~name_agreed(dispute)
    BY <1>5 DEF ProposeAppraisers
  <2>2. /\ dispute'.selection_deadline = dispute.selection_deadline
        /\ dispute'.appraiser = dispute.appraiser
        /\ dispute'.agreed_name = dispute.agreed_name
        /\ dispute'.proposed_key = dispute.proposed_key
        /\ dispute'.key_proposer = dispute.key_proposer
        /\ dispute'.candidates = [dispute.candidates EXCEPT ![p] = built]
    BY <1>1, <2>1 DEF Dispute
  <2>3. \A c \in built : c.fee <= AppraiserFeeCap(terms.deposit)
    BY <1>5 DEF ProposeAppraisers, list_allowed
  <2>4. all_candidates(dispute') \subseteq all_candidates(dispute) \cup built
    BY <1>1, <2>2 DEF all_candidates, Dispute, Party
  <2>5. FeesCapped(dispute)'
    BY <1>3, <1>4, <2>3, <2>4 DEF FeesCapped
  <2>6. ProposalSigned(dispute)'
    BY <1>4, <2>1, <2>2 DEF ProposalSigned
  <2>7. ~is_bound(dispute)' /\ ~name_agreed(dispute)'
    BY <1>2, <2>1, <2>2 DEF is_bound, name_agreed
  <2> QED
    BY <1>2, <1>3, <1>4, <2>2, <2>5, <2>6, <2>7
       DEF MediationBounded, AppraiserEndorsedByBoth, AgreedFeeIsLowest
<1>6. ASSUME NEW s \in Spellings, PickAppraiser(p, s) PROVE SelectInv'
  <2> DEFINE name == Canon[s]
             picked == [dispute EXCEPT !.pick[p] = name]
  <2>1. /\ endorsed' = endorsed /\ ~name_agreed(dispute) /\ name # NoName
        /\ was_proposed(dispute, name)
        /\ dispute' = IF picks_agree(picked)
                        THEN [picked EXCEPT !.agreed_name = name,
                                            !.agreed_fee = lowest_fee(dispute, name)]
                        ELSE picked
    BY <1>6 DEF PickAppraiser
  <2>2. /\ dispute'.selection_deadline = dispute.selection_deadline
        /\ dispute'.appraiser = dispute.appraiser
        /\ dispute'.proposed_key = dispute.proposed_key
        /\ dispute'.key_proposer = dispute.key_proposer
        /\ dispute'.candidates = dispute.candidates
        /\ dispute'.pick = [dispute.pick EXCEPT ![p] = name]
    BY <1>1, <2>1 DEF Dispute
  <2>3. all_candidates(dispute') = all_candidates(dispute)
    BY <2>2 DEF all_candidates
  <2>4. FeesCapped(dispute)' /\ ProposalSigned(dispute)' /\ ~is_bound(dispute)'
    BY <1>2, <1>3, <1>4, <2>1, <2>2, <2>3 DEF FeesCapped, ProposalSigned, is_bound
  <2>5. ASSUME name_agreed(dispute)'
        PROVE  /\ dispute'.agreed_name = name
               /\ dispute'.agreed_fee = lowest_fee(dispute, name)
               /\ \A q \in Party : dispute'.pick[q] = name
    <3>1. picks_agree(picked)
      BY <1>1, <2>1, <2>5 DEF name_agreed, Dispute
    <3>2. dispute'.agreed_name = name /\ dispute'.agreed_fee = lowest_fee(dispute, name)
      BY <1>1, <2>1, <3>1 DEF Dispute
    <3>3. picked.pick = dispute'.pick
      BY <1>1, <2>2 DEF Dispute
    <3> QED
      BY <1>1, <2>2, <3>1, <3>2, <3>3 DEF picks_agree, Party, Dispute
  <2>6. AgreedFeeIsLowest'
    <3> SUFFICES ASSUME name_agreed(dispute)' PROVE AgreedFeeIsLowest'
      BY DEF AgreedFeeIsLowest
    <3>1. fees_for(dispute', name) = fees_for(dispute, name)
      BY <2>3 DEF fees_for
    <3>2. /\ lowest_fee(dispute, name) \in fees_for(dispute, name)
          /\ \A f \in fees_for(dispute, name) : lowest_fee(dispute, name) <= f
      BY <1>1, <2>1, LowestFeeExists
    <3>3. lowest_fee(dispute, name) <= AppraiserFeeCap(terms.deposit)
      BY <1>4, <3>2 DEF fees_for, FeesCapped
    <3> QED
      BY <1>3, <2>5, <3>1, <3>2, <3>3 DEF AgreedFeeIsLowest
  <2> QED
    BY <1>2, <1>3, <1>4, <2>2, <2>4, <2>6 DEF MediationBounded, AppraiserEndorsedByBoth
<1>7. ASSUME NEW w \in Wallet \cup {NoKey}, ProposeAppraiserKey(p, w) PROVE SelectInv'
  <2>1. /\ endorsed' = endorsed \cup {<<p, w>>} /\ w \in Others
        /\ dispute' = [dispute EXCEPT !.key_proposals[p] = @ + 1, !.proposed_key = w,
                                      !.key_proposer = p]
    BY <1>7 DEF ProposeAppraiserKey, Wallet
  <2>2. /\ dispute'.selection_deadline = dispute.selection_deadline
        /\ dispute'.appraiser = dispute.appraiser
        /\ dispute'.agreed_name = dispute.agreed_name
        /\ dispute'.agreed_fee = dispute.agreed_fee
        /\ dispute'.pick = dispute.pick
        /\ dispute'.candidates = dispute.candidates
        /\ dispute'.proposed_key = w /\ dispute'.key_proposer = p
    BY <1>1, <2>1 DEF Dispute
  <2>3. all_candidates(dispute') = all_candidates(dispute)
    BY <2>2 DEF all_candidates
  <2>4. FeesCapped(dispute)' /\ ProposalSigned(dispute)' /\ ~is_bound(dispute)'
    BY <1>2, <1>3, <1>4, <2>1, <2>2, <2>3 DEF FeesCapped, ProposalSigned, is_bound
  <2>5. AgreedFeeIsLowest'
    BY <1>2, <1>3, <1>4, <2>2, <2>3 DEF AgreedFeeIsLowest, name_agreed, fees_for
  <2> QED
    BY <1>2, <1>3, <1>4, <2>2, <2>4, <2>5 DEF MediationBounded, AppraiserEndorsedByBoth
<1>8. ASSUME NEW w \in Wallet \cup {NoKey}, ConfirmAppraiserKey(p, w) PROVE SelectInv'
  <2>1. /\ endorsed' = endorsed \cup {<<p, w>>}
        /\ dispute.proposed_key = w /\ w # NoKey /\ p # dispute.key_proposer
        /\ dispute' = [dispute EXCEPT !.appraiser = w,
                                      !.verdict_deadline = now + VERDICT_WINDOW_SECS]
    BY <1>8 DEF ConfirmAppraiserKey, confirms_proposal
  <2>2. /\ dispute'.selection_deadline = dispute.selection_deadline
        /\ dispute'.verdict_deadline = now + VERDICT_WINDOW_SECS
        /\ dispute'.appraiser = w
        /\ dispute'.agreed_name = dispute.agreed_name
        /\ dispute'.agreed_fee = dispute.agreed_fee
        /\ dispute'.pick = dispute.pick
        /\ dispute'.candidates = dispute.candidates
        /\ dispute'.proposed_key = dispute.proposed_key
        /\ dispute'.key_proposer = dispute.key_proposer
    BY <1>1, <2>1 DEF Dispute
  <2>3. w \in Others /\ <<dispute.key_proposer, w>> \in endorsed
    BY <1>4, <2>1 DEF ProposalSigned
  <2>4. \A q \in Party : <<q, w>> \in endorsed'
    <3>1. dispute.key_proposer \in Party
      BY <2>3 DEF BookInv, TypeInv, TypeOK
    <3> QED
      BY <2>1, <2>3, <3>1 DEF Party
  <2>5. AppraiserEndorsedByBoth'
    BY <2>2, <2>3, <2>4 DEF AppraiserEndorsedByBoth
  <2>6. MediationBounded'
    <3>1. /\ now \in Nat /\ disputed_at \in Nat /\ dispute.selection_deadline \in Nat
          /\ VERDICT_WINDOW_SECS \in Nat /\ SELECTION_WINDOW_SECS \in Nat
      BY <1>1, LeaseAssumption DEF BookInv, TypeInv, TypeOK, Dispute
    <3>2. is_bound(dispute)'
      BY <2>1, <2>2 DEF is_bound
    <3> QED
      BY <1>2, <1>3, <1>4, <2>2, <3>1, <3>2 DEF MediationBounded
  <2>7. all_candidates(dispute') = all_candidates(dispute)
    BY <2>2 DEF all_candidates
  <2>8. FeesCapped(dispute)' /\ ProposalSigned(dispute)'
    BY <1>3, <1>4, <2>1, <2>2, <2>7 DEF FeesCapped, ProposalSigned
  <2>9. AgreedFeeIsLowest'
    BY <1>2, <1>3, <1>4, <2>2, <2>7 DEF AgreedFeeIsLowest, name_agreed, fees_for
  <2> QED
    BY <1>3, <1>4, <2>2, <2>5, <2>6, <2>8, <2>9
<1> QED
  BY <1>5, <1>6, <1>7, <1>8 DEF SelectionBy

LEMMA SelectStep == SelectInv /\ [Next]_vars => SelectInv'
<1> SUFFICES ASSUME SelectInv, [Next]_vars PROVE SelectInv'
  OBVIOUS
<1>0. BookInv /\ BookInv'
  BY BookStep DEF SelectInv
<1>1. CASE EscalateToMediation
  BY <1>0, <1>1, OpenSelect
<1>2. ASSUME NEW p \in Party, SelectionBy(p) PROVE SelectInv'
  BY <1>0, <1>2, SelectionSelect
<1>3. ASSUME dispute' = NoDispute PROVE SelectInv'
  BY <1>0, <1>3
     DEF SelectInv, MediationBounded, AppraiserEndorsedByBoth, AgreedFeeIsLowest
<1>4. CASE status' # "Mediation"
  BY <1>0, <1>3, <1>4 DEF BookInv, DisputeBookkeeping
<1>5. ASSUME UNCHANGED <<dispute, disputed_at, terms, endorsed>> PROVE SelectInv'
  BY <1>0, <1>5
     DEF SelectInv, MediationBounded, AppraiserEndorsedByBoth, AgreedFeeIsLowest,
         ProposalSigned, FeesCapped, is_bound, name_agreed, all_candidates, fees_for
<1> USE DEF clockVars, stretchVars, claimVars, moneyVars, recordVars
<1>6. CASE LandlordStep
  BY <1>4, <1>6 DEF LandlordStep, ProposeLease, MarkDefault, ReleaseDeposit,
     ProposeDeduction, FinalizeDeduction, CloseWithDeduction, CloseWith
<1>7. CASE TenantStep /\ ~EscalateToMediation
  BY <1>4, <1>5, <1>7 DEF TenantStep, FundDeposit, PayRent, ClaimDeposit, AcceptDeduction,
     AbandonDispute, CloseWithDeduction, CloseWith
<1>8. CASE MediationExit \/ JointStep
  BY <1>3, <1>8 DEF MediationExit, JointStep, SubmitVerdict, ExpireMediation, SettleDispute
<1>9. CASE KycChange \/ Tick \/ UNCHANGED vars
  BY <1>5, <1>9 DEF KycChange, Tick, vars
<1> QED
  BY <1>1, <1>2, <1>6, <1>7, <1>8, <1>9 DEF Next, Instruction, SelectionStep, TenantStep

LEMMA SelectAlways == Spec => []SelectInv
BY InitSelect, SelectStep, PTL DEF Spec

(* A mediation ends within one selection and one verdict window             *)
(* (confirm_appraiser_key cannot re-arm it).                                *)
THEOREM MediationIsBounded == Spec => []MediationBounded
<1>1. SelectInv => MediationBounded
  BY DEF SelectInv
<1> QED
  BY <1>1, SelectAlways, PTL

(* The wallet that may sign a verdict is an outsider both parties signed    *)
(* for (propose_appraiser_key, confirm_appraiser_key).                      *)
THEOREM AppraiserIsEndorsed == Spec => []AppraiserEndorsedByBoth
<1>1. SelectInv => AppraiserEndorsedByBoth
  BY DEF SelectInv
<1> QED
  BY <1>1, SelectAlways, PTL

(* The agreed fee is the lowest one named and under the cap                 *)
(* (propose_appraisers, pick_appraiser).                                    *)
THEOREM AgreedFeeIsTheLowest == Spec => []AgreedFeeIsLowest
<1>1. SelectInv => AgreedFeeIsLowest
  BY DEF SelectInv
<1> QED
  BY <1>1, SelectAlways, PTL

-----------------------------------------------------------------------------
(* What a step may never do.                                                *)

(* While the deposit is held nobody has received any of it.                 *)
LEMMA NothingPaidYet ==
    ASSUME BookInv, Holding
    PROVE  \A k \in Payee : payout[k] = 0
<1>1. payout \in Split /\ terms.deposit \in Nat /\ vault \in Nat
  BY DEF BookInv, TypeInv, TypeOK
<1>2. vault = terms.deposit /\ start_ts # 0
  BY DEF BookInv, VaultConservation, Holding, Stages
<1>3. SplitTotal(payout) = 0
  BY <1>1, <1>2, SplitTotalType DEF BookInv, VaultConservation
<1>4. payout["tenant"] \in Nat /\ payout["landlord"] \in Nat /\ payout["appraiser"] \in Nat
  BY <1>1 DEF Split, Payee
<1>5. payout["tenant"] = 0 /\ payout["landlord"] = 0 /\ payout["appraiser"] = 0
  BY <1>3, <1>4 DEF SplitTotal
<1> QED
  BY <1>5 DEF Payee

(* What a close pays is its split. *)
LEMMA ClosePays ==
    ASSUME BookInv, Holding, NEW split \in Split, NEW signers,
           PayOutVault(split, signers)
    PROVE  payout' = split
<1>1. \A k \in Payee : payout[k] = 0 /\ split[k] \in Nat
  BY NothingPaidYet DEF Split
<1>2. payout' = [k \in Payee |-> payout[k] + split[k]]
  BY DEF PayOutVault
<1>3. payout' = [k \in Payee |-> split[k]]
  BY <1>1, <1>2
<1> QED BY <1>3 DEF Split

LEMMA DeductionPays ==
    ASSUME BookInv, Holding, NEW deduction \in Nat, NEW signers,
           CloseWithDeduction(deduction, signers)
    PROVE  /\ payout'["landlord"] = deduction
           /\ payout'["tenant"] = terms.deposit - deduction
<1>1. terms.deposit \in Nat
  BY DEF BookInv, TypeInv, TypeOK
<1>2. /\ deduction <= terms.deposit
      /\ PayOutVault(PlainSplit(terms.deposit, deduction), signers)
  BY Zenon DEF CloseWithDeduction, CloseWith
<1>3. PlainSplit(terms.deposit, deduction) \in Split
  BY <1>1, <1>2, PlainSplitConserves
<1>4. payout' = PlainSplit(terms.deposit, deduction)
  BY <1>2, <1>3, ClosePays
<1> QED BY <1>4, SharesFields DEF PlainSplit

(* An instruction that pays nothing out leaves the payees alone.            *)
LEMMA OnlyExitsPay ==
    ASSUME BookInv, [Next]_vars, payout' # payout
    PROVE  \/ MarkDefault \/ ReleaseDeposit \/ ClaimDeposit
           \/ AcceptDeduction \/ FinalizeDeduction
           \/ \E d \in Deductions : SettleDispute(d)
           \/ \E w \in Wallet, d \in Deductions : SubmitVerdict(w, d)
<1> USE DEF clockVars, stretchVars, claimVars, moneyVars, recordVars
<1>1. ASSUME NEW p \in Party, SelectionBy(p) PROVE FALSE
  BY <1>1, SelectionType DEF BookInv, UnchangedBySelection
<1> QED
  BY <1>1 DEF Next, Instruction, LandlordStep, TenantStep, SelectionStep, MediationExit,
     JointStep, ProposeLease, FundDeposit, PayRent, ProposeDeduction, AbandonDispute,
     EscalateToMediation, ExpireMediation, KycChange, Tick, vars

(* A payout of a split adds the landlord's share to what it received.       *)
LEMMA LandlordShare ==
    ASSUME NEW split, NEW signers, PayOutVault(split, signers)
    PROVE  /\ payout'["landlord"] = payout["landlord"] + split["landlord"]
           /\ payout'["appraiser"] = payout["appraiser"] + split["appraiser"]
           /\ closedBy' = signers
BY DEF PayOutVault, Payee

LEMMA DeductionStep == SelectInv /\ [Next]_vars => DeductionWarranted
<1> SUFFICES ASSUME SelectInv, [Next]_vars,
                    payout'["landlord"] > payout["landlord"], paid_count = terms.term
             PROVE  \/ "tenant" \in closedBy'
                    \/ /\ status = "Disputed"
                       /\ now >= disputed_at + DISPUTE_WINDOW_SECS
                       /\ payout'["landlord"] = proposed_deduction
                    \/ /\ status = "Mediation"
                       /\ \E w \in closedBy' : {<<p, w>> : p \in Party} \subseteq endorsed
  BY DEF DeductionWarranted
<1>0. BookInv /\ payout["landlord"] \in Nat /\ terms.deposit \in Nat
      /\ paid_count \in Nat
  BY DEF SelectInv, BookInv, TypeInv, TypeOK, Split, Payee
<1>a. payout' # payout
  BY <1>0
<1>1. CASE MarkDefault
  BY <1>0, <1>1 DEF MarkDefault
<1>2. CASE ReleaseDeposit \/ ClaimDeposit
  <2>1. PICK s : PayOutVault(PlainSplit(terms.deposit, 0), s)
    BY <1>2 DEF ReleaseDeposit, ClaimDeposit, CloseWithDeduction, CloseWith
  <2>2. PlainSplit(terms.deposit, 0)["landlord"] = 0
    BY <1>0, PlainSplitConserves
  <2> QED
    BY <1>0, <2>1, <2>2, LandlordShare
<1>3. CASE AcceptDeduction \/ \E d \in Deductions : SettleDispute(d)
  <2>1. \E split, s : "tenant" \in s /\ PayOutVault(split, s)
    BY <1>3 DEF AcceptDeduction, SettleDispute, CloseWithDeduction, CloseWith
  <2> QED
    BY <2>1, LandlordShare
<1>4. CASE FinalizeDeduction
  <2>1. /\ status = "Disputed" /\ now >= disputed_at + DISPUTE_WINDOW_SECS
        /\ proposed_deduction <= terms.deposit
        /\ PayOutVault(PlainSplit(terms.deposit, proposed_deduction), {"landlord"})
    BY <1>4 DEF FinalizeDeduction, dispute_deadline, CloseWithDeduction, CloseWith
  <2>2. proposed_deduction \in Nat
    BY <1>0 DEF BookInv, TypeInv, TypeOK
  <2>3. PlainSplit(terms.deposit, proposed_deduction)["landlord"] = proposed_deduction
    BY <1>0, <2>1, <2>2, PlainSplitConserves
  <2>4. payout["landlord"] = 0
    BY <1>0, <2>1, NothingPaidYet DEF Holding, Payee
  <2> QED
    BY <2>1, <2>2, <2>3, <2>4, LandlordShare
<1>5. ASSUME NEW w \in Wallet, NEW d \in Deductions, SubmitVerdict(w, d)
      PROVE  /\ status = "Mediation"
             /\ \E v \in closedBy' : {<<p, v>> : p \in Party} \subseteq endorsed
  <2>1. status = "Mediation" /\ dispute # NoDispute /\ is_bound(dispute)
        /\ dispute.appraiser = w
    BY <1>5 DEF SubmitVerdict
  <2>2. closedBy' = {w}
    BY <1>5, LandlordShare DEF SubmitVerdict, CloseWith
  <2>3. \A p \in Party : <<p, w>> \in endorsed
    BY <2>1 DEF SelectInv, AppraiserEndorsedByBoth
  <2> QED
    BY <2>1, <2>2, <2>3
<1> QED
  BY <1>0, <1>a, <1>1, <1>2, <1>3, <1>4, <1>5, OnlyExitsPay

(* Nobody takes a deduction alone, except against a whole window of silence *)
(* and then exactly what was asked.                                         *)
THEOREM DeductionsAreWarranted == Spec => NoUnilateralDeduction
BY DeductionStep, SelectAlways, PTL DEF Spec, NoUnilateralDeduction

LEMMA RefundStep == BookInv /\ [Next]_vars => OnlyRefundLeft
<1> SUFFICES ASSUME BookInv, [Next]_vars, status = "Active",
                    dispute_rounds = MAX_DISPUTE_ROUNDS
             PROVE  /\ status' \in {"Active", "Closed"}
                    /\ payout'["landlord"] = 0 /\ payout'["appraiser"] = 0
  BY DEF OnlyRefundLeft
<1>1. /\ paid_count = terms.term /\ paid_count \in Nat /\ terms.deposit \in Nat
      /\ payout["landlord"] = 0 /\ payout["appraiser"] = 0
  BY NothingPaidYet
     DEF BookInv, Stages, TypeInv, TypeOK, Holding, Payee, MAX_DISPUTE_ROUNDS
<1>2. CASE ReleaseDeposit \/ ClaimDeposit
  <2>1. status' = "Closed" /\ \E s : PayOutVault(PlainSplit(terms.deposit, 0), s)
    BY <1>2 DEF ReleaseDeposit, ClaimDeposit, CloseWithDeduction, CloseWith
  <2>2. /\ PlainSplit(terms.deposit, 0)["landlord"] = 0
        /\ PlainSplit(terms.deposit, 0)["appraiser"] = 0
    BY <1>1, PlainSplitConserves
  <2> QED
    BY <1>1, <2>1, <2>2, LandlordShare
<1>3. ~MarkDefault
  BY <1>1 DEF MarkDefault
<1>4. ~AcceptDeduction /\ ~FinalizeDeduction /\ (\A d : ~SettleDispute(d))
      /\ \A w, d : ~SubmitVerdict(w, d)
  BY DEF AcceptDeduction, FinalizeDeduction, SettleDispute, SubmitVerdict
<1>5. CASE payout' # payout
  BY <1>2, <1>3, <1>4, <1>5, OnlyExitsPay
<1>6. CASE payout' = payout /\ ~ReleaseDeposit /\ ~ClaimDeposit
  <2> USE DEF clockVars, stretchVars, claimVars, moneyVars, recordVars
  <2>1. \A p \in Party : SelectionBy(p) => status' = status
    BY SelectionType DEF BookInv, UnchangedBySelection
  <2>2. \A d : ~ProposeDeduction(d)
    BY DEF ProposeDeduction, may_propose_deduction, MAX_DISPUTE_ROUNDS
  <2>3. status' = "Active"
    BY <1>3, <1>4, <1>6, <2>1, <2>2
       DEF Next, Instruction, LandlordStep, TenantStep, SelectionStep, MediationExit,
           JointStep, ProposeLease, FundDeposit, PayRent, AbandonDispute,
           EscalateToMediation, ExpireMediation, KycChange, Tick, vars
  <2> QED
    BY <1>1, <1>6, <2>3
<1> QED
  BY <1>2, <1>5, <1>6

(* After the last round only the return in full is left (release_deposit    *)
(* refuses a third proposal).                                               *)
THEOREM LapsedMediationsRefund == Spec => LapsedMediationRefunds
BY RefundStep, BooksAlways, PTL DEF Spec, LapsedMediationRefunds

(* record_deposit_outcome on a record with room for it.                     *)
LEMMA OutcomeCounts ==
    ASSUME NEW r \in Profile, NEW d \in Nat \ {0}, NEW k \in Nat, k <= d,
           r.deposit_events < U32_MAX, r.deducted_total + d <= U64_MAX
    PROVE  /\ RecordDepositOutcome(r, d, k).deducted_total = r.deducted_total + k
           /\ RecordDepositOutcome(r, d, k).deposit_events = r.deposit_events + 1
<1> DEFINE rate   == ReturnBps(d, k)
           total  == SatAdd(r.deposit_total, d, U64_MAX)
           kept   == SatAdd(r.deducted_total, k, U64_MAX)
           events == SatAdd(r.deposit_events, 1, U32_MAX)
<1>1. r.deducted_total \in Nat /\ r.deposit_events \in Nat
  BY DEF Profile
<1>2. kept = r.deducted_total + k /\ events = r.deposit_events + 1
  BY <1>1, WidthAssumption DEF SatAdd, Smaller
<1>3. RecordDepositOutcome(r, d, k) =
        [r EXCEPT !.last_deposit_return_bps = rate, !.deposit_total = total,
                  !.deducted_total = kept, !.deposit_events = events]
  BY DEF RecordDepositOutcome
<1> HIDE DEF rate, total, kept, events
<1> QED BY <1>2, <1>3 DEF Profile

(* What each way out writes on the two records. *)
Written(p, credited, k) ==
    /\ profile'[p].deposits_returned_full
          = profile[p].deposits_returned_full + (IF credited THEN 1 ELSE 0)
    /\ profile'[p].deducted_total = profile[p].deducted_total + k
    /\ profile'[p].deposit_events = profile[p].deposit_events + 1

LEMMA CloseWrites ==
    ASSUME BookInv, RoomForOutcome, Holding, NEW split \in Split, NEW k \in Nat, NEW signers,
           CloseWith(split, k, signers)
    PROVE  /\ status' = "Closed" /\ payout' = split /\ closedBy' = signers
           /\ \A p \in Party : Written(p, split["tenant"] = terms.deposit, k)
<1>1. /\ status' = "Closed" /\ k <= terms.deposit /\ closedBy' = signers
      /\ PayOutVault(split, signers)
  BY Zenon DEF CloseWith, PayOutVault
<1>2. payout' = split
  BY <1>1, ClosePays
<1>3. ASSUME NEW p \in Party PROVE Written(p, split["tenant"] = terms.deposit, k)
  <2> DEFINE r == RecordDepositOutcome(profile[p], terms.deposit, k)
             done == SatAdd(r.leases_completed, 1, U32_MAX)
             full == IF full_return(split, k) THEN SatAdd(r.deposits_returned_full, 1, U32_MAX)
                                              ELSE r.deposits_returned_full
  <2>1. profile[p] \in Profile /\ terms.deposit \in Nat \ {0}
    BY DEF BookInv, TypeInv, TypeOK, TermsSound, Holding
  <2>2. /\ profile[p].deposits_returned_full < U32_MAX /\ profile[p].deposit_events < U32_MAX
        /\ profile[p].deducted_total + terms.deposit <= U64_MAX
    BY DEF RoomForOutcome
  <2>3. /\ r \in Profile /\ r.deposits_returned_full = profile[p].deposits_returned_full
        /\ r.deducted_total = profile[p].deducted_total + k
        /\ r.deposit_events = profile[p].deposit_events + 1
    BY <1>1, <2>1, <2>2, RecordDepositOutcomeType, OutcomeCounts
  <2>4. full = profile[p].deposits_returned_full
                 + (IF split["tenant"] = terms.deposit THEN 1 ELSE 0)
    <3>1. profile[p].deposits_returned_full \in Nat
      BY <2>1 DEF Profile
    <3> QED BY <2>2, <2>3, <3>1, WidthAssumption DEF full_return, SatAdd, Smaller
  <2>5. profile'[p] = [r EXCEPT !.leases_completed = done, !.deposits_returned_full = full]
    <3>1. profile' = [q \in Party |->
            [RecordDepositOutcome(profile[q], terms.deposit, k) EXCEPT
               !.leases_completed = SatAdd(@, 1, U32_MAX),
               !.deposits_returned_full =
                  IF full_return(split, k) THEN SatAdd(@, 1, U32_MAX) ELSE @]]
      BY Zenon DEF CloseWith
    <3>2. profile'[p] =
            [r EXCEPT
               !.leases_completed = SatAdd(@, 1, U32_MAX),
               !.deposits_returned_full =
                  IF full_return(split, k) THEN SatAdd(@, 1, U32_MAX) ELSE @]
      BY <3>1, Zenon DEF r
    <3> QED BY <2>3, <3>2 DEF Profile, done, full, r
  <2> HIDE DEF r, done, full
  <2> QED BY <2>3, <2>4, <2>5 DEF Written, Profile
<1> QED BY <1>1, <1>2, <1>3

LEMMA ClaimWrites ==
    ASSUME BookInv, RoomForOutcome, ClaimDeposit
    PROVE  /\ status = "Active" /\ status' = "Closed" /\ closedBy' = {"tenant"}
           /\ payout' = PlainSplit(terms.deposit, 0)
           /\ Written("tenant", TRUE, 0) /\ Written("landlord", FALSE, 0)
<1>1. /\ status = "Active" /\ status' = "Closed" /\ closedBy' = {"tenant"}
      /\ PayOutVault(PlainSplit(terms.deposit, 0), {"tenant"})
  BY Zenon DEF ClaimDeposit, PayOutVault
<1>2. Holding /\ terms.deposit \in Nat \ {0}
  BY <1>1 DEF Holding, BookInv, TypeInv, TypeOK, TermsSound
<1>3. payout' = PlainSplit(terms.deposit, 0)
  BY <1>1, <1>2, ClosePays, PlainSplitConserves
<1>4. ASSUME NEW p \in Party PROVE Written(p, p = "tenant", 0)
  <2> DEFINE r == RecordDepositOutcome(profile[p], terms.deposit, 0)
             done == SatAdd(r.leases_completed, 1, U32_MAX)
             c == [r EXCEPT !.leases_completed = done]
             full == SatAdd(c.deposits_returned_full, 1, U32_MAX)
             claimed == SatAdd(c.deposits_claimed, 1, U32_MAX)
  <2>1. profile[p] \in Profile /\ profile[p].deposits_returned_full \in Nat
    BY DEF BookInv, TypeInv, TypeOK, Profile
  <2>2. /\ profile[p].deposits_returned_full < U32_MAX /\ profile[p].deposit_events < U32_MAX
        /\ profile[p].deducted_total + terms.deposit <= U64_MAX
    BY DEF RoomForOutcome
  <2>3. /\ r \in Profile /\ r.deposits_returned_full = profile[p].deposits_returned_full
        /\ r.deducted_total = profile[p].deducted_total + 0
        /\ r.deposit_events = profile[p].deposit_events + 1
    BY <1>2, <2>1, <2>2, RecordDepositOutcomeType, OutcomeCounts
  <2>5. profile'[p] = IF p = "tenant" THEN [c EXCEPT !.deposits_returned_full = full]
                                      ELSE [c EXCEPT !.deposits_claimed = claimed]
    <3>1. profile' = [q \in Party |->
            LET b == [RecordDepositOutcome(profile[q], terms.deposit, 0) EXCEPT
                        !.leases_completed = SatAdd(@, 1, U32_MAX)]
            IN IF q = "tenant"
                 THEN [b EXCEPT !.deposits_returned_full = SatAdd(@, 1, U32_MAX)]
                 ELSE [b EXCEPT !.deposits_claimed = SatAdd(@, 1, U32_MAX)]]
      BY Zenon DEF ClaimDeposit
    <3> QED BY <3>1, Zenon
  <2>6. full = profile[p].deposits_returned_full + 1
    <3>1. c.deposits_returned_full = r.deposits_returned_full
      BY <2>3 DEF Profile
    <3> QED BY <2>1, <2>2, <2>3, <3>1, WidthAssumption DEF SatAdd, Smaller
  <2> HIDE DEF r, done, full, claimed
  <2>7. /\ p = "tenant" => profile'[p].deposits_returned_full = full
        /\ p # "tenant" => profile'[p].deposits_returned_full = r.deposits_returned_full
        /\ profile'[p].deducted_total = r.deducted_total
        /\ profile'[p].deposit_events = r.deposit_events
    BY <2>3, <2>5 DEF Profile
  <2> QED BY <2>1, <2>3, <2>6, <2>7 DEF Written
<1> QED BY <1>1, <1>3, <1>4 DEF Party, Written

LEMMA DefaultWrites ==
    ASSUME BookInv, RoomForOutcome, MarkDefault
    PROVE  /\ status' = "Defaulted" /\ closedBy' = {"landlord"}
           /\ payout'["landlord"] = seized /\ payout'["appraiser"] = 0 /\ seized \in Nat
           /\ Written("landlord", FALSE, seized)
           /\ profile'["tenant"].deposits_returned_full
                = profile["tenant"].deposits_returned_full
<1>1. /\ status = "Active" /\ status' = "Defaulted" /\ closedBy' = {"landlord"}
      /\ PayOutVault(PlainSplit(terms.deposit, seized), {"landlord"})
  BY Zenon DEF MarkDefault, PayOutVault
<1>2. Holding /\ terms.deposit \in Nat \ {0}
  BY <1>1 DEF Holding, BookInv, TypeInv, TypeOK, TermsSound
<1>3. seized \in Nat /\ seized <= terms.deposit
  <2>1. /\ TypeOK /\ terms.period # 0 /\ start_ts <= now
        /\ paid_count < terms.term /\ now > due + terms.grace + terms.period
    BY <1>1, Zenon DEF BookInv, TypeInv, TermsSound, StampsPast, MarkDefault
  <2> QED BY <2>1, SeizedBounds
<1>4. PICK k \in Nat : k = seized
  BY <1>3
<1>5. payout' = PlainSplit(terms.deposit, k)
  BY <1>1, <1>2, <1>3, <1>4, ClosePays, PlainSplitConserves
<1>6. profile["landlord"] \in Profile /\ profile["tenant"] \in Profile
      /\ profile \in [Party -> Profile] /\ "landlord" \in Party /\ "tenant" \in Party
  BY DEF BookInv, TypeInv, TypeOK, Party
<1>7. profile' = [profile EXCEPT
          !["tenant"].defaults = SatAdd(@, 1, U32_MAX),
          !["landlord"] = RecordDepositOutcome(@, terms.deposit, k)]
  BY <1>4, Zenon DEF MarkDefault
<1> DEFINE worse == SatAdd(profile["tenant"].defaults, 1, U32_MAX)
           r == RecordDepositOutcome(profile["landlord"], terms.deposit, k)
<1>8. profile' = [profile EXCEPT !["tenant"] = [profile["tenant"] EXCEPT !.defaults = worse],
                                 !["landlord"] = r]
  BY <1>6, <1>7
<1>9. /\ r \in Profile
      /\ r.deposits_returned_full = profile["landlord"].deposits_returned_full
      /\ r.deducted_total = profile["landlord"].deducted_total + k
      /\ r.deposit_events = profile["landlord"].deposit_events + 1
  <2>1. /\ profile["landlord"].deposit_events < U32_MAX
        /\ profile["landlord"].deducted_total + terms.deposit <= U64_MAX
    BY <1>6 DEF RoomForOutcome
  <2>2. PICK q \in Profile : q = profile["landlord"]
    BY <1>6
  <2>3. PICK d \in Nat \ {0} : d = terms.deposit
    BY <1>2
  <2>4. k <= d /\ q.deposit_events < U32_MAX /\ q.deducted_total + d <= U64_MAX
    BY <1>3, <1>4, <2>1, <2>2, <2>3
  <2>5. /\ RecordDepositOutcome(q, d, k) \in Profile
        /\ RecordDepositOutcome(q, d, k).deposits_returned_full = q.deposits_returned_full
    BY <2>4, RecordDepositOutcomeType
  <2>6. /\ RecordDepositOutcome(q, d, k).deducted_total = q.deducted_total + k
        /\ RecordDepositOutcome(q, d, k).deposit_events = q.deposit_events + 1
    BY <2>4, OutcomeCounts
  <2> QED BY <2>2, <2>3, <2>5, <2>6
<1> HIDE DEF worse, r
<1>10. /\ profile'["landlord"] = r
       /\ profile'["tenant"].deposits_returned_full
             = profile["tenant"].deposits_returned_full
  BY <1>6, <1>8 DEF Profile
<1>11. profile["landlord"].deposits_returned_full \in Nat
  BY <1>6 DEF Profile
<1>12. Written("landlord", FALSE, k)
  BY <1>9, <1>10, <1>11 DEF Written
<1>13. payout'["landlord"] = k /\ payout'["appraiser"] = 0
  BY <1>2, <1>3, <1>4, <1>5, PlainSplitConserves
<1> QED BY <1>1, <1>3, <1>4, <1>10, <1>12, <1>13

LEMMA OnlyExitsDraw ==
    ASSUME BookInv, [Next]_vars, vault' < vault
    PROVE  \/ MarkDefault \/ ClaimDeposit
           \/ /\ Holding
              /\ \E k \in Nat : \E signers : CloseWithDeduction(k, signers)
                   /\ (signers = {"tenant"} => status # "Active")
           \/ \E w \in Wallet, d \in Deductions : SubmitVerdict(w, d)
<1>0. vault \in Nat /\ terms.deposit \in Nat /\ proposed_deduction \in Nat
      /\ Deductions \subseteq Nat
  BY LeaseAssumption DEF BookInv, TypeInv, TypeOK
<1>1. ASSUME ReleaseDeposit PROVE Holding /\ CloseWithDeduction(0, {"landlord"})
  BY <1>1 DEF ReleaseDeposit, TermPaidAndEnded, Holding
<1>2. ASSUME AcceptDeduction \/ FinalizeDeduction
      PROVE  /\ Holding /\ status # "Active"
             /\ \E signers : CloseWithDeduction(proposed_deduction, signers)
  BY <1>2 DEF AcceptDeduction, FinalizeDeduction, Holding
<1>3. ASSUME NEW d \in Deductions, SettleDispute(d)
      PROVE  Holding /\ status # "Active" /\ CloseWithDeduction(d, {"tenant", "landlord"})
  BY <1>3 DEF SettleDispute, Holding
<1>4. CASE payout' # payout
  BY <1>0, <1>1, <1>2, <1>3, <1>4, OnlyExitsPay
<1>5. CASE payout' = payout /\ ~(\E p \in Party : SelectionBy(p))
  <2> USE DEF clockVars, stretchVars, claimVars, moneyVars, recordVars
  <2>1. CASE LandlordStep
    BY <1>0, <1>1, <1>2, <2>1 DEF LandlordStep, ProposeLease, ProposeDeduction
  <2>2. ASSUME TenantStep, ~ClaimDeposit, ~AcceptDeduction PROVE vault <= vault'
    <3>1. ASSUME NEW a \in 0 .. terms.rent, PayRent(a) PROVE vault' = vault
      BY <3>1 DEF PayRent
    <3>2. ASSUME FundDeposit PROVE vault' = vault + terms.deposit
      BY <3>2 DEF FundDeposit
    <3> QED BY <1>0, <2>2, <3>1, <3>2 DEF TenantStep, AbandonDispute, EscalateToMediation
  <2>3. CASE TenantStep
    <3>1. vault' \in Nat
      BY TypeStep DEF BookInv, TypeInv, TypeOK
    <3> QED BY <1>0, <1>2, <2>2, <2>3, <3>1
  <2>4. CASE MediationExit \/ JointStep
    BY <1>0, <1>3, <2>4 DEF MediationExit, JointStep, ExpireMediation
  <2>5. CASE KycChange \/ Tick \/ UNCHANGED vars
    BY <1>0, <2>5 DEF KycChange, Tick, vars
  <2> QED BY <1>5, <2>1, <2>3, <2>4, <2>5 DEF Next, Instruction, SelectionStep
<1>6. ASSUME NEW p \in Party, SelectionBy(p) PROVE FALSE
  BY <1>0, <1>6, SelectionType DEF BookInv, UnchangedBySelection, moneyVars
<1> QED BY <1>4, <1>5, <1>6

LEMMA NothingDrawnYet ==
    ASSUME BookInv, [Next]_vars, vault' < vault PROVE status # "None"
BY OnlyExitsDraw, Zenon DEF MarkDefault, ClaimDeposit, Holding, SubmitVerdict

LEMMA OutcomeStep ==
    ASSUME BookInv, [Next]_vars, vault' < vault, RoomForOutcome PROVE OutcomeRecorded
<1>0. /\ \A p \in Party : /\ profile[p].deposits_returned_full \in Nat
                          /\ profile[p].deducted_total \in Nat
                          /\ profile[p].deposit_events \in Nat
      /\ "tenant" \in Party /\ "landlord" \in Party /\ terms.deposit \in Nat
      /\ terms.deposit # 0
  <2>1. status # "None"
    BY NothingDrawnYet
  <2> QED BY <2>1 DEF BookInv, TypeInv, TypeOK, TermsSound, Profile, Party
<1>1. CASE MarkDefault
  BY <1>0, <1>1, DefaultWrites DEF OutcomeRecorded, Written
<1>2. CASE ClaimDeposit
  <2>1. /\ payout'["tenant"] = terms.deposit /\ payout'["landlord"] = 0
        /\ payout'["appraiser"] = 0
    BY <1>0, <1>2, ClaimWrites, SharesFields DEF PlainSplit
  <2> QED BY <1>0, <1>2, <2>1, ClaimWrites DEF OutcomeRecorded, Written
<1>3. ASSUME Holding, NEW k \in Nat, NEW signers, CloseWithDeduction(k, signers),
             signers = {"tenant"} => status # "Active"
      PROVE  OutcomeRecorded
  <2>1. k <= terms.deposit /\ CloseWith(PlainSplit(terms.deposit, k), k, signers)
    BY <1>3, Zenon DEF CloseWithDeduction, CloseWith
  <2>2. PICK s \in Split : s = PlainSplit(terms.deposit, k)
    BY <1>0, <2>1, PlainSplitConserves
  <2>3. s["landlord"] = k /\ s["appraiser"] = 0
    BY <1>0, <2>1, <2>2, PlainSplitConserves
  <2>4. /\ status' = "Closed" /\ payout' = s /\ closedBy' = signers
        /\ \A p \in Party : Written(p, s["tenant"] = terms.deposit, k)
    BY <1>3, <2>1, <2>2, CloseWrites
  <2> QED BY <1>0, <1>3, <2>3, <2>4 DEF OutcomeRecorded, Written
<1>4. ASSUME NEW w \in Wallet, NEW k \in Deductions, SubmitVerdict(w, k)
      PROVE  OutcomeRecorded
  <2>1. /\ status = "Mediation" /\ dispute # NoDispute /\ k <= terms.deposit /\ k \in Nat
        /\ CloseWith(VerdictSplit(terms.deposit, k, dispute.agreed_fee), k, {w})
    BY <1>4, LeaseAssumption, Zenon DEF SubmitVerdict
  <2>2. dispute.agreed_fee \in Nat
    BY <2>1 DEF BookInv, TypeInv, TypeOK, Dispute
  <2>3. PICK s \in Split : s = VerdictSplit(terms.deposit, k, dispute.agreed_fee)
    BY <1>0, <2>1, <2>2, VerdictSplitConserves
  <2>4. s["landlord"] <= k /\ k <= s["landlord"] + s["appraiser"]
        /\ s["landlord"] \in Nat /\ s["appraiser"] \in Nat
    BY <1>0, <2>1, <2>2, <2>3, VerdictSplitConserves DEF Split, Payee
  <2>5. /\ status' = "Closed" /\ payout' = s
        /\ \A p \in Party : Written(p, s["tenant"] = terms.deposit, k)
    BY <2>1, <2>3, CloseWrites DEF Holding
  <2> QED BY <1>0, <2>1, <2>4, <2>5 DEF OutcomeRecorded, Written
<1> QED BY <1>1, <1>2, <1>3, <1>4, OnlyExitsDraw

(* The records of the two parties say what became of the deposit            *)
(* (record_deposit_outcome in every exit), as long as they have room.       *)
THEOREM RecordsAreTrue == Spec => RecordsMatchMoney
<1>1. BookInv /\ [Next]_vars => [ vault' < vault /\ RoomForOutcome => OutcomeRecorded ]_vars
  BY OutcomeStep
<1> QED BY <1>1, BooksAlways, PTL DEF Spec, RecordsMatchMoney

-----------------------------------------------------------------------------
(* The lease implements Escrow.                                             *)

LEMMA EscrowInit == Init => E!Init
BY DEF Init, E!Init, E!Nothing, E!Payees, escrowStage, escrowAmount, Shares, Payee

(* Before the funding and after the payout nothing moves.                   *)
LEMMA EscrowStutter ==
    ASSUME payout' = payout, vault' = vault, start_ts' = start_ts,
           start_ts = 0 \/ terms' = terms
    PROVE  UNCHANGED <<escrowStage, escrowAmount, payout>>
BY DEF escrowStage, escrowAmount

LEMMA EscrowPayOut ==
    ASSUME BookInv, Holding, NEW split \in Split, SplitTotal(split) = terms.deposit,
           10 * split["appraiser"] <= terms.deposit,
           NEW signers, PayOutVault(split, signers), start_ts' = start_ts, terms' = terms
    PROVE  E!PayOut
<1>1. /\ terms.deposit \in Nat \ {0} /\ vault = terms.deposit /\ start_ts # 0
  BY DEF BookInv, TypeInv, TypeOK, TermsSound, VaultConservation, Holding, Stages
<1>2. vault' = 0
  BY PayOutBooks
<1>3. \A k \in Payee : payout'[k] = split[k]
  BY NothingPaidYet DEF PayOutVault, Split
<1>4. payout' \in [Payee -> Nat]
  BY <1>3 DEF PayOutVault, Split
<1>5. E!Payees = Payee
  BY DEF E!Payees, Payee
<1>6. /\ payout'["tenant"] = split["tenant"] /\ payout'["landlord"] = split["landlord"]
      /\ payout'["appraiser"] = split["appraiser"]
  BY <1>3 DEF Payee
<1>7. escrowStage = "held" /\ escrowStage' = "paid"
  BY <1>1, <1>2 DEF escrowStage
<1>8. escrowAmount = terms.deposit /\ escrowAmount' = escrowAmount
  BY <1>1 DEF escrowAmount
<1> QED
  BY <1>4, <1>5, <1>6, <1>7, <1>8 DEF E!PayOut, SplitTotal

LEMMA EscrowStep ==
    BookInv /\ [Next]_vars => [E!Next]_<<escrowStage, escrowAmount, payout>>
<1> SUFFICES ASSUME BookInv, [Next]_vars
             PROVE  E!Next \/ UNCHANGED <<escrowStage, escrowAmount, payout>>
  OBVIOUS
<1>0. /\ terms.deposit \in Nat /\ now \in Nat \ {0} /\ vault \in Nat
  BY DEF BookInv, TypeInv, TypeOK
<1> USE DEF clockVars, stretchVars, claimVars, moneyVars, recordVars
<1>1. CASE FundDeposit
  <2>1. /\ start_ts = 0 /\ vault = 0 /\ terms.deposit # 0
    BY <1>1 DEF FundDeposit, BookInv, VaultConservation, Holding, Stages, TypeInv, TermsSound
  <2>2. /\ start_ts' # 0 /\ vault' = terms.deposit /\ terms' = terms /\ payout' = payout
    BY <1>0, <1>1, <2>1 DEF FundDeposit
  <2>3. escrowStage = "empty" /\ escrowStage' = "held" /\ escrowAmount' = terms.deposit
    BY <1>0, <2>1, <2>2 DEF escrowStage, escrowAmount
  <2> QED
    BY <1>0, <2>1, <2>2, <2>3 DEF E!Next, E!Take
<1>2. ASSUME NEW k \in Nat, k <= terms.deposit, NEW s, Holding,
             PayOutVault(PlainSplit(terms.deposit, k), s),
             start_ts' = start_ts, terms' = terms
      PROVE  E!Next
  <2>1. /\ PlainSplit(terms.deposit, k) \in Split
        /\ SplitTotal(PlainSplit(terms.deposit, k)) = terms.deposit
        /\ PlainSplit(terms.deposit, k)["appraiser"] = 0
    BY <1>0, <1>2, PlainSplitConserves
  <2> QED
    BY <1>0, <1>2, <2>1, EscrowPayOut DEF E!Next
<1>3. CASE MarkDefault
  <2>1. seized \in Nat /\ seized <= terms.deposit
    BY <1>3, SeizedBounds
       DEF MarkDefault, BookInv, TypeInv, TermsSound, StampsPast
  <2> QED
    BY <1>2, <1>3, <2>1 DEF MarkDefault, Holding
<1>4. ASSUME NEW k \in Nat, NEW s, Holding, CloseWithDeduction(k, s) PROVE E!Next
  <2>1. /\ k <= terms.deposit /\ PayOutVault(PlainSplit(terms.deposit, k), s)
        /\ start_ts' = start_ts /\ terms' = terms
    BY <1>4 DEF CloseWithDeduction, CloseWith
  <2> QED
    BY <1>2, <1>4, <2>1
<1>5. CASE ReleaseDeposit
  <2>1. Holding /\ CloseWithDeduction(0, {"landlord"})
    BY <1>5 DEF ReleaseDeposit, TermPaidAndEnded, Holding
  <2> QED
    BY <1>4, <2>1
<1>6. CASE ClaimDeposit
  <2>1. /\ Holding /\ PayOutVault(PlainSplit(terms.deposit, 0), {"tenant"})
        /\ start_ts' = start_ts /\ terms' = terms
    BY <1>6 DEF ClaimDeposit, Holding
  <2> QED
    BY <1>0, <1>2, <2>1
<1>7. CASE AcceptDeduction \/ FinalizeDeduction
  <2>1. proposed_deduction \in Nat
    BY DEF BookInv, TypeInv, TypeOK
  <2>2. Holding /\ \E s : CloseWithDeduction(proposed_deduction, s)
    BY <1>7 DEF AcceptDeduction, FinalizeDeduction, Holding
  <2> QED
    BY <1>4, <2>1, <2>2
<1>8. ASSUME NEW d \in Deductions, SettleDispute(d) PROVE E!Next
  <2>1. Holding /\ d \in Nat /\ CloseWithDeduction(d, {"tenant", "landlord"})
    BY <1>8, LeaseAssumption DEF SettleDispute, Holding
  <2> QED
    BY <1>4, <2>1
<1>9. ASSUME NEW w \in Wallet, NEW d \in Deductions, SubmitVerdict(w, d) PROVE E!Next
  <2> DEFINE split == VerdictSplit(terms.deposit, d, dispute.agreed_fee)
  <2>1. /\ d \in Nat /\ d <= terms.deposit /\ dispute.agreed_fee \in Nat
    BY <1>9, LeaseAssumption DEF SubmitVerdict, Dispute, BookInv, TypeInv, TypeOK
  <2>2. /\ split \in Split /\ SplitTotal(split) = terms.deposit
        /\ 10 * split["appraiser"] <= terms.deposit
    BY <1>0, <2>1, VerdictSplitConserves
  <2>3. PayOutVault(split, {w}) /\ start_ts' = start_ts /\ terms' = terms /\ Holding
    BY <1>9 DEF SubmitVerdict, CloseWith, Holding
  <2> QED
    BY <2>2, <2>3, EscrowPayOut DEF E!Next
<1>10. CASE payout' = payout /\ ~FundDeposit
  <2>1. \A p \in Party : SelectionBy(p) =>
           UNCHANGED <<payout, vault, start_ts, terms>>
    BY SelectionType DEF BookInv, UnchangedBySelection
  <2>2. \A o \in Offers : ProposeLease(o) =>
           start_ts = 0 /\ UNCHANGED <<payout, vault, start_ts>>
    BY DEF ProposeLease, BookInv, Stages
  <2>3. \/ UNCHANGED <<payout, vault, start_ts, terms>>
        \/ start_ts = 0 /\ UNCHANGED <<payout, vault, start_ts>>
        \/ MarkDefault \/ ReleaseDeposit \/ ClaimDeposit
        \/ AcceptDeduction \/ FinalizeDeduction
        \/ \E d \in Deductions : SettleDispute(d)
        \/ \E w \in Wallet, d \in Deductions : SubmitVerdict(w, d)
    BY <1>10, <2>1, <2>2
       DEF Next, Instruction, LandlordStep, TenantStep, SelectionStep, MediationExit,
           JointStep, PayRent, ProposeDeduction, AbandonDispute, EscalateToMediation,
           ExpireMediation, KycChange, Tick, vars
  <2> QED
    BY <1>3, <1>5, <1>6, <1>7, <1>8, <1>9, <2>3, EscrowStutter
<1> QED
  BY <1>1, <1>3, <1>5, <1>6, <1>7, <1>8, <1>9, <1>10, OnlyExitsPay

(* Every behaviour of a lease is a behaviour of the escrow: the deposit is  *)
(* taken once, held whole, and leaves in one step, all of it, at most a     *)
(* tenth to an appraiser.                                                   *)
THEOREM LeaseImplementsEscrow == Spec => ImplementsEscrow
<1>1. Init => E!Init
  BY EscrowInit
<1>2. BookInv /\ [Next]_vars => [E!Next]_<<escrowStage, escrowAmount, payout>>
  BY EscrowStep
<1> QED
  BY <1>1, <1>2, BooksAlways, PTL DEF Spec, ImplementsEscrow, E!Spec

-----------------------------------------------------------------------------
(***************************************************************************)
(* The invitations beside the lease.  A request reads the chain and        *)
(* commits later, and a link lives for a while: what either holds was      *)
(* agreed in the one mediation a lease can have, and cannot change there.  *)
(***************************************************************************)
(* A lease is mediated once: the round that opens the mediation is the last. *)
MediatedOnce ==
    /\ status = "Disputed" => dispute_rounds # MAX_DISPUTE_ROUNDS
    /\ dispute # NoDispute => dispute_rounds = MAX_DISPUTE_ROUNDS

(* What was agreed when it was read is what is agreed as long as the        *)
(* mediation lasts.                                                         *)
Agreement(name, fee, deadline) ==
    /\ dispute_rounds = MAX_DISPUTE_ROUNDS
    /\ dispute # NoDispute =>
          /\ name # NoName /\ name = dispute.agreed_name
          /\ fee = dispute.agreed_fee /\ deadline = dispute.selection_deadline

Invitation ==
    [id : 1 .. lastId, name : Names \cup {NoName}, agreedFee : Nat, issuedBy : Party,
     expiresAt : Nat, wallet : Others \cup {NoKey}, claimedAt : Nat, selectionDeadline : Nat]

InvitesTyped ==
    /\ lastId \in Nat /\ byId \subseteq Invitation
    /\ accepted \subseteq (1 .. lastId) \X Others \X Nat
    /\ DOMAIN issuing = Party
    /\ \A p \in Party : issuing[p].pc = "commit" => issuing[p].dispute \in Dispute

(* Requests that have read the chain, and links, say what was agreed.       *)
StillAgreed ==
    /\ \A p \in Party : issuing[p].pc = "commit" =>
          Agreement(issuing[p].dispute.agreed_name, issuing[p].dispute.agreed_fee,
                    issuing[p].dispute.selection_deadline)
    /\ \A r \in byId : /\ r.expiresAt <= r.selectionDeadline
                       /\ Agreement(r.name, r.agreedFee, r.selectionDeadline)

(* A link remembers whom it was good for.                                   *)
Remembered ==
    /\ \A r \in byId : r.wallet # NoKey => <<r.id, r.wallet, r.claimedAt>> \in accepted
    /\ \A a \in accepted : \A r \in byId :
          r.id = a[1] => r.wallet = a[2] /\ r.claimedAt = a[3]
    /\ \A a, b \in accepted : a[1] = b[1] => a = b

InTime ==
    \A a \in accepted : /\ dispute_rounds = MAX_DISPUTE_ROUNDS
                        /\ dispute # NoDispute => a[3] < dispute.selection_deadline

LinkInv == InvitesTyped /\ OneLink /\ StillAgreed /\ Remembered /\ InTime
InvitesInv == SelectInv /\ MediatedOnce /\ LinkInv

-----------------------------------------------------------------------------
(* The lease beside the invitations. *)
SameAgreement ==
    dispute' # NoDispute =>
        /\ dispute # NoDispute
        /\ dispute'.selection_deadline = dispute.selection_deadline
        /\ name_agreed(dispute) => /\ dispute'.agreed_name = dispute.agreed_name
                                   /\ dispute'.agreed_fee = dispute.agreed_fee

LEMMA SelectionAgrees ==
    ASSUME SelectInv, NEW p \in Party, SelectionBy(p)
    PROVE  SameAgreement /\ UNCHANGED <<status, dispute_rounds>> /\ dispute # NoDispute
<1>1. /\ dispute \in Dispute /\ dispute' \in Dispute /\ UnchangedBySelection
      /\ require_selection_open
  BY SelectionType DEF SelectInv, BookInv
<1>2. UNCHANGED <<status, dispute_rounds>> /\ dispute # NoDispute
  BY <1>1 DEF UnchangedBySelection, stretchVars, require_selection_open
<1>3. ASSUME NEW list \in CandidateLists, ProposeAppraisers(p, list) PROVE SameAgreement
  <2> DEFINE built == {[name |-> Canon[c.spelling], fee |-> c.fee] : c \in list}
  <2>1. dispute' = [dispute EXCEPT !.candidates[p] = built] /\ ~name_agreed(dispute)
    BY <1>3 DEF ProposeAppraisers
  <2> HIDE DEF built
  <2> QED BY <1>1, <1>2, <2>1 DEF SameAgreement, Dispute
<1>4. ASSUME NEW s \in Spellings, PickAppraiser(p, s) PROVE SameAgreement
  <2>1. ~name_agreed(dispute)
    BY <1>4 DEF PickAppraiser
  <2>2. dispute'.selection_deadline = dispute.selection_deadline
    BY <1>1, <1>4 DEF PickAppraiser, Dispute
  <2> QED BY <1>2, <2>1, <2>2 DEF SameAgreement
<1>5. ASSUME NEW w \in Wallet \cup {NoKey}, ProposeAppraiserKey(p, w) PROVE SameAgreement
  BY <1>1, <1>2, <1>5 DEF ProposeAppraiserKey, SameAgreement, Dispute
<1>6. ASSUME NEW w \in Wallet \cup {NoKey}, ConfirmAppraiserKey(p, w) PROVE SameAgreement
  BY <1>1, <1>2, <1>6 DEF ConfirmAppraiserKey, SameAgreement, Dispute
<1> QED BY <1>2, <1>3, <1>4, <1>5, <1>6 DEF SelectionBy

(* No step of the lease but the one that opens the mediation, in the last   *)
(* round, agrees on anything else.                                          *)
LEMMA LeaseAgrees ==
    ASSUME SelectInv, MediatedOnce, [Next]_vars
    PROVE  /\ MediatedOnce'
           /\ dispute_rounds = MAX_DISPUTE_ROUNDS =>
                 dispute_rounds' = MAX_DISPUTE_ROUNDS /\ SameAgreement
<1> DEFINE Goal == /\ MediatedOnce'
                   /\ dispute_rounds = MAX_DISPUTE_ROUNDS =>
                         dispute_rounds' = MAX_DISPUTE_ROUNDS /\ SameAgreement
<1> SUFFICES Goal OBVIOUS
<1>0. /\ dispute_rounds \in 0 .. 2 /\ MAX_DISPUTE_ROUNDS = 2
      /\ (dispute # NoDispute) <=> (status = "Mediation")
  BY DEF SelectInv, BookInv, TypeInv, TypeOK, DisputeBookkeeping, MAX_DISPUTE_ROUNDS
<1>1. ASSUME NEW p \in Party, SelectionBy(p) PROVE Goal
  BY <1>1, SelectionAgrees DEF MediatedOnce
<1>2. CASE EscalateToMediation
  BY <1>0, <1>2 DEF EscalateToMediation, MediatedOnce
<1>3. ASSUME dispute' \in {dispute, NoDispute}, dispute_rounds' = dispute_rounds,
             status' # "Disputed" \/ status' = status
      PROVE  Goal
  BY <1>3 DEF MediatedOnce, SameAgreement
<1> USE DEF clockVars, stretchVars, claimVars, moneyVars, recordVars
<1>4. ASSUME NEW d \in Deductions, ProposeDeduction(d) PROVE Goal
  BY <1>0, <1>4 DEF ProposeDeduction, may_propose_deduction, MediatedOnce, SameAgreement
<1>5. CASE AbandonDispute
  BY <1>0, <1>5 DEF AbandonDispute, MediatedOnce, SameAgreement
<1>6. CASE LandlordStep
  BY <1>3, <1>4, <1>6 DEF LandlordStep, ProposeLease, MarkDefault, ReleaseDeposit,
     FinalizeDeduction, CloseWithDeduction, CloseWith
<1>7. CASE TenantStep
  BY <1>2, <1>3, <1>5, <1>7 DEF TenantStep, FundDeposit, PayRent, ClaimDeposit,
     AcceptDeduction, CloseWithDeduction, CloseWith
<1>8. CASE MediationExit \/ JointStep
  BY <1>3, <1>8 DEF MediationExit, JointStep, SubmitVerdict, ExpireMediation, SettleDispute,
     CloseWithDeduction, CloseWith
<1>9. CASE KycChange \/ Tick \/ UNCHANGED vars
  BY <1>3, <1>9 DEF KycChange, Tick, vars
<1> QED BY <1>1, <1>6, <1>7, <1>8, <1>9 DEF Next, Instruction, SelectionStep

LEMMA AgreementStays ==
    ASSUME SelectInv, MediatedOnce, [Next]_vars, NEW name, NEW fee, NEW deadline,
           Agreement(name, fee, deadline)
    PROVE  Agreement(name, fee, deadline)'
BY LeaseAgrees DEF Agreement, SameAgreement, name_agreed

LEMMA LeaseLinks ==
    ASSUME SelectInv, MediatedOnce, [Next]_vars, LinkInv, UNCHANGED inviteVars
    PROVE  LinkInv'
<1> USE DEF inviteVars
<1>1. InvitesTyped'
  BY DEF LinkInv, InvitesTyped, Invitation
<1>2. OneLink' /\ Remembered'
  BY DEF LinkInv, OneLink, Remembered
<1>3. StillAgreed'
  <2>1. ASSUME NEW p \in Party, issuing[p].pc = "commit"
        PROVE  Agreement(issuing[p].dispute.agreed_name, issuing[p].dispute.agreed_fee,
                         issuing[p].dispute.selection_deadline)'
    <3>1. PICK d : d = issuing[p].dispute
      OBVIOUS
    <3>2. Agreement(d.agreed_name, d.agreed_fee, d.selection_deadline)
      BY <2>1, <3>1 DEF LinkInv, StillAgreed
    <3>3. Agreement(d.agreed_name, d.agreed_fee, d.selection_deadline)'
      BY <3>2, AgreementStays
    <3> QED BY <3>1, <3>3 DEF Agreement
  <2>2. ASSUME NEW r \in byId
        PROVE  /\ r.expiresAt <= r.selectionDeadline
               /\ Agreement(r.name, r.agreedFee, r.selectionDeadline)'
    <3>1. /\ r.expiresAt <= r.selectionDeadline
          /\ Agreement(r.name, r.agreedFee, r.selectionDeadline)
      BY <2>2 DEF LinkInv, StillAgreed
    <3> QED BY <3>1, AgreementStays
  <2> QED BY <2>1, <2>2 DEF StillAgreed
<1>4. InTime'
  BY LeaseAgrees DEF LinkInv, InTime, SameAgreement
<1> QED BY <1>1, <1>2, <1>3, <1>4 DEF LinkInv

-----------------------------------------------------------------------------
(* The requests about invitations.  None touches the lease. *)
LEMMA AgreementUndisturbed ==
    ASSUME UNCHANGED vars, NEW name, NEW fee, NEW deadline
    PROVE  Agreement(name, fee, deadline)' <=> Agreement(name, fee, deadline)
BY DEF vars, stretchVars, Agreement

(* A step that leaves fewer links, and no more requests that have read.     *)
LEMMA FewerLinks ==
    ASSUME LinkInv, UNCHANGED vars, UNCHANGED <<lastId, accepted>>, byId' \subseteq byId,
           OneLink', DOMAIN issuing' = Party,
           \A p \in Party : \/ issuing'[p].pc # "commit"
                            \/ issuing'[p] = issuing[p]
    PROVE  LinkInv'
<1>1. InvitesTyped'
  BY DEF LinkInv, InvitesTyped, Invitation
<1>2. Remembered'
  BY DEF LinkInv, Remembered
<1>3. StillAgreed'
  BY AgreementUndisturbed DEF LinkInv, StillAgreed
<1>4. InTime'
  BY DEF LinkInv, InTime, vars, stretchVars
<1> QED BY <1>1, <1>2, <1>3, <1>4 DEF LinkInv

LEMMA SweptKeepsOne ==
    ASSUME OneLink, Swept PROVE OneLink' /\ byId' \subseteq byId
<1>1. byId' = Live /\ Live \subseteq byId /\ idByLease' = SweptIndex
  BY DEF Swept, Live
<1>2. CASE Live = byId
  BY <1>1, <1>2 DEF OneLink, SweptIndex
<1>3. CASE Live # byId
  <2>1. PICK r \in byId : r \notin Live
    BY <1>1, <1>3
  <2>2. byId = {r} /\ r.id = idByLease
    BY <2>1 DEF OneLink
  <2>3. Live = {} /\ SweptIndex = NoInvite
    BY <1>1, <2>1, <2>2 DEF SweptIndex
  <2> QED BY <1>1, <2>3 DEF OneLink
<1> QED BY <1>2, <1>3

LEMMA IssueStartLinks ==
    ASSUME LinkInv, NEW p \in Party, NEW s \in Spellings, IssueStart(p, s) PROVE LinkInv'
<1>1. issuing' = [issuing EXCEPT ![p] = Waiting(s)] /\ Swept /\ DOMAIN issuing = Party
      /\ UNCHANGED <<vars, lastId, accepted>>
  BY DEF IssueStart, LinkInv, InvitesTyped
<1>2. /\ DOMAIN issuing' = Party
      /\ \A q \in Party : issuing'[q].pc # "commit" \/ issuing'[q] = issuing[q]
  BY <1>1 DEF Waiting
<1>3. OneLink' /\ byId' \subseteq byId
  BY <1>1, SweptKeepsOne DEF LinkInv
<1> QED BY <1>1, <1>2, <1>3, FewerLinks

LEMMA ReadDisputeLinks ==
    ASSUME SelectInv, MediatedOnce, LinkInv, NEW p \in Party, ReadDispute(p) PROVE LinkInv'
<1> DEFINE s == issuing[p].spelling
<1>1. /\ issuing' = [issuing EXCEPT ![p] =
                        IF may_invite(dispute, s) THEN Deciding(s, dispute) ELSE Idle]
      /\ UNCHANGED <<vars, byId, idByLease, lastId, accepted>> /\ DOMAIN issuing = Party
  BY DEF ReadDispute, LinkInv, InvitesTyped
<1>2. DOMAIN issuing' = Party
  BY <1>1
<1>3. CASE ~may_invite(dispute, s)
  <2>1. \A q \in Party : issuing'[q].pc # "commit" \/ issuing'[q] = issuing[q]
    BY <1>1, <1>3 DEF Idle
  <2>2. OneLink'
    BY <1>1 DEF LinkInv, OneLink
  <2> QED BY <1>1, <1>2, <2>1, <2>2, FewerLinks
<1>4. CASE may_invite(dispute, s)
  <2>1. dispute # NoDispute /\ dispute \in Dispute /\ dispute.agreed_name # NoName
    BY <1>4 DEF may_invite, name_agreed, SelectInv, BookInv, TypeInv, TypeOK
  <2>2. issuing'[p].pc = "commit" /\ issuing'[p].dispute = dispute
    BY <1>1, <1>4 DEF Deciding
  <2>3. \A q \in Party : q # p => issuing'[q] = issuing[q]
    BY <1>1
  <2>4. InvitesTyped'
    BY <1>1, <1>2, <2>1, <2>2, <2>3 DEF LinkInv, InvitesTyped, Invitation
  <2>5. Agreement(dispute.agreed_name, dispute.agreed_fee, dispute.selection_deadline)
    BY <2>1 DEF Agreement, MediatedOnce
  <2>6. StillAgreed'
    <3>1. ASSUME NEW q \in Party, issuing'[q].pc = "commit"
          PROVE  Agreement(issuing[q].dispute.agreed_name, issuing[q].dispute.agreed_fee,
                           issuing[q].dispute.selection_deadline)'
      <4>1. PICK d : d = issuing'[q].dispute
        OBVIOUS
      <4>2. Agreement(d.agreed_name, d.agreed_fee, d.selection_deadline)
        BY <2>2, <2>3, <2>5, <3>1, <4>1 DEF LinkInv, StillAgreed
      <4>3. Agreement(d.agreed_name, d.agreed_fee, d.selection_deadline)'
        BY <1>1, <4>2, AgreementUndisturbed
      <4> QED BY <4>1, <4>3 DEF Agreement
    <3>2. ASSUME NEW r \in byId
          PROVE  /\ r.expiresAt <= r.selectionDeadline
                 /\ Agreement(r.name, r.agreedFee, r.selectionDeadline)'
      BY <1>1, <3>2, AgreementUndisturbed DEF LinkInv, StillAgreed
    <3> QED BY <1>1, <3>1, <3>2 DEF StillAgreed
  <2>7. OneLink' /\ Remembered' /\ InTime'
    BY <1>1 DEF LinkInv, OneLink, Remembered, InTime, vars, stretchVars
  <2> QED BY <2>4, <2>6, <2>7 DEF LinkInv
<1> QED BY <1>3, <1>4

LEMMA IssueLinks ==
    ASSUME SelectInv, LinkInv, NEW p \in Party, Issue(p) PROVE LinkInv'
<1>1. PICK d : d = issuing[p].dispute
  OBVIOUS
<1>2. /\ issuing[p].pc = "commit" /\ issuing' = [issuing EXCEPT ![p] = Idle]
      /\ DOMAIN issuing = Party /\ UNCHANGED <<vars, accepted>>
  BY DEF Issue, LinkInv, InvitesTyped
<1>3. DOMAIN issuing' = Party
      /\ \A q \in Party : issuing'[q].pc # "commit" \/ issuing'[q] = issuing[q]
  BY <1>2 DEF Idle
<1>4. CASE ~(expiry(d) > now)
  <2>1. UNCHANGED <<byId, idByLease, lastId>>
    BY <1>1, <1>4 DEF Issue
  <2>2. OneLink'
    BY <2>1 DEF LinkInv, OneLink
  <2> QED BY <1>2, <1>3, <2>1, <2>2, FewerLinks
<1>5. CASE expiry(d) > now
  <2>1. PICK r : r = [id |-> lastId + 1, name |-> d.agreed_name, agreedFee |-> d.agreed_fee,
                      issuedBy |-> p, expiresAt |-> expiry(d), wallet |-> NoKey,
                      claimedAt |-> 0, selectionDeadline |-> d.selection_deadline]
    OBVIOUS
  <2>2. lastId' = lastId + 1 /\ byId' = WithoutPrevious \cup {r} /\ idByLease' = lastId + 1
    BY <1>1, <1>5, <2>1 DEF Issue
  <2>3. WithoutPrevious = {}
    BY DEF WithoutPrevious, LinkInv, OneLink
  <2>4. /\ d \in Dispute /\ lastId \in Nat /\ now \in Nat
        /\ Agreement(d.agreed_name, d.agreed_fee, d.selection_deadline)
    BY <1>1, <1>2 DEF LinkInv, InvitesTyped, StillAgreed, SelectInv, BookInv, TypeInv, TypeOK
  <2>5. expiry(d) \in Nat /\ expiry(d) <= d.selection_deadline
    BY <2>4, InvitesAssumption DEF expiry, Smaller, Dispute
  <2>6. byId' = {r}
    BY <2>2, <2>3
  <2>7. InvitesTyped'
    <3>1. r \in Invitation'
      BY <2>1, <2>2, <2>4, <2>5 DEF Invitation, Dispute
    <3>2. accepted' \subseteq (1 .. lastId') \X Others \X Nat
      BY <1>2, <2>2, <2>4 DEF LinkInv, InvitesTyped
    <3> QED BY <1>3, <2>2, <2>4, <2>6, <3>1, <3>2 DEF LinkInv, InvitesTyped
  <2>8. OneLink'
    BY <2>1, <2>2, <2>4, <2>6 DEF OneLink, NoInvite
  <2>9. StillAgreed'
    <3>1. ASSUME NEW q \in Party, issuing'[q].pc = "commit"
          PROVE  Agreement(issuing[q].dispute.agreed_name, issuing[q].dispute.agreed_fee,
                           issuing[q].dispute.selection_deadline)'
      BY <1>2, <1>3, <3>1, AgreementUndisturbed DEF LinkInv, StillAgreed
    <3>2. r.expiresAt <= r.selectionDeadline
      BY <2>1, <2>5
    <3>3. Agreement(r.name, r.agreedFee, r.selectionDeadline)'
      BY <1>2, <2>1, <2>4, AgreementUndisturbed
    <3> QED BY <2>6, <3>1, <3>2, <3>3 DEF StillAgreed
  <2>10. Remembered'
    <3>1. \A a \in accepted : a[1] # lastId + 1
      BY <2>4 DEF LinkInv, InvitesTyped
    <3> QED BY <1>2, <2>1, <2>6, <3>1 DEF LinkInv, Remembered
  <2>11. InTime'
    BY <1>2 DEF LinkInv, InTime, vars, stretchVars
  <2> QED BY <2>7, <2>8, <2>9, <2>10, <2>11 DEF LinkInv
<1> QED BY <1>4, <1>5

LEMMA ClaimLinks ==
    ASSUME SelectInv, LinkInv, NEW id \in 1 .. lastId, NEW w \in Wallet, Claim(id, w)
    PROVE  LinkInv'
<1>1. PICK r \in Resolved(id) :
          /\ may_claim(r, w)
          /\ byId' = (Live \ {r}) \cup {IF r.wallet = w THEN r
                                        ELSE [r EXCEPT !.wallet = w, !.claimedAt = now]}
          /\ accepted' = accepted \cup {<<id, w, IF r.wallet = w THEN r.claimedAt ELSE now>>}
  BY DEF Claim
<1>2. /\ idByLease' = SweptIndex /\ UNCHANGED <<vars, issuing, lastId>>
  BY DEF Claim
<1>3. r \in byId /\ r \in Live /\ r.id = id /\ r.expiresAt > now /\ byId = {r} /\ Live = {r}
  BY DEF Resolved, Live, LinkInv, OneLink
<1>4. /\ now \in Nat /\ lastId \in Nat /\ r \in Invitation
      /\ r.expiresAt <= r.selectionDeadline
      /\ Agreement(r.name, r.agreedFee, r.selectionDeadline)
  BY <1>3 DEF LinkInv, InvitesTyped, StillAgreed, SelectInv, BookInv, TypeInv, TypeOK
<1>5. w \in Others /\ w # NoKey
  BY <1>1, <1>4, LeaseAssumption DEF may_claim, Wallet, Party, NoKey, Invitation
<1>6. PICK when : when = IF r.wallet = w THEN r.claimedAt ELSE now
  OBVIOUS
<1>7. PICK q : q = [r EXCEPT !.wallet = w, !.claimedAt = when]
  OBVIOUS
<1>8. /\ q.id = id /\ q.wallet = w /\ q.claimedAt = when /\ q.name = r.name
      /\ q.agreedFee = r.agreedFee /\ q.expiresAt = r.expiresAt
      /\ q.selectionDeadline = r.selectionDeadline
      /\ when \in Nat /\ q \in Invitation
  BY <1>3, <1>4, <1>5, <1>6, <1>7 DEF Invitation
<1>9. byId' = {q} /\ accepted' = accepted \cup {<<id, w, when>>}
  <2>1. r.wallet = w => q = r
    BY <1>4, <1>6, <1>7 DEF Invitation
  <2> QED BY <1>1, <1>3, <1>6, <1>7, <2>1
<1>10. r.wallet \in {w, NoKey}
  BY <1>1 DEF may_claim
<1>11. \A a \in accepted : a[1] = id => a = <<id, w, when>>
  <2> SUFFICES ASSUME NEW a \in accepted, a[1] = id PROVE a = <<id, w, when>>
    OBVIOUS
  <2>1. a \in (1 .. lastId) \X Others \X Nat
    BY DEF LinkInv, InvitesTyped
  <2>2. r.wallet = a[2] /\ r.claimedAt = a[3]
    BY <1>3 DEF LinkInv, Remembered
  <2>3. a[2] # NoKey
    BY <2>1, LeaseAssumption
  <2>4. a = <<a[1], a[2], a[3]>>
    BY <2>1
  <2> QED BY <1>6, <1>10, <2>2, <2>3, <2>4
<1>12. InvitesTyped'
  <2>1. <<id, w, when>> \in (1 .. lastId) \X Others \X Nat
    BY <1>5, <1>8
  <2>2. Invitation' = Invitation
    BY <1>2 DEF Invitation
  <2> QED BY <1>2, <1>8, <1>9, <2>1, <2>2 DEF LinkInv, InvitesTyped
<1>13. OneLink'
  <2>1. SweptIndex = idByLease
    BY <1>3 DEF SweptIndex
  <2>2. {id} = {idByLease} \ {NoInvite}
    BY <1>3 DEF LinkInv, OneLink
  <2> QED BY <1>2, <1>8, <1>9, <2>1, <2>2 DEF OneLink
<1>14. StillAgreed'
  <2>1. ASSUME NEW p \in Party, issuing'[p].pc = "commit"
        PROVE  Agreement(issuing[p].dispute.agreed_name, issuing[p].dispute.agreed_fee,
                         issuing[p].dispute.selection_deadline)'
    BY <1>2, <2>1, AgreementUndisturbed DEF LinkInv, StillAgreed
  <2>2. Agreement(q.name, q.agreedFee, q.selectionDeadline)'
    BY <1>2, <1>4, <1>8, AgreementUndisturbed
  <2> QED BY <1>4, <1>8, <1>9, <2>1, <2>2 DEF StillAgreed
<1>15. Remembered'
  <2>1. \A a, b \in accepted : a[1] = b[1] => a = b
    BY DEF LinkInv, Remembered
  <2> QED BY <1>8, <1>9, <1>11, <2>1 DEF Remembered
<1>16. InTime'
  <2>1. dispute_rounds = MAX_DISPUTE_ROUNDS
    BY <1>4 DEF Agreement
  <2>2. ASSUME dispute # NoDispute PROVE when < dispute.selection_deadline
    <3>1. r.selectionDeadline = dispute.selection_deadline
      BY <1>4, <2>2 DEF Agreement
    <3>2. CASE r.wallet = w
      <4>1. <<id, w, when>> \in accepted
        BY <1>3, <1>5, <1>6, <3>2 DEF LinkInv, Remembered
      <4> QED BY <2>2, <4>1 DEF LinkInv, InTime
    <3>3. CASE r.wallet # w
      <4>1. r.expiresAt \in Nat /\ r.selectionDeadline \in Nat
        BY <1>4 DEF Invitation
      <4> QED BY <1>3, <1>4, <1>6, <3>1, <3>3, <4>1
    <3> QED BY <3>2, <3>3
  <2>3. UNCHANGED <<dispute, dispute_rounds>>
    BY <1>2 DEF vars, stretchVars
  <2> QED BY <1>9, <2>1, <2>2, <2>3 DEF LinkInv, InTime
<1> QED BY <1>12, <1>13, <1>14, <1>15, <1>16 DEF LinkInv

LEMMA InviteStepLinks ==
    ASSUME SelectInv, MediatedOnce, LinkInv, InviteStep PROVE LinkInv' /\ UNCHANGED vars
<1>0. UNCHANGED vars
  BY DEF InviteStep, IssueStart, ReadDispute, Issue, Claim, Sweep, Restart
<1>1. CASE Sweep
  <2>1. Swept /\ UNCHANGED <<issuing, lastId, accepted>> /\ DOMAIN issuing = Party
    BY <1>1 DEF Sweep, LinkInv, InvitesTyped
  <2>2. OneLink' /\ byId' \subseteq byId
    BY <2>1, SweptKeepsOne DEF LinkInv
  <2> QED BY <1>0, <2>1, <2>2, FewerLinks
<1>2. CASE Restart
  <2>1. /\ UNCHANGED <<lastId, accepted>> /\ byId' = {} /\ idByLease' = NoInvite
        /\ issuing' = [p \in Party |-> Idle]
    BY <1>2 DEF Restart
  <2>2. OneLink' /\ byId' \subseteq byId
    BY <2>1 DEF OneLink
  <2>3. DOMAIN issuing' = Party /\ \A p \in Party : issuing'[p].pc # "commit"
    BY <2>1 DEF Idle
  <2> QED BY <1>0, <2>1, <2>2, <2>3, FewerLinks
<1> QED
  BY <1>0, <1>1, <1>2, IssueStartLinks, ReadDisputeLinks, IssueLinks, ClaimLinks DEF InviteStep

-----------------------------------------------------------------------------
LEMMA InvitesInvInit == InvitesInit => InvitesInv
<1> SUFFICES ASSUME InvitesInit PROVE InvitesInv
  OBVIOUS
<1>1. SelectInv
  BY InitSelect DEF InvitesInit
<1>2. MediatedOnce
  BY DEF InvitesInit, Init, MediatedOnce
<1>3. LinkInv
  BY DEF InvitesInit, Idle, NoInvite, LinkInv, InvitesTyped, OneLink, StillAgreed,
         Remembered, InTime
<1> QED BY <1>1, <1>2, <1>3 DEF InvitesInv

LEMMA InvitesInvStep ==
    InvitesInv /\ [InvitesNext]_<<vars, inviteVars>> => InvitesInv'
<1> SUFFICES ASSUME InvitesInv, [InvitesNext]_<<vars, inviteVars>> PROVE InvitesInv'
  OBVIOUS
<1>0. SelectInv /\ MediatedOnce /\ LinkInv
  BY DEF InvitesInv
<1>1. ASSUME [Next]_vars, UNCHANGED inviteVars PROVE InvitesInv'
  BY <1>0, <1>1, SelectStep, LeaseAgrees, LeaseLinks DEF InvitesInv
<1>2. ASSUME InviteStep PROVE InvitesInv'
  BY <1>0, <1>2, InviteStepLinks, SelectStep, LeaseAgrees DEF InvitesInv
<1> QED BY <1>1, <1>2 DEF InvitesNext

(* What the invitations promise follows. *)
LEMMA LinksSound == InvitesInv => InvitesSound
<1> SUFFICES ASSUME InvitesInv PROVE InvitesSound
  OBVIOUS
<1>1. OneLink
  BY DEF InvitesInv, LinkInv
<1>2. LinkFitsAgreement
  BY DEF InvitesInv, LinkInv, StillAgreed, Agreement, LinkFitsAgreement
<1>3. AcceptedOnce
  <2>1. \A a, b \in accepted : a[1] = b[1] => a = b
    BY DEF InvitesInv, LinkInv, Remembered
  <2>2. \A a \in accepted : a[2] \in Others
    BY DEF InvitesInv, LinkInv, InvitesTyped
  <2>3. ASSUME NEW a \in accepted, disputed_at # 0
        PROVE  a[3] < disputed_at + SELECTION_WINDOW_SECS
    <3>1. dispute_rounds = MAX_DISPUTE_ROUNDS
          /\ (dispute # NoDispute => a[3] < dispute.selection_deadline)
      BY DEF InvitesInv, LinkInv, InTime
    <3>2. status \in {"Disputed", "Mediation"}
      BY <2>3 DEF InvitesInv, SelectInv, BookInv, DisputeBookkeeping
    <3>3. dispute # NoDispute
      BY <3>1, <3>2 DEF InvitesInv, MediatedOnce, SelectInv, BookInv, DisputeBookkeeping
    <3> QED BY <3>1, <3>3 DEF InvitesInv, SelectInv
  <2> QED BY <2>1, <2>2, <2>3 DEF AcceptedOnce
<1> QED BY <1>1, <1>2, <1>3 DEF InvitesSound

(* Whatever the parties, the chain and a restart do between the reads of    *)
(* issue and its commit (invites.ts:268), one link works at most, it says   *)
(* what was agreed, and it was good for one outsider, in time.              *)
THEOREM InvitesAlwaysSound == InvitesSpec => []InvitesSound
<1>1. InvitesSpec => []InvitesInv
  BY InvitesInvInit, InvitesInvStep, PTL DEF InvitesSpec
<1> QED BY <1>1, LinksSound, PTL

-----------------------------------------------------------------------------
(***************************************************************************)
(* A window of the web app.  Its lease and its Dispute account may each be *)
(* of any age; what it shows of the one mediation of a lease can only have *)
(* been added to, and what it says of a proposal stands until the user's   *)
(* own hand moves on.                                                      *)
(***************************************************************************)
(* An appraiser is bound under an agreed name only.                         *)
BoundAgreed == dispute # NoDispute /\ is_bound(dispute) => name_agreed(dispute)

(* The lists of d are still there, and so is what d says was agreed.        *)
StillThere(d) ==
    dispute # NoDispute =>
        /\ \A p \in Party : d.candidates[p] \subseteq dispute.candidates[p]
        /\ name_agreed(d) => /\ dispute.agreed_name = d.agreed_name
                             /\ dispute.agreed_fee = d.agreed_fee

(* What a Dispute account d on the screen still tells of the mediation.     *)
ShowsMediation(d) ==
    d \notin {NoView, NoDispute} =>
        /\ dispute_rounds = MAX_DISPUTE_ROUNDS
        /\ d \in Dispute
        /\ is_bound(d) => name_agreed(d)
        /\ StillThere(d)

(* What a view v of a party that has signed nothing since tells of the      *)
(* landlord's proposal: the landlord would have made the next one, after    *)
(* the tenant's rejection.                                                  *)
ShowsProposal(v) ==
    v.status = "Disputed" /\ me \in Party /\ ~behind =>
        /\ status = "Disputed" => proposed_deduction = v.proposed_deduction
        /\ me = "tenant" => status \in {"Disputed", "Closed", "Defaulted"}

ViewInv == (view # NoView => ShowsProposal(view)) /\ ShowsMediation(disputeView)
ScreenInv == SelectInv /\ MediatedOnce /\ BoundAgreed /\ me \in Wallet /\ ViewInv

-----------------------------------------------------------------------------
(* Whichever button: a press is a step of the lease. *)
LEMMA MoveTyped ==
    ASSUME NEW m \in Move
    PROVE  /\ m[1] \in {"release", "verdict"} => m[2] \in Deductions
           /\ m[1] = "names" => m[2] \in CandidateLists
           /\ m[1] = "pick" => m[2] \in Names
           /\ m[1] \in {"putForward", "confirm"} => m[2] \in Wallet \cup {NoKey}
BY DEF Move

LEMMA PressIsStep ==
    ASSUME terms.rent \in Nat, NEW m \in Move, Submit(m) PROVE Next
<1>1. CASE me = "tenant" /\ TenantSubmits(m)
  <2>1. terms.rent \in 0 .. terms.rent
    OBVIOUS
  <2> QED BY <1>1, <2>1 DEF TenantSubmits, Next, Instruction, TenantStep
<1>2. CASE me = "landlord" /\ LandlordSubmits(m)
  BY <1>2, MoveTyped DEF LandlordSubmits, releaseDeposit, Next, Instruction, LandlordStep
<1>3. CASE me \in Party /\ MediationSubmits(m)
  <2>1. CASE m[1] = "expire" /\ ExpireMediation(me)
    BY <1>3, <2>1 DEF Next, Instruction, MediationExit, Wallet
  <2>2. ASSUME ~(m[1] = "expire" /\ ExpireMediation(me)) PROVE SelectionBy(me)
    BY <1>3, <2>2, MoveTyped
       DEF MediationSubmits, pickAppraiser, confirmAppraiserKey, SelectionBy
  <2> QED BY <1>3, <2>1, <2>2 DEF Next, Instruction, SelectionStep
<1>4. CASE me \in Others /\ m[1] = "verdict" /\ submitVerdict(m[2])
  BY <1>4, MoveTyped DEF submitVerdict, Next, Instruction, MediationExit, Wallet
<1> QED BY <1>1, <1>2, <1>3, <1>4 DEF Submit

LEMMA ScreenStepIsStep ==
    ASSUME terms.rent \in Nat, [ScreenNext]_<<vars, screenVars>> PROVE [Next]_vars
<1>1. ASSUME NEW w \in Wallet, Signed(w) PROVE Next
  BY <1>1 DEF Signed, Next, Instruction, SelectionStep, MediationExit
<1>2. ASSUME Press PROVE Next
  BY <1>2, PressIsStep DEF Press, Offered
<1>3. ASSUME Elsewhere PROVE Next
  BY <1>1, <1>3 DEF Elsewhere, Next, Instruction
<1>4. ASSUME Refresh PROVE UNCHANGED vars
  BY <1>4 DEF Refresh, RefreshLease, RefreshDispute, RefreshCases, RefreshCaseLease
<1> QED BY <1>2, <1>3, <1>4 DEF ScreenNext, Next, screenVars

-----------------------------------------------------------------------------
(* What a step does to the Dispute account. *)
LEMMA DisputeSteps ==
    ASSUME [Next]_vars
    PROVE  \/ \E p \in Party : SelectionBy(p)
           \/ EscalateToMediation
           \/ dispute' \in {dispute, NoDispute}
<1> USE DEF clockVars, stretchVars, claimVars, moneyVars, recordVars
<1>1. CASE LandlordStep
  BY <1>1 DEF LandlordStep, ProposeLease, MarkDefault, ReleaseDeposit, ProposeDeduction,
     FinalizeDeduction
<1>2. ASSUME TenantStep, ~EscalateToMediation PROVE dispute' = dispute
  <2>1. ASSUME NEW a \in 0 .. terms.rent, PayRent(a) PROVE dispute' = dispute
    BY <2>1 DEF PayRent
  <2>2. ASSUME ClaimDeposit PROVE dispute' = dispute
    BY <2>2, Zenon DEF ClaimDeposit
  <2> QED BY <1>2, <2>1, <2>2 DEF TenantStep, FundDeposit, AcceptDeduction, AbandonDispute
<1>3. CASE MediationExit \/ JointStep
  BY <1>3 DEF MediationExit, JointStep, SubmitVerdict, ExpireMediation, SettleDispute
<1>4. CASE KycChange \/ Tick \/ UNCHANGED vars
  BY <1>4 DEF KycChange, Tick, vars
<1> QED BY <1>1, <1>2, <1>3, <1>4 DEF Next, Instruction, SelectionStep

LEMMA SelectionGrows ==
    ASSUME SelectInv, BoundAgreed, NEW p \in Party, SelectionBy(p)
    PROVE  /\ \A q \in Party : dispute.candidates[q] \subseteq dispute'.candidates[q]
           /\ BoundAgreed'
<1> DEFINE Goal == /\ \A q \in Party : dispute.candidates[q] \subseteq dispute'.candidates[q]
                   /\ BoundAgreed'
<1> SUFFICES Goal OBVIOUS
<1>1. /\ dispute \in Dispute /\ dispute' \in Dispute /\ require_selection_open
  BY SelectionType DEF SelectInv, BookInv
<1>2. dispute # NoDispute /\ ~is_bound(dispute)
  BY <1>1 DEF require_selection_open, selection_open
<1>3. ASSUME NEW list \in CandidateLists, ProposeAppraisers(p, list) PROVE Goal
  <2> DEFINE built == {[name |-> Canon[c.spelling], fee |-> c.fee] : c \in list}
  <2>1. dispute' = [dispute EXCEPT !.candidates[p] = built] /\ dispute.candidates[p] = {}
    BY <1>3 DEF ProposeAppraisers
  <2> HIDE DEF built
  <2> QED BY <1>1, <1>2, <2>1 DEF BoundAgreed, is_bound, Dispute
<1>4. ASSUME NEW s \in Spellings, PickAppraiser(p, s) PROVE Goal
  <2>1. dispute'.candidates = dispute.candidates /\ dispute'.appraiser = dispute.appraiser
    BY <1>1, <1>4 DEF PickAppraiser, Dispute
  <2> QED BY <1>2, <2>1 DEF BoundAgreed, is_bound
<1>5. ASSUME NEW w \in Wallet \cup {NoKey}, ProposeAppraiserKey(p, w) PROVE Goal
  BY <1>1, <1>2, <1>5 DEF ProposeAppraiserKey, BoundAgreed, is_bound, Dispute
<1>6. ASSUME NEW w \in Wallet \cup {NoKey}, ConfirmAppraiserKey(p, w) PROVE Goal
  BY <1>1, <1>2, <1>6 DEF ConfirmAppraiserKey, BoundAgreed, is_bound, name_agreed, Dispute
<1> QED BY <1>3, <1>4, <1>5, <1>6 DEF SelectionBy

LEMMA BoundAgreedStep ==
    ASSUME SelectInv, BoundAgreed, [Next]_vars PROVE BoundAgreed'
<1>1. ASSUME EscalateToMediation PROVE BoundAgreed'
  BY <1>1 DEF EscalateToMediation, OpenDispute, BoundAgreed, is_bound
<1>2. ASSUME dispute' \in {dispute, NoDispute} PROVE BoundAgreed'
  BY <1>2 DEF BoundAgreed
<1> QED BY <1>1, <1>2, DisputeSteps, SelectionGrows

(* What is shown of the mediation stays true, whoever takes the step.       *)
LEMMA MediationShown ==
    ASSUME SelectInv, MediatedOnce, BoundAgreed, [Next]_vars, NEW d, ShowsMediation(d)
    PROVE  ShowsMediation(d)'
<1> SUFFICES ASSUME d \notin {NoView, NoDispute} PROVE ShowsMediation(d)'
  BY DEF ShowsMediation
<1>1. /\ dispute_rounds = MAX_DISPUTE_ROUNDS /\ d \in Dispute
      /\ is_bound(d) => name_agreed(d)
      /\ StillThere(d)
  BY DEF ShowsMediation
<1>2. dispute_rounds' = MAX_DISPUTE_ROUNDS /\ SameAgreement
  BY <1>1, LeaseAgrees
<1>3. ASSUME dispute' # NoDispute
      PROVE  \A p \in Party : d.candidates[p] \subseteq dispute'.candidates[p]
  <2>1. dispute # NoDispute
    BY <1>2, <1>3 DEF SameAgreement
  <2>2. \A p \in Party : dispute.candidates[p] \subseteq dispute'.candidates[p]
    <3>1. ~EscalateToMediation
      BY <2>1 DEF EscalateToMediation
    <3> QED BY <1>3, <3>1, DisputeSteps, SelectionGrows
  <2> QED BY <1>1, <2>1, <2>2 DEF StillThere
<1>4. ASSUME dispute' # NoDispute, name_agreed(d)
      PROVE  dispute'.agreed_name = d.agreed_name /\ dispute'.agreed_fee = d.agreed_fee
  <2>1. dispute # NoDispute
    BY <1>2, <1>4 DEF SameAgreement
  <2>2. dispute.agreed_name = d.agreed_name /\ dispute.agreed_fee = d.agreed_fee
    BY <1>1, <1>4, <2>1 DEF StillThere
  <2> QED BY <1>2, <1>4, <2>2 DEF SameAgreement, name_agreed
<1>5. StillThere(d)'
  BY <1>3, <1>4 DEF StillThere
<1> QED BY <1>1, <1>2, <1>5 DEF ShowsMediation

(* Only the landlord proposes, and only the tenant rejects.                 *)
LEMMA OthersKeepProposal ==
    ASSUME SelectInv, NEW w \in Wallet, Signed(w)
    PROVE  /\ w # "landlord" /\ status' = "Disputed" =>
                 status = "Disputed" /\ proposed_deduction' = proposed_deduction
           /\ w # "tenant" /\ status \in {"Disputed", "Closed", "Defaulted"} =>
                 /\ status' \in {"Disputed", "Closed", "Defaulted"}
                 /\ status' = "Disputed" =>
                       status = "Disputed" /\ proposed_deduction' = proposed_deduction
<1> DEFINE Goal == /\ w # "landlord" /\ status' = "Disputed" =>
                         status = "Disputed" /\ proposed_deduction' = proposed_deduction
                   /\ w # "tenant" /\ status \in {"Disputed", "Closed", "Defaulted"} =>
                         /\ status' \in {"Disputed", "Closed", "Defaulted"}
                         /\ status' = "Disputed" =>
                               status = "Disputed" /\ proposed_deduction' = proposed_deduction
<1> SUFFICES Goal OBVIOUS
<1> USE DEF clockVars, stretchVars, claimVars, moneyVars, recordVars
<1>0. ASSUME NEW split, NEW deduction, NEW signers, CloseWith(split, deduction, signers)
      PROVE  status' = "Closed"
  BY <1>0, Zenon DEF CloseWith
<1>1. CASE w = "landlord" /\ LandlordStep
  <2>1. ASSUME NEW o \in Offers, ProposeLease(o)
        PROVE  status = "None" /\ status' = "Proposed"
    BY <2>1 DEF ProposeLease
  <2>2. ASSUME MarkDefault PROVE status = "Active" /\ status' = "Defaulted"
    BY <2>2 DEF MarkDefault
  <2>3. ASSUME ReleaseDeposit PROVE status' = "Closed"
    BY <1>0, <2>3 DEF ReleaseDeposit, CloseWithDeduction
  <2>4. ASSUME NEW d \in Deductions, ProposeDeduction(d) PROVE status = "Active"
    BY <2>4 DEF ProposeDeduction, TermPaidAndEnded
  <2>5. ASSUME FinalizeDeduction PROVE status' = "Closed"
    BY <1>0, <2>5 DEF FinalizeDeduction, CloseWithDeduction
  <2> QED BY <1>1, <2>1, <2>2, <2>3, <2>4, <2>5 DEF LandlordStep
<1>2. CASE w = "tenant" /\ TenantStep
  <2>1. ASSUME FundDeposit PROVE status' = "Active"
    BY <2>1 DEF FundDeposit
  <2>2. ASSUME NEW a \in 0 .. terms.rent, PayRent(a) PROVE status = "Active" /\ status' = status
    BY <2>2 DEF PayRent
  <2>3. ASSUME ClaimDeposit PROVE status' = "Closed"
    BY <2>3, Zenon DEF ClaimDeposit
  <2>4. ASSUME AcceptDeduction PROVE status' = "Closed"
    BY <1>0, <2>4 DEF AcceptDeduction, CloseWithDeduction
  <2>5. ASSUME AbandonDispute \/ EscalateToMediation PROVE status' \in {"Active", "Mediation"}
    BY <2>5 DEF AbandonDispute, EscalateToMediation
  <2> QED BY <1>2, <2>1, <2>2, <2>3, <2>4, <2>5 DEF TenantStep
<1>3. ASSUME w \in Party, SelectionBy(w) PROVE Goal
  BY <1>3, SelectionType DEF SelectInv, BookInv, UnchangedBySelection, require_selection_open
<1>4. CASE ExpireMediation(w)
  BY <1>4 DEF ExpireMediation
<1>5. ASSUME NEW d \in Deductions, SubmitVerdict(w, d) PROVE Goal
  <2>1. status = "Mediation" /\ status' = "Closed"
    BY <1>0, <1>5 DEF SubmitVerdict
  <2> QED BY <2>1
<1> QED BY <1>1, <1>2, <1>3, <1>4, <1>5 DEF Signed

(* What a view says of the proposal stays true until this hand signs.       *)
LEMMA ProposalShown ==
    ASSUME SelectInv, ~Refresh, [ScreenNext]_<<vars, screenVars>>,
           NEW v, ShowsProposal(v)
    PROVE  ShowsProposal(v)'
<1>a. me' = me
  BY DEF ScreenNext, Press, Elsewhere, screenVars
<1>b. ASSUME behind PROVE behind'
  BY <1>b, Zenon DEF ScreenNext, Press, Elsewhere, screenVars
<1> SUFFICES ASSUME v.status = "Disputed", me \in Party, ~behind, ~behind'
             PROVE  ShowsProposal(v)'
  BY <1>a, <1>b, Zenon DEF ShowsProposal
<1>1. /\ status = "Disputed" => proposed_deduction = v.proposed_deduction
      /\ me = "tenant" => status \in {"Disputed", "Closed", "Defaulted"}
  BY DEF ShowsProposal
<1>2. ASSUME UNCHANGED <<status, proposed_deduction>> PROVE ShowsProposal(v)'
  BY <1>a, <1>1, <1>2 DEF ShowsProposal
<1>3. CASE ((KycChange \/ Tick) /\ UNCHANGED screenVars) \/ UNCHANGED <<vars, screenVars>>
  BY <1>2, <1>3 DEF KycChange, Tick, vars, claimVars
<1>4. CASE Press
  BY <1>4 DEF Press
<1>5. CASE Elsewhere
  <2>1. PICK w \in Wallet : Signed(w) /\ w # me
    BY <1>5 DEF Elsewhere
  <2>2. me \in {"landlord", "tenant"} /\ "landlord" # "tenant"
    BY DEF Party
  <2>3. CASE me = "landlord"
    <3>1. status' = "Disputed" => status = "Disputed" /\ proposed_deduction' = proposed_deduction
      BY <2>1, <2>3, OthersKeepProposal
    <3> QED BY <1>a, <1>1, <2>2, <2>3, <3>1 DEF ShowsProposal
  <2>4. CASE me = "tenant"
    <3>1. /\ status' \in {"Disputed", "Closed", "Defaulted"}
          /\ status' = "Disputed" =>
                status = "Disputed" /\ proposed_deduction' = proposed_deduction
      BY <1>1, <2>1, <2>4, OthersKeepProposal
    <3> QED BY <1>a, <1>1, <3>1 DEF ShowsProposal
  <2> QED BY <2>2, <2>3, <2>4
<1> QED BY <1>3, <1>4, <1>5 DEF ScreenNext

(* A read shows what is there.                                              *)
LEMMA ReadShows ==
    ASSUME SelectInv, MediatedOnce, BoundAgreed
    PROVE  ShowsMediation(dispute) /\ ShowsProposal(Seen)
<1>1. Seen.status = status /\ Seen.proposed_deduction = proposed_deduction
  BY DEF Seen
<1>2. dispute # NoDispute => dispute \in Dispute
  BY DEF SelectInv, BookInv, TypeInv, TypeOK
<1>3. ShowsMediation(dispute)
  BY <1>2 DEF MediatedOnce, BoundAgreed, ShowsMediation, StillThere
<1>4. ShowsProposal(Seen)
  BY <1>1 DEF ShowsProposal
<1> QED BY <1>3, <1>4

LEMMA ScreenInvInit == ScreenInit => ScreenInv
<1> SUFFICES ASSUME ScreenInit PROVE ScreenInv
  OBVIOUS
<1>1. SelectInv
  BY InitSelect DEF ScreenInit
<1>2. MediatedOnce /\ BoundAgreed
  BY DEF ScreenInit, Init, MediatedOnce, BoundAgreed
<1> QED BY <1>1, <1>2 DEF ScreenInit, ScreenInv, ViewInv, ShowsMediation

(* A read changes nothing of the lease: each part of the screen is what it  *)
(* was, or nothing, or what there is.                                       *)
LEMMA ReadStep == ASSUME ScreenInv, Refresh PROVE ViewInv'
<1>1. UNCHANGED vars /\ me' = me
  BY DEF Refresh, RefreshLease, RefreshDispute, RefreshCases, RefreshCaseLease
<1>2. /\ status' = status /\ proposed_deduction' = proposed_deduction /\ dispute' = dispute
      /\ dispute_rounds' = dispute_rounds
  BY <1>1 DEF vars, clockVars, stretchVars, claimVars, moneyVars, recordVars
<1>3. /\ view # NoView => ShowsProposal(view)
      /\ ShowsMediation(disputeView) /\ ShowsMediation(dispute) /\ ShowsProposal(Seen)
  BY ReadShows DEF ScreenInv, ViewInv
<1>4. PICK d : d = disputeView'
  OBVIOUS
<1>5. d \in {disputeView, dispute, NoView, NoDispute}
  BY <1>4 DEF Refresh, RefreshLease, RefreshDispute, RefreshCases, RefreshCaseLease, CaseOf
<1>6. ShowsMediation(d)
  BY <1>3, <1>5 DEF ShowsMediation
<1>7. ShowsMediation(disputeView)'
  BY <1>2, <1>4, <1>6 DEF ShowsMediation, StillThere
<1>8. PICK v : v = view'
  OBVIOUS
<1>9. \/ v = NoView
      \/ v = view /\ behind' = behind
      \/ v = Seen
  BY <1>8 DEF Refresh, RefreshLease, RefreshDispute, RefreshCases, RefreshCaseLease
<1>10. ASSUME v # NoView PROVE ShowsProposal(v)'
  <2>1. CASE v = view /\ behind' = behind
    BY <1>1, <1>2, <1>3, <1>10, <2>1 DEF ShowsProposal
  <2>2. CASE v = Seen
    <3>1. v.status = status /\ v.proposed_deduction = proposed_deduction
      BY <2>2 DEF Seen
    <3> QED BY <1>2, <3>1 DEF ShowsProposal
  <2> QED BY <1>9, <1>10, <2>1, <2>2
<1> QED BY <1>7, <1>8, <1>10 DEF ViewInv, ShowsProposal

LEMMA ScreenInvStep == ScreenInv /\ [ScreenNext]_<<vars, screenVars>> => ScreenInv'
<1> SUFFICES ASSUME ScreenInv, [ScreenNext]_<<vars, screenVars>> PROVE ScreenInv'
  OBVIOUS
<1>0. SelectInv /\ MediatedOnce /\ BoundAgreed /\ me \in Wallet /\ ViewInv
  BY DEF ScreenInv
<1>1. terms.rent \in Nat
  BY <1>0 DEF SelectInv, BookInv, TypeInv, TypeOK
<1>2. [Next]_vars
  BY <1>1, ScreenStepIsStep
<1>3. SelectInv' /\ MediatedOnce' /\ BoundAgreed'
  BY <1>0, <1>2, SelectStep, LeaseAgrees, BoundAgreedStep
<1>4. me' = me
  BY DEF ScreenNext, Refresh, RefreshLease, RefreshDispute, RefreshCases, RefreshCaseLease,
         Press, Elsewhere, screenVars
<1>5. CASE Refresh
  BY <1>0, <1>3, <1>4, <1>5, ReadStep DEF ScreenInv
<1>6. CASE ~Refresh
  <2>1. PICK v : v = view
    OBVIOUS
  <2>2. PICK d : d = disputeView
    OBVIOUS
  <2>3. view' = v /\ disputeView' = d
    BY <1>6, <2>1, <2>2 DEF ScreenNext, Press, Elsewhere, screenVars
  <2>4. ASSUME v # NoView PROVE ShowsProposal(v)'
    BY <1>0, <1>6, <2>1, <2>4, ProposalShown DEF ViewInv
  <2>5. ShowsMediation(d)'
    BY <1>0, <1>2, <2>2, MediationShown DEF ViewInv
  <2>6. ViewInv'
    BY <2>3, <2>4, <2>5 DEF ViewInv, ShowsMediation, ShowsProposal
  <2> QED BY <1>0, <1>3, <1>4, <2>6 DEF ScreenInv
<1> QED BY <1>5, <1>6

-----------------------------------------------------------------------------
(* The promises, button by button. *)
LEMMA AcceptedAsShown ==
    ASSUME ScreenInv, view # NoView, ~behind, view.status = "Disputed", me \in Party,
           AcceptDeduction \/ FinalizeDeduction
    PROVE  /\ payout'["landlord"] = view.proposed_deduction
           /\ payout'["tenant"] = terms.deposit - view.proposed_deduction
<1>1. BookInv /\ proposed_deduction \in Nat
  BY DEF ScreenInv, SelectInv, BookInv, TypeInv, TypeOK
<1>2. status = "Disputed" /\ \E signers : CloseWithDeduction(proposed_deduction, signers)
  BY DEF AcceptDeduction, FinalizeDeduction
<1>3. proposed_deduction = view.proposed_deduction
  BY <1>2 DEF ScreenInv, ViewInv, ShowsProposal
<1> QED BY <1>1, <1>2, <1>3, DeductionPays DEF Holding

LEMMA ReturnedInFull ==
    ASSUME BookInv, ClaimDeposit \/ ReleaseDeposit
    PROVE  payout'["tenant"] = terms.deposit
<1>1. terms.deposit \in Nat
  BY DEF BookInv, TypeInv, TypeOK
<1>2. ASSUME ReleaseDeposit PROVE payout'["tenant"] = terms.deposit
  <2>1. Holding /\ CloseWithDeduction(0, {"landlord"})
    BY <1>2 DEF ReleaseDeposit, TermPaidAndEnded, Holding
  <2> QED BY <1>1, <2>1, DeductionPays
<1>3. ASSUME ClaimDeposit PROVE payout'["tenant"] = terms.deposit
  <2>1. status = "Active" /\ PayOutVault(PlainSplit(terms.deposit, 0), {"tenant"})
    BY <1>3, Zenon DEF ClaimDeposit
  <2>2. Holding /\ PlainSplit(terms.deposit, 0) \in Split
    BY <1>1, <2>1, PlainSplitConserves DEF Holding
  <2>3. payout' = PlainSplit(terms.deposit, 0)
    BY <2>1, <2>2, ClosePays
  <2> QED BY <1>1, <2>3, SharesFields DEF PlainSplit
<1> QED BY <1>2, <1>3

(* Others may only have added quotes to the rows that were shown.           *)
LEMMA PickedAsShown ==
    ASSUME ScreenInv, disputeView \notin {NoView, NoDispute},
           NEW n \in rowNames(disputeView), pickAppraiser(n), me \in Party,
           dispute'.agreed_name # NoName
    PROVE  /\ dispute'.agreed_name = n
           /\ dispute'.agreed_fee <= rowFee(disputeView, n)
<1> PICK s \in Spellings : Canon[s] = n /\ PickAppraiser(me, s)
  BY DEF pickAppraiser
<1> DEFINE picked == [dispute EXCEPT !.pick[me] = n]
<1>1. /\ dispute # NoDispute /\ dispute.agreed_name = NoName /\ was_proposed(dispute, n)
      /\ dispute' = IF picks_agree(picked)
                      THEN [picked EXCEPT !.agreed_name = n,
                                          !.agreed_fee = lowest_fee(dispute, n)]
                      ELSE picked
  BY DEF PickAppraiser, require_selection_open, name_agreed
<1>2. /\ dispute \in Dispute /\ disputeView \in Dispute
      /\ \A p \in Party : disputeView.candidates[p] \subseteq dispute.candidates[p]
  BY <1>1 DEF ScreenInv, ViewInv, ShowsMediation, StillThere, SelectInv, BookInv, TypeInv,
              TypeOK
<1>3. dispute'.agreed_name = n /\ dispute'.agreed_fee = lowest_fee(dispute, n)
  <2>1. picked.agreed_name = NoName /\ DOMAIN picked = DOMAIN dispute
    BY <1>1, <1>2 DEF Dispute
  <2>2. picks_agree(picked)
    BY <1>1, <2>1
  <2> HIDE DEF picked
  <2> QED BY <1>1, <1>2, <2>1, <2>2 DEF Dispute
<1>4. fees_for(disputeView, n) \subseteq fees_for(dispute, n)
  BY <1>2 DEF fees_for, all_candidates, Party
<1>5. was_proposed(disputeView, n)
  BY DEF rowNames, was_proposed, all_candidates
<1>6. rowFee(disputeView, n) = lowest_fee(disputeView, n)
  BY DEF rowFee, lowest_fee
<1>7. rowFee(disputeView, n) \in fees_for(disputeView, n)
  BY <1>2, <1>5, <1>6, LowestFeeExists
<1> QED BY <1>1, <1>2, <1>3, <1>4, <1>7, LowestFeeExists

LEMMA ConfirmedAsShown ==
    ASSUME ScreenInv, disputeView \notin {NoView, NoDispute}, me \in Party,
           phase(disputeView) = "wallet", ConfirmAppraiserKey(me, disputeView.proposed_key)
    PROVE  /\ dispute'.appraiser = disputeView.proposed_key
           /\ dispute'.agreed_fee = feeInPlay(disputeView)
<1>1. /\ dispute # NoDispute
      /\ dispute' = [dispute EXCEPT !.appraiser = disputeView.proposed_key,
                                    !.verdict_deadline = now + VERDICT_WINDOW_SECS]
  BY DEF ConfirmAppraiserKey, require_selection_open
<1>2. name_agreed(disputeView) /\ feeInPlay(disputeView) = disputeView.agreed_fee
  BY DEF phase, name_agreed, feeInPlay
<1>3. dispute \in Dispute /\ dispute.agreed_fee = disputeView.agreed_fee
  BY <1>1, <1>2 DEF ScreenInv, ViewInv, ShowsMediation, StillThere, SelectInv, BookInv,
                    TypeInv, TypeOK
<1> QED BY <1>1, <1>2, <1>3 DEF Dispute

LEMMA DecidedAsShown ==
    ASSUME ScreenInv, disputeView \notin {NoView, NoDispute}, me \in Others,
           disputeView.appraiser = me, NEW k \in Deductions, SubmitVerdict(me, k)
    PROVE  payout' = verdictSplit(terms.deposit, k,
                                  feeFor(terms.deposit, disputeView.agreed_fee))
<1>1. /\ status = "Mediation" /\ dispute # NoDispute /\ k <= terms.deposit
      /\ PayOutVault(VerdictSplit(terms.deposit, k, dispute.agreed_fee), {me})
  BY Zenon DEF SubmitVerdict, CloseWith
<1>2. BookInv /\ Holding
  BY <1>1 DEF ScreenInv, SelectInv, Holding
<1>3. dispute \in Dispute /\ terms.deposit \in Nat /\ k \in Nat
  BY <1>1, LeaseAssumption DEF ScreenInv, SelectInv, BookInv, TypeInv, TypeOK
<1>4. name_agreed(disputeView)
  BY LeaseAssumption DEF ScreenInv, ViewInv, ShowsMediation, is_bound
<1>5. dispute.agreed_fee = disputeView.agreed_fee /\ dispute.agreed_fee \in Nat
  BY <1>1, <1>3, <1>4 DEF ScreenInv, ViewInv, ShowsMediation, StillThere, Dispute
<1>6. VerdictSplit(terms.deposit, k, dispute.agreed_fee) \in Split
  BY <1>1, <1>3, <1>5, VerdictSplitConserves
<1>7. payout' = VerdictSplit(terms.deposit, k, dispute.agreed_fee)
  BY <1>1, <1>2, <1>6, ClosePays
<1> QED BY <1>1, <1>3, <1>5, <1>7, SplitForeseen

LEMMA PromiseKept ==
    ASSUME ScreenInv, ~behind, NEW t, NEW m \in Offered(t), Submit(m) PROVE Promised(m)
<1>0. /\ view # NoView /\ m \in Move /\ me \in Wallet /\ Party \cap Others = {}
      /\ BookInv
  BY LeaseAssumption DEF Offered, LeaseTab, ScreenInv, SelectInv
<1>1. ASSUME m[1] \in {"accept", "finalize"}
      PROVE  /\ payout'["landlord"] = view.proposed_deduction
             /\ payout'["tenant"] = terms.deposit - view.proposed_deduction
  <2>1. view.status = "Disputed" /\ me \in Party
    BY <1>1 DEF Offered, LeaseTab, AcceptLease, ActiveLease, DisputedLease, MediationLease,
                VerdictCase, Party, rejection
  <2>2. AcceptDeduction \/ FinalizeDeduction
    BY <1>1 DEF Submit, TenantSubmits, LandlordSubmits, MediationSubmits
  <2> QED BY <1>0, <2>1, <2>2, AcceptedAsShown
<1>2. ASSUME m[1] = "claim" \/ (m[1] = "release" /\ m[2] = 0)
      PROVE  payout'["tenant"] = terms.deposit
  <2>1. ClaimDeposit \/ ReleaseDeposit
    BY <1>2 DEF Submit, TenantSubmits, LandlordSubmits, MediationSubmits, releaseDeposit
  <2> QED BY <1>0, <2>1, ReturnedInFull
<1>3. ASSUME m[1] = "abandon" PROVE status' = "Active"
  BY <1>3 DEF Submit, TenantSubmits, LandlordSubmits, MediationSubmits, AbandonDispute
<1>4. ASSUME m[1] = "escalate" PROVE status' = "Mediation"
  BY <1>4 DEF Submit, TenantSubmits, LandlordSubmits, MediationSubmits, EscalateToMediation
<1>5. ASSUME m[1] = "expire" PROVE status' = "Active" /\ payout' = payout
  BY <1>5 DEF Submit, TenantSubmits, LandlordSubmits, MediationSubmits, ExpireMediation,
              moneyVars
<1>6. ASSUME m[1] = "pick", dispute'.agreed_name # NoName
      PROVE  /\ dispute'.agreed_name = m[2]
             /\ dispute'.agreed_fee <= rowFee(disputeView, m[2])
  <2>1. disputeView \notin {NoView, NoDispute} /\ m[2] \in rowNames(disputeView)
    BY <1>6 DEF Offered, LeaseTab, AcceptLease, ActiveLease, DisputedLease, MediationLease,
                VerdictCase, rejection
  <2>2. me \in Party /\ pickAppraiser(m[2])
    BY <1>6 DEF Submit, TenantSubmits, LandlordSubmits, MediationSubmits
  <2> QED BY <1>0, <1>6, <2>1, <2>2, PickedAsShown
<1>7. ASSUME m[1] = "confirm"
      PROVE  /\ dispute'.appraiser = disputeView.proposed_key
             /\ feeFor(terms.deposit, dispute'.agreed_fee)
                  = feeFor(terms.deposit, feeInPlay(disputeView))
  <2>1. /\ disputeView \notin {NoView, NoDispute} /\ phase(disputeView) = "wallet"
        /\ m[2] = disputeView.proposed_key
    BY <1>7 DEF Offered, LeaseTab, AcceptLease, ActiveLease, DisputedLease, MediationLease,
                VerdictCase, rejection
  <2>2. me \in Party /\ ConfirmAppraiserKey(me, m[2])
    BY <1>7 DEF Submit, TenantSubmits, LandlordSubmits, MediationSubmits, confirmAppraiserKey
  <2> QED BY <1>0, <2>1, <2>2, ConfirmedAsShown
<1>8. ASSUME m[1] = "verdict"
      PROVE  payout' = verdictSplit(terms.deposit, m[2],
                                    feeFor(terms.deposit, disputeView.agreed_fee))
  <2>1. disputeView \notin {NoView, NoDispute} /\ disputeView.appraiser = me
    BY <1>8 DEF Offered, LeaseTab, AcceptLease, ActiveLease, DisputedLease, MediationLease,
                VerdictCase, rejection
  <2>2. me \in Others /\ m[2] \in Deductions /\ SubmitVerdict(me, m[2])
    BY <1>0, <1>8, MoveTyped
       DEF Submit, TenantSubmits, LandlordSubmits, MediationSubmits, submitVerdict
  <2> QED BY <1>0, <2>1, <2>2, DecidedAsShown
<1> QED BY <1>1, <1>2, <1>3, <1>4, <1>5, <1>6, <1>7, <1>8 DEF Promised

(* What you see is what you sign (screens.tsx, Mediation.tsx, Appraise.tsx  *)
(* on a lease and a Dispute account each of any age, by any clock):         *)
(* whatever anybody did since either was read, an accepted button does what *)
(* it said, unless the user's own hand signed something in between.         *)
THEOREM ButtonsKeepTheirPromise == ScreenSpec => ButtonKeepsPromise
<1>1. ScreenInv /\ [ScreenNext]_<<vars, screenVars>>
        => [ ~behind => \A t \in ClockValues : \A m \in Offered(t) : Submit(m) => Promised(m)
           ]_<<vars, screenVars>>
  BY PromiseKept
<1> QED
  BY <1>1, ScreenInvInit, ScreenInvStep, PTL DEF ScreenSpec, ButtonKeepsPromise

-----------------------------------------------------------------------------
(* The two guards.  The program counts rents up to the term, and reads one  *)
(* list of companies at a time.                                             *)
PaidInv ==
    /\ paid_count <= terms.term
    /\ status \in {"None", "Proposed"} => paid_count = 0

LEMMA PaidStep == ASSUME SelectInv, PaidInv, [Next]_vars PROVE PaidInv'
<1>0. TypeOK /\ TypeOK'
  BY TypeStep DEF SelectInv, BookInv, TypeInv
<1>1. ASSUME NEW o \in Offers, ProposeLease(o) PROVE PaidInv'
  <2>1. status = "None" /\ paid_count' = paid_count
    BY <1>1 DEF ProposeLease, recordVars
  <2> QED BY <1>0, <2>1 DEF PaidInv, TypeOK
<1>2. ASSUME NEW a \in 0 .. terms.rent, PayRent(a) PROVE PaidInv'
  <2>1. status = "Active" /\ status' = status /\ terms' = terms
        /\ paid_count < terms.term /\ paid_count' = paid_count + 1
    BY <1>2 DEF PayRent
  <2> QED BY <1>0, <2>1 DEF PaidInv, TypeOK
<1>3. ASSUME UNCHANGED <<terms, paid_count>>,
             status' \in {"None", "Proposed"} => status' = status
      PROVE  PaidInv'
  BY <1>3 DEF PaidInv
<1> USE DEF clockVars, stretchVars, claimVars, moneyVars, recordVars
<1>4. ASSUME NEW split, NEW k, NEW signers, CloseWith(split, k, signers) PROVE PaidInv'
  <2>1. UNCHANGED <<terms, paid_count>> /\ status' = "Closed"
    BY <1>4, Zenon DEF CloseWith
  <2> QED BY <1>3, <2>1
<1>5. ASSUME LandlordStep, \A o \in Offers : ~ProposeLease(o) PROVE PaidInv'
  <2>1. CASE MarkDefault
    <3>1. UNCHANGED <<terms, paid_count>> /\ status' = "Defaulted"
      BY <2>1, Zenon DEF MarkDefault
    <3> QED BY <1>3, <3>1
  <2> QED BY <1>3, <1>4, <1>5, <2>1
          DEF LandlordStep, ReleaseDeposit, ProposeDeduction, FinalizeDeduction,
              CloseWithDeduction
<1>6. ASSUME TenantStep, \A a \in 0 .. terms.rent : ~PayRent(a) PROVE PaidInv'
  <2>1. CASE ClaimDeposit
    <3>1. UNCHANGED <<terms, paid_count>> /\ status' = "Closed"
      BY <2>1, Zenon DEF ClaimDeposit
    <3> QED BY <1>3, <3>1
  <2>2. CASE FundDeposit
    BY <1>3, <2>2 DEF FundDeposit
  <2> QED BY <1>3, <1>4, <1>6, <2>1, <2>2
          DEF TenantStep, AcceptDeduction, AbandonDispute, EscalateToMediation,
              CloseWithDeduction
<1>7. ASSUME NEW p \in Party, SelectionBy(p) PROVE PaidInv'
  BY <1>3, <1>7, SelectionType DEF SelectInv, BookInv, UnchangedBySelection
<1>8. CASE MediationExit \/ JointStep
  <2>1. ASSUME NEW w \in Wallet, ExpireMediation(w) PROVE PaidInv'
    BY <1>3, <2>1 DEF ExpireMediation
  <2> QED BY <1>4, <1>8, <2>1
          DEF MediationExit, JointStep, SubmitVerdict, SettleDispute, CloseWithDeduction
<1>9. CASE KycChange \/ Tick \/ UNCHANGED vars
  BY <1>3, <1>9 DEF KycChange, Tick, vars
<1> QED
  BY <1>1, <1>2, <1>5, <1>6, <1>7, <1>8, <1>9 DEF Next, Instruction, SelectionStep

LEMMA PartyOrOutsider == \A w \in Party : w \notin Others
BY LeaseAssumption DEF Party

LEMMA SeenFields ==
    /\ Seen.status = status /\ Seen.start_ts = start_ts
    /\ Seen.paid_count = paid_count /\ Seen.claim_pause_secs = claim_pause_secs
    /\ Seen.dispute_rounds = dispute_rounds /\ Seen.disputed_at = disputed_at
BY DEF Seen

(* On a view that shows what there is, the app's clocks are the program's.  *)
LEMMA ClocksSeen ==
    ASSUME TypeOK, PaidInv
    PROVE  /\ canPay(Seen, now) <=> paid_count < terms.term /\ now >= due
           /\ canDefault(Seen, now) <=> /\ paid_count < terms.term
                                   /\ now > due + terms.grace + terms.period
           /\ canRelease(Seen, now) <=> paid_count = terms.term /\ now >= end_ts
           /\ canClaim(Seen, now) <=> paid_count = terms.term /\ now >= claim_deadline
           /\ answerOpen(Seen, now) <=> now < dispute_deadline
<1>1. /\ now \in Nat /\ start_ts \in Nat /\ paid_count \in Nat /\ terms.term \in Nat
      /\ terms.period \in Nat /\ terms.grace \in Nat /\ claim_pause_secs \in Nat
      /\ disputed_at \in Nat /\ DISPUTE_WINDOW_SECS \in Nat /\ CLAIM_WINDOW_SECS \in Nat
      /\ paid_count <= terms.term
  BY LeaseAssumption DEF TypeOK, PaidInv
<1>2. PICK v : v = Seen
  OBVIOUS
<1>3. /\ v.start_ts = start_ts /\ v.paid_count = paid_count
      /\ v.claim_pause_secs = claim_pause_secs /\ v.disputed_at = disputed_at
  BY <1>2, SeenFields
<1>4. allPaid(v) <=> paid_count = terms.term
  BY <1>1, <1>3 DEF allPaid
<1>5. /\ dueSeen(v) = due /\ due \in Int
      /\ endSeen(v) = end_ts /\ end_ts \in Int
  BY <1>1, <1>3 DEF dueSeen, endSeen, due, end_ts
<1>6. /\ canPay(v, now) <=> paid_count < terms.term /\ now >= due
      /\ canDefault(v, now) <=> /\ paid_count < terms.term
                           /\ now > due + terms.grace + terms.period
  BY <1>1, <1>3, <1>4, <1>5 DEF canPay, canDefault
<1>7. /\ canRelease(v, now) <=> paid_count = terms.term /\ now >= end_ts
      /\ canClaim(v, now) <=> paid_count = terms.term /\ now >= claim_deadline
  BY <1>1, <1>3, <1>4, <1>5 DEF canRelease, canClaim, claim_deadline
<1>8. answerOpen(v, now) <=> now < dispute_deadline
  BY <1>1, <1>3 DEF answerOpen, dispute_deadline
<1> QED BY <1>2, <1>6, <1>7, <1>8

(* The app's reading of a Dispute account is the program's. *)
LEMMA MediationSeen ==
    ASSUME NEW d \in Dispute, now \in Nat
    PROVE  /\ selectionOpen(d, now) <=> selection_open(d)
           /\ canExpire(d, now) <=> may_expire(d)
           /\ phase(d) = "bound" <=> is_bound(d)
           /\ phase(d) = "wallet" <=> ~is_bound(d) /\ name_agreed(d)
           /\ phase(d) = "names" <=> ~is_bound(d) /\ ~name_agreed(d)
           /\ \A n : n \in rowNames(d) <=> was_proposed(d, n)
           /\ me \in Party =>
                 (keyProposalsLeft(d) > 0 <=>
                     d.key_proposals[me] < MAX_KEY_PROPOSALS_PER_PARTY)
           /\ selection_open(d) => ~may_expire(d) /\ ~is_bound(d)
<1>1. d.selection_deadline \in Nat /\ d.verdict_deadline \in Nat
      /\ (me \in Party => d.key_proposals[me] \in Nat)
  BY DEF Dispute
<1>2. /\ selectionOpen(d, now) <=> selection_open(d)
      /\ canExpire(d, now) <=> may_expire(d)
  BY DEF selectionOpen, selection_open, is_bound, canExpire, may_expire
<1>3. /\ phase(d) = "bound" <=> is_bound(d)
      /\ phase(d) = "wallet" <=> ~is_bound(d) /\ name_agreed(d)
      /\ phase(d) = "names" <=> ~is_bound(d) /\ ~name_agreed(d)
  BY DEF phase, is_bound, name_agreed
<1>4. \A n : n \in rowNames(d) <=> was_proposed(d, n)
  BY DEF rowNames, was_proposed, all_candidates
<1>5. me \in Party => (keyProposalsLeft(d) > 0 <=>
                           d.key_proposals[me] < MAX_KEY_PROPOSALS_PER_PARTY)
  <2>1. MAX_KEY_PROPOSALS_PER_PARTY \in Int
    BY DEF MAX_KEY_PROPOSALS_PER_PARTY
  <2> QED BY <1>1, <2>1 DEF keyProposalsLeft, Larger
<1>6. ASSUME selection_open(d) PROVE ~may_expire(d) /\ ~is_bound(d)
  BY <1>1, <1>6 DEF selection_open, may_expire, is_bound
<1> QED BY <1>2, <1>3, <1>4, <1>5, <1>6

(* draftProblem refuses exactly the lists that the program refuses.         *)
LEMMA DraftSeen ==
    ASSUME NEW list \in CandidateLists PROVE DraftSendable(list) <=> list_allowed(list)
<1>1. Cardinality(list) \in Nat /\ (Cardinality(list) = 0 <=> list = {})
  BY LeaseAssumption, FS_CardinalityType, FS_EmptySet
<1>2. (list # {} /\ Cardinality(list) <= MAX_CANDIDATES)
        <=> Cardinality(list) \in 1 .. MAX_CANDIDATES
  BY <1>1 DEF MAX_CANDIDATES
<1>3. feeCap(terms.deposit) = AppraiserFeeCap(terms.deposit)
  BY DEF feeCap, AppraiserFeeCap
<1> QED BY <1>2, <1>3 DEF DraftSendable, list_allowed

Guarded == SelectInv /\ PaidInv /\ me \in Wallet

LEMMA OfferedToProgram ==
    ASSUME Guarded, Fresh, NEW m \in Move, LeaseTab(Seen, disputeView, now, m)
    PROVE  \/ Accepts(m)
           \/ m[1] = "fund" /\ "tenant" \notin cleared
           \/ m[1] = "release" /\ m[2] # 0 /\ dispute_rounds = MAX_DISPUTE_ROUNDS
           \/ m[1] = "pay" /\ ~rent_fits
<1> DEFINE Goal == \/ Accepts(m)
                   \/ m[1] = "fund" /\ "tenant" \notin cleared
                   \/ m[1] = "release" /\ m[2] # 0 /\ dispute_rounds = MAX_DISPUTE_ROUNDS
                   \/ m[1] = "pay" /\ ~rent_fits
<1> SUFFICES Goal OBVIOUS
<1>1. TypeOK /\ PaidInv /\ dispute_rounds \in 0 .. 2 /\ MAX_DISPUTE_ROUNDS = 2 /\ now \in Nat
  BY DEF Guarded, SelectInv, BookInv, TypeInv, TypeOK, MAX_DISPUTE_ROUNDS
<1>2. CASE AcceptLease(Seen, m)
  BY <1>2, SeenFields DEF AcceptLease, Accepts, TenantMay
<1>3. CASE ActiveLease(Seen, now, m)
  <2>1. status = "Active" /\ m[1] \in {"pay", "claim", "release", "markDefault"}
    BY <1>3, SeenFields DEF ActiveLease
  <2>2. m[1] = "pay" => me = "tenant" /\ paid_count < terms.term /\ now >= due
    BY <1>1, <1>3, ClocksSeen DEF ActiveLease
  <2>3. m[1] = "claim" => me = "tenant" /\ paid_count = terms.term /\ now >= claim_deadline
    BY <1>1, <1>3, ClocksSeen DEF ActiveLease
  <2>4. m[1] = "release" => /\ me = "landlord" /\ paid_count = terms.term /\ now >= end_ts
                            /\ m[2] <= terms.deposit
    BY <1>1, <1>3, ClocksSeen DEF ActiveLease
  <2>5. m[1] = "markDefault" => /\ me = "landlord" /\ paid_count < terms.term
                                /\ now > due + terms.grace + terms.period
    BY <1>1, <1>3, ClocksSeen DEF ActiveLease
  <2>6. dispute_rounds # MAX_DISPUTE_ROUNDS => may_propose_deduction
    BY <1>1 DEF may_propose_deduction
  <2>7. CASE m[1] \in {"pay", "claim"}
    BY <2>1, <2>2, <2>3, <2>7 DEF Accepts, TenantMay
  <2>8. CASE m[1] \in {"release", "markDefault"}
    BY <2>1, <2>4, <2>5, <2>6, <2>8 DEF Accepts, LandlordMay, TermPaidAndEnded
  <2> QED BY <2>1, <2>7, <2>8
<1>4. CASE DisputedLease(Seen, now, m)
  <2>1. status = "Disputed"
    BY <1>4, SeenFields DEF DisputedLease
  <2>2. answerOpen(Seen, now) <=> now < dispute_deadline
    BY <1>1, ClocksSeen
  <2>3. CASE me = "tenant" /\ answerOpen(Seen, now) /\ m[1] = rejection(Seen)
    <3>1. \/ m[1] = "abandon" /\ dispute_rounds + 1 < MAX_DISPUTE_ROUNDS
          \/ m[1] = "escalate" /\ dispute_rounds + 1 = MAX_DISPUTE_ROUNDS
      BY <2>3, SeenFields DEF rejection, Move
    <3> QED BY <2>1, <2>2, <2>3, <3>1 DEF Accepts, TenantMay
  <2>4. CASE me = "tenant" /\ m[1] = "accept"
    BY <2>1, <2>4 DEF Accepts, TenantMay
  <2>5. CASE me = "landlord" /\ ~answerOpen(Seen, now) /\ m[1] = "finalize"
    <3>1. dispute_deadline \in Int
      BY <1>1, LeaseAssumption DEF TypeOK, dispute_deadline
    <3> QED BY <1>1, <2>1, <2>2, <2>5, <3>1 DEF Accepts, LandlordMay
  <2> QED BY <1>4, <2>3, <2>4, <2>5 DEF DisputedLease
<1>5. CASE MediationLease(Seen, disputeView, now, m)
  <2>1. PICK d : d = dispute
    OBVIOUS
  <2>2. status = "Mediation" /\ d # NoDispute /\ me \in Party /\ disputeView = d
    BY <1>5, <2>1, SeenFields, PartyOrOutsider DEF MediationLease, Fresh
  <2>3. d \in Dispute
    BY <1>1, <2>1, <2>2 DEF TypeOK
  <2>4. MediatorsMay(m)
    <3>1. \/ canExpire(d, now) /\ m[1] = "expire"
          \/ phase(d) = "wallet" /\ canConfirmKey(d, now) /\ m[1] = "confirm"
             /\ m[2] = d.proposed_key
          \/ phase(d) = "wallet" /\ canProposeKey(d, now) /\ m[1] = "putForward"
             /\ m[2] \notin Party \cup {NoKey}
          \/ /\ ~canExpire(d, now) /\ phase(d) = "names"
             /\ \/ canProposeNames(d, now) /\ m[1] = "names" /\ DraftSendable(m[2])
                \/ m[1] = "pick" /\ m[2] \in rowNames(d)
      BY <1>5, <2>2, SeenFields DEF MediationLease
    <3>2. CASE canExpire(d, now) /\ m[1] = "expire"
      BY <1>1, <2>1, <2>2, <2>3, <3>2, MediationSeen DEF MediatorsMay
    <3>3. CASE phase(d) = "wallet" /\ canConfirmKey(d, now) /\ m[1] = "confirm"
               /\ m[2] = d.proposed_key
      <4>1. selection_open(d) /\ name_agreed(d)
        BY <1>1, <2>3, <3>3, MediationSeen DEF canConfirmKey
      <4>2. confirms_proposal(me, m[2])
        BY <2>1, <3>3 DEF canConfirmKey, confirms_proposal
      <4> QED BY <2>1, <2>2, <3>3, <4>1, <4>2 DEF MediatorsMay, require_selection_open
    <3>4. CASE phase(d) = "wallet" /\ canProposeKey(d, now) /\ m[1] = "putForward"
               /\ m[2] \notin Party \cup {NoKey}
      <4>1. /\ selection_open(d) /\ name_agreed(d)
            /\ d.key_proposals[me] < MAX_KEY_PROPOSALS_PER_PARTY
        BY <1>1, <2>2, <2>3, <3>4, MediationSeen DEF canProposeKey
      <4> QED BY <2>1, <2>2, <3>4, <4>1 DEF MediatorsMay, require_selection_open
    <3>5. CASE /\ ~canExpire(d, now) /\ phase(d) = "names"
               /\ \/ canProposeNames(d, now) /\ m[1] = "names" /\ DraftSendable(m[2])
                  \/ m[1] = "pick" /\ m[2] \in rowNames(d)
      <4>1. selection_open(d) /\ ~name_agreed(d)
        <5>1. ~is_bound(d) /\ ~name_agreed(d) /\ ~may_expire(d)
          BY <1>1, <2>3, <3>5, MediationSeen
        <5>2. d.selection_deadline \in Nat
          BY <2>3 DEF Dispute
        <5> QED BY <1>1, <5>1, <5>2 DEF selection_open, may_expire
      <4>2. m[1] = "names" => d.candidates[me] = {} /\ list_allowed(m[2])
        BY <3>5, MoveTyped, DraftSeen DEF canProposeNames
      <4>3. m[1] = "pick" => was_proposed(d, m[2])
        BY <1>1, <2>3, <3>5, MediationSeen
      <4> QED BY <2>1, <2>2, <3>5, <4>1, <4>2, <4>3 DEF MediatorsMay, require_selection_open
    <3> QED BY <3>1, <3>2, <3>3, <3>4, <3>5
  <2> QED BY <2>2, <2>4 DEF Accepts
<1>6. CASE VerdictCase(Seen, disputeView, now, m)
  <2>1. /\ status = "Mediation" /\ dispute # NoDispute /\ dispute.appraiser = me
        /\ verdictOpen(dispute, now) /\ m[1] = "verdict" /\ m[2] <= terms.deposit
    BY <1>6, SeenFields DEF VerdictCase, Fresh, CaseOf
  <2>2. is_bound(dispute) /\ now < dispute.verdict_deadline
    BY <2>1 DEF verdictOpen, is_bound
  <2>3. me \in Others
    BY <2>1, <2>2 DEF Guarded, SelectInv, AppraiserEndorsedByBoth
  <2> QED BY <2>1, <2>2, <2>3 DEF Accepts, VerdictMay
<1> QED BY <1>2, <1>3, <1>4, <1>5, <1>6 DEF LeaseTab

LEMMA ProgramToOffered ==
    ASSUME Guarded, Fresh, NEW m \in Move, Accepts(m)
    PROVE  LeaseTab(Seen, disputeView, now, m) \/ (m[1] = "pick" /\ m[2] = dispute.pick[me])
<1>0. Seen # NoView
  BY DEF Fresh
<1>1. TypeOK /\ PaidInv /\ now \in Nat
  BY DEF Guarded, SelectInv, BookInv, TypeInv, TypeOK
<1>2. CASE me = "tenant" /\ TenantMay(m)
  <2>1. CASE m[1] = "fund"
    BY <1>0, <1>2, <2>1, SeenFields DEF TenantMay, LeaseTab, AcceptLease
  <2>2. CASE m[1] \in {"pay", "claim"}
    <3>1. /\ status = "Active"
          /\ m[1] = "pay" => paid_count < terms.term /\ now >= due
          /\ m[1] = "claim" => paid_count = terms.term /\ now >= claim_deadline
      BY <1>2, <2>2 DEF TenantMay
    <3>2. ActiveLease(Seen, now, m)
      BY <1>1, <1>2, <2>2, <3>1, SeenFields, ClocksSeen DEF ActiveLease
    <3> QED BY <1>0, <3>2 DEF LeaseTab
  <2>3. CASE m[1] = "accept"
    BY <1>0, <1>2, <2>3, SeenFields DEF TenantMay, LeaseTab, DisputedLease
  <2>4. CASE m[1] \in {"abandon", "escalate"}
    <3>1. /\ status = "Disputed" /\ now < dispute_deadline
          /\ m[1] = "abandon" => dispute_rounds + 1 < MAX_DISPUTE_ROUNDS
          /\ m[1] = "escalate" => dispute_rounds + 1 = MAX_DISPUTE_ROUNDS
      BY <1>2, <2>4 DEF TenantMay
    <3>2. m[1] = rejection(Seen)
      BY <2>4, <3>1, SeenFields DEF rejection, MAX_DISPUTE_ROUNDS
    <3>3. DisputedLease(Seen, now, m)
      BY <1>1, <1>2, <3>1, <3>2, SeenFields, ClocksSeen DEF DisputedLease
    <3> QED BY <1>0, <3>3 DEF LeaseTab
  <2> QED BY <1>2, <2>1, <2>2, <2>3, <2>4 DEF TenantMay
<1>3. CASE me = "landlord" /\ LandlordMay(m)
  <2>1. CASE m[1] \in {"markDefault", "release"}
    <3>1. /\ status = "Active"
          /\ m[1] = "markDefault" => /\ paid_count < terms.term
                                     /\ now > due + terms.grace + terms.period
          /\ m[1] = "release" => /\ paid_count = terms.term /\ now >= end_ts
                                 /\ m[2] <= terms.deposit
      BY <1>3, <2>1 DEF LandlordMay, TermPaidAndEnded
    <3>2. ActiveLease(Seen, now, m)
      BY <1>1, <1>3, <2>1, <3>1, SeenFields, ClocksSeen DEF ActiveLease
    <3> QED BY <1>0, <3>2 DEF LeaseTab
  <2>2. CASE m[1] = "finalize"
    <3>1. status = "Disputed" /\ now >= dispute_deadline
      BY <1>3, <2>2 DEF LandlordMay
    <3>2. dispute_deadline \in Int
      BY <1>1, LeaseAssumption DEF TypeOK, dispute_deadline
    <3>3. ~answerOpen(Seen, now)
      BY <1>1, <3>1, <3>2, ClocksSeen
    <3>4. DisputedLease(Seen, now, m)
      BY <1>3, <2>2, <3>1, <3>3, SeenFields DEF DisputedLease
    <3> QED BY <1>0, <3>4 DEF LeaseTab
  <2> QED BY <1>3, <2>1, <2>2 DEF LandlordMay
<1>4. CASE me \in Party /\ MediatorsMay(m)
  <2>1. PICK d : d = dispute
    OBVIOUS
  <2>2. status = "Mediation" /\ d # NoDispute /\ Seen.status = status
    BY <1>4, <2>1, SeenFields
       DEF MediatorsMay, require_selection_open, Guarded, SelectInv, BookInv,
           DisputeBookkeeping
  <2>3. d \in Dispute
    BY <1>1, <2>1, <2>2 DEF TypeOK
  <2>c. disputeView = d /\ d \notin {NoView, NoDispute}
    BY <1>4, <2>1, <2>2, <2>3, PartyOrOutsider, ScreenAssumption DEF Fresh
  <2>4. CASE m[1] = "expire"
    <3>1. canExpire(d, now)
      BY <1>1, <1>4, <2>1, <2>3, <2>4, MediationSeen DEF MediatorsMay
    <3> QED BY <1>0, <1>4, <2>2, <2>c, <2>4, <3>1 DEF LeaseTab, MediationLease
  <2>5. CASE m[1] \in {"pick", "names"}
    <3>1. /\ selection_open(d) /\ ~name_agreed(d)
          /\ m[1] = "pick" => was_proposed(d, m[2])
          /\ m[1] = "names" => d.candidates[me] = {} /\ list_allowed(m[2])
      BY <1>4, <2>1, <2>5 DEF MediatorsMay, require_selection_open
    <3>2. ~canExpire(d, now) /\ phase(d) = "names" /\ selectionOpen(d, now)
      BY <1>1, <2>3, <3>1, MediationSeen
    <3>3. m[1] = "names" => canProposeNames(d, now) /\ DraftSendable(m[2])
      BY <3>1, <3>2, MoveTyped, DraftSeen DEF canProposeNames, name_agreed
    <3>4. m[1] = "pick" => m[2] \in rowNames(d)
      BY <1>1, <2>3, <3>1, MediationSeen
    <3>5. MediationLease(Seen, disputeView, now, m) \/ (m[1] = "pick" /\ m[2] = d.pick[me])
      BY <1>4, <2>2, <2>c, <2>5, <3>2, <3>3, <3>4 DEF MediationLease
    <3> QED BY <1>0, <2>1, <3>5 DEF LeaseTab
  <2>6. CASE m[1] \in {"confirm", "putForward"}
    <3>1. /\ selection_open(d) /\ name_agreed(d)
          /\ m[1] = "confirm" => confirms_proposal(me, m[2])
          /\ m[1] = "putForward" => /\ m[2] \notin Party \cup {NoKey}
                                    /\ d.key_proposals[me] < MAX_KEY_PROPOSALS_PER_PARTY
      BY <1>4, <2>1, <2>6 DEF MediatorsMay, require_selection_open
    <3>2. ~canExpire(d, now) /\ phase(d) = "wallet" /\ selectionOpen(d, now)
      BY <1>1, <2>3, <3>1, MediationSeen
    <3>3. m[1] = "confirm" => canConfirmKey(d, now) /\ m[2] = d.proposed_key
      BY <2>1, <3>1, <3>2 DEF canConfirmKey, confirms_proposal, name_agreed
    <3>4. m[1] = "putForward" => canProposeKey(d, now)
      BY <1>1, <1>4, <2>3, <3>1, <3>2, MediationSeen DEF canProposeKey, name_agreed
    <3>5. MediationLease(Seen, disputeView, now, m)
      BY <1>4, <2>2, <2>c, <2>6, <3>1, <3>2, <3>3, <3>4 DEF MediationLease
    <3> QED BY <1>0, <3>5 DEF LeaseTab
  <2> QED BY <1>4, <2>4, <2>5, <2>6 DEF MediatorsMay
<1>5. CASE me \in Others /\ VerdictMay(m)
  <2>1. /\ m[1] = "verdict" /\ status = "Mediation" /\ dispute.appraiser = me
        /\ now < dispute.verdict_deadline /\ m[2] <= terms.deposit
    BY <1>5 DEF VerdictMay
  <2>2. dispute # NoDispute /\ me # NoKey
    BY <1>5, <2>1, LeaseAssumption DEF Guarded, SelectInv, BookInv, DisputeBookkeeping
  <2>3. disputeView = dispute /\ dispute \in Dispute
    BY <1>1, <1>5, <2>1, <2>2 DEF Fresh, CaseOf, TypeOK
  <2>4. VerdictCase(Seen, disputeView, now, m)
    BY <2>1, <2>2, <2>3, SeenFields, ScreenAssumption DEF VerdictCase, verdictOpen
  <2> QED BY <1>0, <2>4 DEF LeaseTab
<1> QED BY <1>2, <1>3, <1>4, <1>5 DEF Accepts

LEMMA GuardedAlways == ScreenSpec => []Guarded
<1>1. ScreenInit => ScreenInv /\ PaidInv
  <2>1. ScreenInit => PaidInv
    BY DEF ScreenInit, Init, NoTerms, PaidInv
  <2> QED BY <2>1, ScreenInvInit
<1>2. ScreenInv /\ PaidInv /\ [ScreenNext]_<<vars, screenVars>> => (ScreenInv /\ PaidInv)'
  <2> SUFFICES ASSUME ScreenInv, PaidInv, [ScreenNext]_<<vars, screenVars>> PROVE PaidInv'
    BY ScreenInvStep
  <2>1. terms.rent \in Nat
    BY DEF ScreenInv, SelectInv, BookInv, TypeInv, TypeOK
  <2> QED BY <2>1, ScreenStepIsStep, PaidStep DEF ScreenInv
<1>3. ScreenInv /\ PaidInv => Guarded
  BY DEF ScreenInv, Guarded
<1> QED BY <1>1, <1>2, <1>3, PTL DEF ScreenSpec

(* No button of a fresh view (screens.tsx, lib/mediation.ts) runs into a    *)
(* refusal of the program, but for the three that are left to it.           *)
THEOREM OffersAreAccepted == ScreenSpec => []OfferedIsAccepted
<1>1. Guarded => OfferedIsAccepted
  BY OfferedToProgram DEF OfferedIsAccepted, Fresh, Offered
<1> QED BY <1>1, GuardedAlways, PTL

(* No move that the program would accept of this wallet is kept from it.    *)
THEOREM NothingIsHidden == ScreenSpec => []NoMoveHidden
<1>1. Guarded => NoMoveHidden
  BY ProgramToOffered DEF NoMoveHidden, Fresh, Offered
<1> QED BY <1>1, GuardedAlways, PTL

(* The two copies of every guard agree, in every state of a lease and for   *)
(* every wallet in front of it (screens.tsx, lib/mediation.ts).             *)
THEOREM ButtonsAreTheMoves == ScreenSpec => []ButtonsMatchProgram
<1>1. OfferedIsAccepted /\ NoMoveHidden => ButtonsMatchProgram
  BY DEF ButtonsMatchProgram
<1> QED BY <1>1, OffersAreAccepted, NothingIsHidden, PTL

(* One half of NoOtherRefusal needs no ENABLED: an instruction that was     *)
(* accepted had none of the listed reasons against it.                      *)
LEMMA AcceptedHadNoReason ==
    ASSUME Guarded, NEW m \in Move, Submit(m) PROVE Accepts(m)
<1>1. CASE me = "tenant" /\ TenantSubmits(m)
  <2>1. ASSUME m[1] = "claim", ClaimDeposit
        PROVE  status = "Active" /\ paid_count = terms.term /\ now >= claim_deadline
    BY <2>1, Zenon DEF ClaimDeposit
  <2>2. ASSUME m[1] = "pay", PayRent(terms.rent)
        PROVE  status = "Active" /\ paid_count < terms.term /\ now >= due /\ rent_fits
    BY <2>2, Zenon DEF PayRent
  <2>3. TenantMay(m)
    BY <1>1, <2>1, <2>2
       DEF TenantSubmits, TenantMay, FundDeposit, AcceptDeduction, AbandonDispute,
           EscalateToMediation
  <2> QED BY <1>1, <2>3 DEF Accepts
<1>2. CASE me = "landlord" /\ LandlordSubmits(m)
  <2>1. ASSUME m[1] = "markDefault", MarkDefault
        PROVE  /\ status = "Active" /\ paid_count < terms.term
               /\ now > due + terms.grace + terms.period
    BY <2>1, Zenon DEF MarkDefault
  <2>2. ASSUME m[1] = "release", releaseDeposit(m[2])
        PROVE  /\ TermPaidAndEnded /\ m[2] <= terms.deposit
               /\ m[2] # 0 => may_propose_deduction
    <3>1. terms.deposit \in Nat
      BY DEF Guarded, SelectInv, BookInv, TypeInv, TypeOK
    <3> QED BY <2>2, <3>1 DEF releaseDeposit, ReleaseDeposit, ProposeDeduction
  <2>3. LandlordMay(m)
    BY <1>2, <2>1, <2>2 DEF LandlordSubmits, LandlordMay, FinalizeDeduction
  <2> QED BY <1>2, <2>3 DEF Accepts
<1>3. CASE me \in Party /\ MediationSubmits(m)
  <2>1. CASE m[1] = "expire"
    BY <1>3, <2>1 DEF MediationSubmits, ExpireMediation, MediatorsMay, Accepts
  <2>2. CASE m[1] = "pick"
    <3>1. pickAppraiser(m[2])
      BY <1>3, <2>2 DEF MediationSubmits
    <3>2. /\ require_selection_open /\ ~name_agreed(dispute)
          /\ was_proposed(dispute, m[2])
      BY <3>1, Zenon DEF pickAppraiser, PickAppraiser
    <3> QED BY <1>3, <2>2, <3>2 DEF MediatorsMay, Accepts
  <2>3. CASE m[1] = "names"
    <3>1. ProposeAppraisers(me, m[2])
      BY <1>3, <2>3 DEF MediationSubmits
    <3>2. /\ require_selection_open /\ ~name_agreed(dispute) /\ list_allowed(m[2])
          /\ dispute.candidates[me] = {}
      BY <3>1, Zenon DEF ProposeAppraisers
    <3> QED BY <1>3, <2>3, <3>2 DEF MediatorsMay, Accepts
  <2>4. CASE m[1] = "putForward"
    <3>1. ProposeAppraiserKey(me, m[2])
      BY <1>3, <2>4 DEF MediationSubmits
    <3>2. /\ require_selection_open /\ name_agreed(dispute)
          /\ m[2] \notin Party \cup {NoKey}
          /\ dispute.key_proposals[me] < MAX_KEY_PROPOSALS_PER_PARTY
      BY <3>1 DEF ProposeAppraiserKey
    <3> QED BY <1>3, <2>4, <3>2 DEF MediatorsMay, Accepts
  <2>5. CASE m[1] = "confirm"
    <3>1. ConfirmAppraiserKey(me, m[2])
      BY <1>3, <2>5 DEF MediationSubmits, confirmAppraiserKey
    <3>2. require_selection_open /\ name_agreed(dispute) /\ confirms_proposal(me, m[2])
      BY <3>1 DEF ConfirmAppraiserKey
    <3> QED BY <1>3, <2>5, <3>2 DEF MediatorsMay, Accepts
  <2> QED BY <1>3, <2>1, <2>2, <2>3, <2>4, <2>5 DEF MediationSubmits
<1>4. CASE me \in Others /\ m[1] = "verdict" /\ submitVerdict(m[2])
  <2>1. /\ status = "Mediation" /\ dispute.appraiser = me /\ m[2] <= terms.deposit
        /\ now < dispute.verdict_deadline
    BY <1>4, Zenon DEF submitVerdict, SubmitVerdict
  <2> QED BY <1>4, <2>1 DEF VerdictMay, Accepts
<1> QED BY <1>1, <1>2, <1>3, <1>4 DEF Submit

(* Whatever this wallet gets through on a fresh view, by the app or by a    *)
(* script, was on the screen as a button, but for picking its own pick      *)
(* again.                                                                   *)
OnlyOffers ==
    Fresh => \A m \in Move : Submit(m) =>
        m \in Offered(now) \/ (m[1] = "pick" /\ m[2] = dispute.pick[me])
THEOREM NoStepIsHidden == ScreenSpec => [][OnlyOffers]_<<vars, screenVars>>
<1>1. Guarded => OnlyOffers
  BY ProgramToOffered, AcceptedHadNoReason DEF OnlyOffers, Fresh, Offered
<1> QED BY <1>1, GuardedAlways, PTL DEF ScreenSpec
=============================================================================
