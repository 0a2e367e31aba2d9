------------------------------- MODULE Lease -------------------------------
(***************************************************************************)
(* One lease of the on-chain program (programs/relstate): its Lease        *)
(* account, the vault that holds the deposit, the Dispute account of a     *)
(* mediation and the two parties' Profile records.  Every action is one    *)
(* instruction; an instruction is atomic, so its guard is the conjunction  *)
(* of its account constraints and its require!s and a failing one changes  *)
(* nothing.  The wallets "landlord" and "tenant" are the lease's parties;  *)
(* a has_one constraint on a signer is the choice of that party in the     *)
(* action's name, and the handlers that check the signer themselves take   *)
(* it as a parameter.                                                      *)
(***************************************************************************)
EXTENDS Money, FiniteSets

CONSTANTS
    Offers,             \* what a landlord may put in propose_lease
    Mints,              \* token mints a lease may name
    AllowedMints,       \* Config::mints
    ConfidentialMints,  \* mints with the ConfidentialTransferMint extension
    Deductions,         \* amounts a caller may pass as a deduction
    Names,              \* canonical company names (hash values)
    Spellings,          \* what a client may send as a company name
    CandidateLists,     \* sets of [spelling, fee] a party may propose
    Canon,              \* spelling -> canonical name, NoName if refused
    Others,             \* wallets that are not a party
    TenantHistories,    \* tenant records an earlier lease may have left
    MIN_PERIOD_SECS, MAX_LEASE_SECS, CLAIM_WINDOW_SECS, DISPUTE_WINDOW_SECS,
    SELECTION_WINDOW_SECS, VERDICT_WINDOW_SECS,
    NoDispute           \* the Dispute account does not exist

Party  == {"landlord", "tenant"}
Wallet == Party \cup Others
NoKey  == "zero key"     \* Pubkey::default()
NoName == "zero hash"    \* [0; 32]
NoMint == "no mint"      \* before propose_lease

Offer == [rent: Nat, standard_deposit: Nat, term: Nat, period: Nat,
          grace: Nat, mint: Mints]
Candidate == [name: Names, fee: Nat]
Dispute ==
    [candidates: [Party -> SUBSET Candidate], pick: [Party -> Names \cup {NoName}],
     agreed_name: Names \cup {NoName}, agreed_fee: Nat,
     proposed_key: Wallet \cup {NoKey}, key_proposer: Party \cup {NoKey},
     key_proposals: [Party -> Nat], appraiser: Wallet \cup {NoKey},
     selection_deadline: Nat, verdict_deadline: Nat]

ASSUME LeaseAssumption ==
    /\ Offers \subseteq Offer
    /\ AllowedMints \subseteq Mints /\ ConfidentialMints \subseteq Mints
    /\ Deductions \subseteq Nat
    /\ CandidateLists \subseteq SUBSET [spelling: Spellings, fee: Nat]
    /\ \A list \in CandidateLists : IsFiniteSet(list)
    /\ NoName \notin Names /\ Canon \in [Spellings -> Names \cup {NoName}]
    /\ Party \cap Others = {} /\ NoKey \notin Others
    /\ TenantHistories \subseteq Profile
    /\ MIN_PERIOD_SECS \in Nat \ {0} /\ MAX_LEASE_SECS \in Nat
    /\ CLAIM_WINDOW_SECS \in Nat /\ DISPUTE_WINDOW_SECS \in Nat \ {0}
    /\ SELECTION_WINDOW_SECS \in Nat \ {0} /\ VERDICT_WINDOW_SECS \in Nat \ {0}
    /\ NoDispute \notin Dispute

MAX_DISPUTE_ROUNDS          == 2
MAX_CANDIDATES              == 3
MAX_KEY_PROPOSALS_PER_PARTY == 2

Status == {"None", "Proposed", "Active", "Closed", "Defaulted", "Disputed", "Mediation"}

VARIABLES
    now,                 \* the Clock sysvar
    cleared,             \* parties for whom enforce_kyc answers Ok now
    terms,               \* the lease fields propose_lease fixes for good
    status, start_ts, paid_count,
    proposed_deduction, disputed_at, claim_pause_secs, dispute_rounds,
    dispute,             \* the Dispute account, or NoDispute
    vault,               \* token balance of the deposit vault
    payout,              \* tokens each payee has received from the vault
    rent_received,       \* rent tokens the landlord has received
    profile,             \* the two Profile accounts
    (* History variables: no instruction reads them. *)
    endorsed,            \* <<party, wallet>>: party proposed or confirmed that key
    closedBy,            \* signers of the instruction that emptied the vault
    activeSecs           \* seconds the lease has spent in status Active

clockVars   == <<now, cleared, activeSecs>>
stretchVars == <<claim_pause_secs, dispute_rounds>>
claimVars   == <<proposed_deduction, disputed_at>>
moneyVars   == <<vault, payout, closedBy>>
recordVars  == <<profile, paid_count, rent_received>>
vars == <<clockVars, terms, status, start_ts, stretchVars, claimVars, moneyVars,
          recordVars, dispute, endorsed>>

NoTerms == [rent |-> 0, deposit |-> 0, term |-> 0, period |-> 0, grace |-> 0,
            mint |-> NoMint, discount |-> 0]

TypeOK ==
    /\ now \in Nat \ {0}
    /\ cleared \subseteq Party
    /\ terms \in [rent: Nat, deposit: Nat, term: Nat, period: Nat, grace: Nat,
                  mint: Mints \cup {NoMint}, discount: Nat]
    /\ status \in Status
    /\ start_ts \in Nat /\ paid_count \in Nat
    /\ proposed_deduction \in Nat /\ disputed_at \in Nat
    /\ claim_pause_secs \in Nat /\ dispute_rounds \in 0 .. MAX_DISPUTE_ROUNDS
    /\ dispute \in Dispute \cup {NoDispute}
    /\ vault \in Nat /\ payout \in Split /\ rent_received \in Nat
    /\ profile \in [Party -> Profile]
    /\ endorsed \subseteq Party \X Wallet
    /\ closedBy \subseteq Wallet
    /\ activeSecs \in Nat

Init ==
    /\ now = 1 /\ cleared \in SUBSET Party
    /\ terms = NoTerms /\ status = "None" /\ start_ts = 0 /\ paid_count = 0
    /\ proposed_deduction = 0 /\ disputed_at = 0
    /\ claim_pause_secs = 0 /\ dispute_rounds = 0
    /\ dispute = NoDispute
    /\ vault = 0 /\ payout = Shares(0, 0, 0) /\ rent_received = 0
    /\ \E h \in TenantHistories :
          profile = [p \in Party |-> IF p = "tenant" THEN h ELSE FreshProfile]
    /\ endorsed = {} /\ closedBy = {} /\ activeSecs = 0

-----------------------------------------------------------------------------
(* impl Lease.  The definitions named Bad... are slips a change to the code  *)
(* could make; each stands before the definition it could replace, and a     *)
(* property below fails under it.                                            *)
BadDisputeDeadlineUnset       == disputed_at
BadProposeForEver             == TRUE
BadPauseForgotten             == claim_pause_secs

end_ts           == start_ts + terms.term * terms.period
claim_deadline   == end_ts + CLAIM_WINDOW_SECS + claim_pause_secs
dispute_deadline == disputed_at + DISPUTE_WINDOW_SECS
may_propose_deduction == dispute_rounds < MAX_DISPUTE_ROUNDS
due              == start_ts + paid_count * terms.period

(* The claim clock after a stretch of dispute or mediation that ends now. *)
resumed_pause ==
    IF disputed_at = 0 THEN claim_pause_secs
    ELSE claim_pause_secs + (IF now >= disputed_at THEN now - disputed_at ELSE 0)

(* The rent owed for every period already due but unpaid, up to the deposit. *)
due_periods == Smaller((now - start_ts) \div terms.period + 1, terms.term)
owed        == Smaller((due_periods - paid_count) * terms.rent, U64_MAX)
BadSeizedUncapped == owed
seized      == Smaller(owed, terms.deposit)

(* pay_out_vault: a token transfer fails when the vault is short. *)
PayOutVault(split, signers) ==
    /\ vault >= SplitTotal(split)
    /\ vault' = vault - SplitTotal(split)
    /\ payout' = [k \in Payee |-> payout[k] + split[k]]
    /\ closedBy' = signers

BadFullReturnByNumber(split, deduction) == deduction = 0
full_return(split, deduction) == split["tenant"] = terms.deposit

(* close_with_fee, and close_with_deduction when the split has no fee. *)
CloseWith(split, deduction, signers) ==
    /\ deduction <= terms.deposit
    /\ SplitTotal(split) = terms.deposit
    /\ PayOutVault(split, signers)
    /\ profile' = [p \in Party |->
          [RecordDepositOutcome(profile[p], terms.deposit, deduction) EXCEPT
             !.leases_completed = SatAdd(@, 1, U32_MAX),
             !.deposits_returned_full =
                IF full_return(split, deduction) THEN SatAdd(@, 1, U32_MAX) ELSE @]]
    /\ status' = "Closed"
    /\ proposed_deduction' = 0
    /\ disputed_at' = 0
    /\ UNCHANGED <<clockVars, terms, start_ts, paid_count, rent_received, stretchVars, endorsed>>

CloseWithDeduction(deduction, signers) ==
    CloseWith(PlainSplit(terms.deposit, deduction), deduction, signers)

-----------------------------------------------------------------------------
(* The life of a lease up to the end of its term. *)

ProposeLease(o) ==
    /\ status = "None"
    /\ o.mint \in AllowedMints
    /\ o.rent > 0 /\ o.standard_deposit > 0 /\ o.term > 0
    /\ o.period >= MIN_PERIOD_SECS
    /\ o.grace <= o.period
    /\ o.term * o.period <= MAX_LEASE_SECS
    /\ "landlord" \in cleared
    /\ LET discount == IF DeservesDiscount(profile["tenant"], o.rent)
                         THEN GOOD_STANDING_DISCOUNT_PCT ELSE 0
           deposit  == DepositAfterDiscount(o.standard_deposit, discount)
       IN /\ deposit > 0
          /\ terms' = [rent |-> o.rent, deposit |-> deposit, term |-> o.term,
                       period |-> o.period, grace |-> o.grace, mint |-> o.mint,
                       discount |-> discount]
    /\ status' = "Proposed"
    /\ UNCHANGED <<clockVars, start_ts, stretchVars, claimVars, moneyVars,
                   recordVars, dispute, endorsed>>

FundDeposit ==
    /\ status = "Proposed"
    /\ "tenant" \in cleared
    /\ vault' = vault + terms.deposit
    /\ status' = "Active"
    /\ start_ts' = now
    /\ UNCHANGED <<clockVars, terms, stretchVars, claimVars, payout, closedBy,
                   recordVars, dispute, endorsed>>

on_time == now <= due + terms.grace
RentRecorded(p) ==
    [p EXCEPT !.rent_paid_total = @ + terms.rent,
              !.paid_on_time = IF on_time THEN @ + 1 ELSE @,
              !.paid_late    = IF on_time THEN @ ELSE @ + 1]

(* The sums on the record are checked, not saturating: an overflow aborts.  *)
rent_fits ==
    LET record == profile["tenant"] IN
    /\ record.rent_paid_total + terms.rent <= U64_MAX
    /\ (IF on_time THEN record.paid_on_time ELSE record.paid_late) + 1 <= U32_MAX

(* On a confidential mint the amount of the accompanying transfer is        *)
(* encrypted: the landlord receives whatever the tenant put in it.          *)
PayRent(amount) ==
    /\ status = "Active"
    /\ paid_count < terms.term
    /\ now >= due
    /\ terms.mint \notin ConfidentialMints => amount = terms.rent
    /\ rent_fits
    /\ rent_received' = rent_received + amount
    /\ profile' = [profile EXCEPT !["tenant"] = RentRecorded(profile["tenant"])]
    /\ paid_count' = paid_count + 1
    /\ UNCHANGED <<clockVars, terms, status, start_ts, stretchVars, claimVars,
                   moneyVars, dispute, endorsed>>

MarkDefault ==
    /\ status = "Active"
    /\ paid_count < terms.term
    /\ now > due + terms.grace + terms.period
    /\ PayOutVault(PlainSplit(terms.deposit, seized), {"landlord"})
    /\ profile' = [profile EXCEPT
          !["tenant"].defaults = SatAdd(@, 1, U32_MAX),
          !["landlord"] = RecordDepositOutcome(@, terms.deposit, seized)]
    /\ status' = "Defaulted"
    /\ UNCHANGED <<clockVars, terms, start_ts, stretchVars, claimVars, paid_count,
                   rent_received, dispute, endorsed>>

-----------------------------------------------------------------------------
(* The end of a fully paid lease. *)

TermPaidAndEnded ==
    /\ status = "Active"
    /\ paid_count = terms.term
    /\ now >= end_ts

ReleaseDeposit ==
    /\ TermPaidAndEnded
    /\ CloseWithDeduction(0, {"landlord"})
    /\ UNCHANGED dispute

ProposeDeduction(deduction) ==
    /\ TermPaidAndEnded
    /\ deduction <= terms.deposit
    /\ deduction # 0
    /\ may_propose_deduction
    /\ status' = "Disputed"
    /\ proposed_deduction' = deduction
    /\ disputed_at' = now
    /\ UNCHANGED <<clockVars, terms, start_ts, stretchVars, moneyVars, recordVars,
                   dispute, endorsed>>

ClaimDeposit ==
    /\ status = "Active"
    /\ paid_count = terms.term
    /\ now >= claim_deadline
    /\ PayOutVault(PlainSplit(terms.deposit, 0), {"tenant"})
    /\ profile' = [p \in Party |->
          LET r == [RecordDepositOutcome(profile[p], terms.deposit, 0) EXCEPT
                      !.leases_completed = SatAdd(@, 1, U32_MAX)]
          IN IF p = "tenant"
               THEN [r EXCEPT !.deposits_returned_full = SatAdd(@, 1, U32_MAX)]
               ELSE [r EXCEPT !.deposits_claimed = SatAdd(@, 1, U32_MAX)]]
    /\ status' = "Closed"
    /\ UNCHANGED <<clockVars, terms, start_ts, stretchVars, claimVars, paid_count,
                   rent_received, dispute, endorsed>>

-----------------------------------------------------------------------------
(* Answers to a proposed deduction. *)

BadSettleKeepsAccount(deduction) ==
    /\ status \in {"Disputed", "Mediation"}
    /\ CloseWithDeduction(deduction, {"tenant", "landlord"})
    /\ UNCHANGED dispute

SettleDispute(deduction) ==
    /\ status \in {"Disputed", "Mediation"}
    /\ status = "Mediation" => dispute # NoDispute
    /\ CloseWithDeduction(deduction, {"tenant", "landlord"})
    /\ dispute' = NoDispute

BadAcceptInWindowOnly ==
    /\ status = "Disputed"
    /\ now < dispute_deadline
    /\ CloseWithDeduction(proposed_deduction, {"tenant"})
    /\ UNCHANGED dispute

AcceptDeduction ==
    /\ status = "Disputed"
    /\ CloseWithDeduction(proposed_deduction, {"tenant"})
    /\ UNCHANGED dispute

FinalizeDeduction ==
    /\ status = "Disputed"
    /\ now >= dispute_deadline
    /\ CloseWithDeduction(proposed_deduction, {"landlord"})
    /\ UNCHANGED dispute

AbandonDispute ==
    /\ status = "Disputed"
    /\ now < dispute_deadline
    /\ dispute_rounds + 1 < MAX_DISPUTE_ROUNDS
    /\ claim_pause_secs' = resumed_pause
    /\ disputed_at' = 0
    /\ status' = "Active"
    /\ proposed_deduction' = 0
    /\ dispute_rounds' = dispute_rounds + 1
    /\ UNCHANGED <<clockVars, terms, start_ts, moneyVars, recordVars, dispute, endorsed>>

(* Dispute::open *)
OpenDispute ==
    [candidates |-> [p \in Party |-> {}], pick |-> [p \in Party |-> NoName],
     agreed_name |-> NoName, agreed_fee |-> 0,
     proposed_key |-> NoKey, key_proposer |-> NoKey,
     key_proposals |-> [p \in Party |-> 0], appraiser |-> NoKey,
     selection_deadline |-> now + SELECTION_WINDOW_SECS, verdict_deadline |-> 0]

EscalateToMediation ==
    /\ status = "Disputed"
    /\ dispute = NoDispute                     \* init of the Dispute account
    /\ now < dispute_deadline
    /\ dispute_rounds + 1 = MAX_DISPUTE_ROUNDS
    /\ claim_pause_secs' = resumed_pause
    /\ disputed_at' = now
    /\ status' = "Mediation"
    /\ proposed_deduction' = 0
    /\ dispute_rounds' = dispute_rounds + 1
    /\ dispute' = OpenDispute
    /\ UNCHANGED <<clockVars, terms, start_ts, moneyVars, recordVars, endorsed>>

-----------------------------------------------------------------------------
(* impl Dispute *)
is_bound(d)         == d.appraiser # NoKey
name_agreed(d)      == d.agreed_name # NoName
all_candidates(d)   == d.candidates["landlord"] \cup d.candidates["tenant"]
was_proposed(d, n)  == \E c \in all_candidates(d) : c.name = n
fees_for(d, n)      == {c.fee : c \in {x \in all_candidates(d) : x.name = n}}
BadHighestFee(d, n) == CHOOSE f \in fees_for(d, n) : \A g \in fees_for(d, n) : g <= f
lowest_fee(d, n)    == CHOOSE f \in fees_for(d, n) : \A g \in fees_for(d, n) : f <= g
picks_agree(d)      == d.pick["landlord"] # NoName /\ d.pick["landlord"] = d.pick["tenant"]
BadSelectionNeverCloses(d) == ~is_bound(d)
selection_open(d)   == ~is_bound(d) /\ now < d.selection_deadline
may_expire(d)       == IF is_bound(d) THEN now >= d.verdict_deadline
                                      ELSE now >= d.selection_deadline

require_selection_open ==
    /\ status = "Mediation"
    /\ dispute # NoDispute
    /\ selection_open(dispute)

UnchangedBySelection ==
    UNCHANGED <<clockVars, terms, status, start_ts, stretchVars, claimVars,
                moneyVars, recordVars>>

list_allowed(list) ==
    /\ Cardinality(list) \in 1 .. MAX_CANDIDATES
    /\ \A c \in list : /\ c.fee <= AppraiserFeeCap(terms.deposit)
                       /\ Canon[c.spelling] # NoName
    /\ \A c, d \in list : Canon[c.spelling] = Canon[d.spelling] => c = d

ProposeAppraisers(party, list) ==
    /\ require_selection_open
    /\ ~name_agreed(dispute)
    /\ list_allowed(list)
    /\ dispute.candidates[party] = {}
    /\ dispute' = [dispute EXCEPT !.candidates[party] =
                      {[name |-> Canon[c.spelling], fee |-> c.fee] : c \in list}]
    /\ UNCHANGED endorsed
    /\ UnchangedBySelection

PickAppraiser(party, spelling) ==
    LET name   == Canon[spelling]
        picked == [dispute EXCEPT !.pick[party] = name]
    IN /\ require_selection_open
       /\ ~name_agreed(dispute)
       /\ name # NoName
       /\ was_proposed(dispute, name)
       /\ dispute' = IF picks_agree(picked)
                       THEN [picked EXCEPT !.agreed_name = name,
                                           !.agreed_fee = lowest_fee(dispute, name)]
                       ELSE picked
       /\ UNCHANGED endorsed
       /\ UnchangedBySelection

ProposeAppraiserKey(party, wallet) ==
    /\ require_selection_open
    /\ name_agreed(dispute)
    /\ wallet # NoKey
    /\ wallet \notin Party
    /\ dispute.key_proposals[party] < MAX_KEY_PROPOSALS_PER_PARTY
    /\ dispute' = [dispute EXCEPT !.key_proposals[party] = @ + 1,
                                  !.proposed_key = wallet,
                                  !.key_proposer = party]
    /\ endorsed' = endorsed \cup {<<party, wallet>>}
    /\ UnchangedBySelection

BadConfirmOwnProposal(party, wallet) == wallet = dispute.proposed_key /\ wallet # NoKey
(* The other party confirms, naming the wallet it looked at. *)
confirms_proposal(party, wallet) ==
    /\ dispute.proposed_key # NoKey
    /\ party # dispute.key_proposer
    /\ wallet = dispute.proposed_key

ConfirmAppraiserKey(party, wallet) ==
    /\ require_selection_open
    /\ name_agreed(dispute)
    /\ confirms_proposal(party, wallet)
    /\ wallet \notin Party
    /\ dispute' = [dispute EXCEPT !.appraiser = wallet,
                                  !.verdict_deadline = now + VERDICT_WINDOW_SECS]
    /\ endorsed' = endorsed \cup {<<party, wallet>>}
    /\ UnchangedBySelection

SubmitVerdict(wallet, deduction) ==
    /\ status = "Mediation"
    /\ dispute # NoDispute
    /\ deduction <= terms.deposit
    /\ wallet \notin Party
    /\ is_bound(dispute)
    /\ dispute.appraiser = wallet
    /\ now < dispute.verdict_deadline
    /\ CloseWith(VerdictSplit(terms.deposit, deduction, dispute.agreed_fee),
                 deduction, {wallet})
    /\ dispute' = NoDispute

ExpireMediation(signer) ==
    /\ status = "Mediation"
    /\ dispute # NoDispute
    /\ signer \in Party
    /\ may_expire(dispute)
    /\ claim_pause_secs' = resumed_pause
    /\ disputed_at' = 0
    /\ status' = "Active"
    /\ proposed_deduction' = 0
    /\ dispute' = NoDispute
    /\ UNCHANGED <<clockVars, terms, start_ts, dispute_rounds, moneyVars, recordVars,
                   endorsed>>

-----------------------------------------------------------------------------
(* The environment: the clock, and whoever decides enforce_kyc's answer     *)
(* (attest, revoke, an expiry, a rotated issuer, require_kyc).  The answer  *)
(* is read by propose_lease and fund_deposit only.                          *)
Tick ==
    /\ now' = now + 1
    /\ activeSecs' = IF status = "Active" THEN activeSecs + 1 ELSE activeSecs
    /\ UNCHANGED <<cleared, terms, status, start_ts, stretchVars, claimVars,
                   moneyVars, recordVars, dispute, endorsed>>

KycChange ==
    /\ status \in {"None", "Proposed"}
    /\ cleared' \in SUBSET Party
    /\ UNCHANGED <<now, activeSecs, terms, status, start_ts, stretchVars, claimVars,
                   moneyVars, recordVars, dispute, endorsed>>

-----------------------------------------------------------------------------
LandlordStep ==
    \/ \E o \in Offers : ProposeLease(o)
    \/ MarkDefault
    \/ ReleaseDeposit
    \/ \E d \in Deductions : ProposeDeduction(d)
    \/ FinalizeDeduction

TenantStep ==
    \/ FundDeposit
    \/ \E a \in 0 .. terms.rent : PayRent(a)
    \/ ClaimDeposit
    \/ AcceptDeduction
    \/ AbandonDispute
    \/ EscalateToMediation

SelectionBy(p) ==
    \/ \E list \in CandidateLists : ProposeAppraisers(p, list)
    \/ \E s \in Spellings : PickAppraiser(p, s)
    \/ \E w \in Wallet \cup {NoKey} : ProposeAppraiserKey(p, w)
    \/ \E w \in Wallet \cup {NoKey} : ConfirmAppraiserKey(p, w)
SelectionStep == \E p \in Party : SelectionBy(p)

MediationExit ==
    \/ \E w \in Wallet, d \in Deductions : SubmitVerdict(w, d)
    \/ \E w \in Wallet : ExpireMediation(w)

JointStep == \E d \in Deductions : SettleDispute(d)

Instruction == LandlordStep \/ TenantStep \/ SelectionStep \/ MediationExit \/ JointStep

Next == Instruction \/ KycChange \/ Tick

Spec == Init /\ [][Next]_vars

-----------------------------------------------------------------------------
(* The landlord and the tenant wait for the money in these. *)
Holding == status \in {"Active", "Disputed", "Mediation"}

(* The vault holds exactly the deposit from fund_deposit until the one      *)
(* instruction that empties it, and whatever the exit (release, claim,      *)
(* default, settlement, verdict) the three payees together receive the      *)
(* deposit and nothing more.                                                *)
VaultConservation ==
    /\ vault = IF Holding THEN terms.deposit ELSE 0
    /\ vault + SplitTotal(payout) = IF start_ts = 0 THEN 0 ELSE terms.deposit

(* The Dispute account exists exactly while the lease is in Mediation, the  *)
(* stamp that times a stretch is set exactly while one is running, and a    *)
(* proposal is on the table exactly while the tenant has to answer it:      *)
(* whatever path a lease took, no exit leaves a stale account, stamp or     *)
(* number for a later instruction to read.                                  *)
DisputeBookkeeping ==
    /\ (dispute # NoDispute) <=> (status = "Mediation")
    /\ (disputed_at # 0) <=> (status \in {"Disputed", "Mediation"})
    /\ (proposed_deduction # 0) <=> (status = "Disputed")

(* Every second since the deposit was funded is either a second the lease   *)
(* spent Active or a second of a dispute or mediation, counted once: the    *)
(* seconds in claim_pause_secs plus those of the stretch still running.     *)
ClockAccounted ==
    start_ts # 0 /\ Holding =>
        now - start_ts = activeSecs + claim_pause_secs
                         + (IF disputed_at = 0 THEN 0 ELSE now - disputed_at)

(* claim_deposit opens for the tenant after exactly the term plus the claim *)
(* window of undisputed time: a proposal, a rejection or a mediation that   *)
(* lapsed neither shortens nor lengthens that wait.                         *)
ClaimWaitExact ==
    status = "Active" =>
        (now >= claim_deadline <=>
            activeSecs >= terms.term * terms.period + CLAIM_WINDOW_SECS)

(* The landlord's proposals delay the tenant's claim by less than one       *)
(* dispute window each, and there are at most MAX_DISPUTE_ROUNDS of them.   *)
PauseBounded ==
    \/ claim_pause_secs = 0
    \/ status = "Active" /\ dispute_rounds = MAX_DISPUTE_ROUNDS
    \/ status \in {"Closed", "Defaulted"}
    \/ claim_pause_secs <= dispute_rounds * (DISPUTE_WINDOW_SECS - 1)

(* The claim clock as a whole: every second since the funding is active or  *)
(* paused, the tenant waits for exactly the active ones, and the landlord   *)
(* cannot stretch that wait beyond the windows of MAX_DISPUTE_ROUNDS.       *)
ClaimClockRight == ClockAccounted /\ ClaimWaitExact /\ PauseBounded

(* A mediation can never be re-armed: the deadline in force lies before the *)
(* end of one selection window plus one verdict window after it opened.     *)
MediationBounded ==
    dispute # NoDispute =>
        (IF is_bound(dispute) THEN dispute.verdict_deadline
                              ELSE dispute.selection_deadline)
            < disputed_at + SELECTION_WINDOW_SECS + VERDICT_WINDOW_SECS

(* The wallet that may decide a mediation is no party to the lease, and     *)
(* each party has put its own signature under exactly that wallet.          *)
AppraiserEndorsedByBoth ==
    dispute # NoDispute /\ is_bound(dispute) =>
        /\ dispute.appraiser \in Others
        /\ \A p \in Party : <<p, dispute.appraiser>> \in endorsed

(* The agreed fee is the lowest anyone named for the agreed company, is     *)
(* under the cap, and stays so until the mediation ends.                    *)
AgreedFeeIsLowest ==
    dispute # NoDispute /\ name_agreed(dispute) =>
        /\ \A p \in Party : dispute.pick[p] = dispute.agreed_name
        /\ dispute.agreed_fee \in fees_for(dispute, dispute.agreed_name)
        /\ \A f \in fees_for(dispute, dispute.agreed_name) : dispute.agreed_fee <= f
        /\ dispute.agreed_fee <= AppraiserFeeCap(terms.deposit)

(* No unilateral deduction.  Once the rent of the whole term is paid, a     *)
(* step that pays the landlord out of the vault is signed by the tenant, or *)
(* follows a whole dispute window of the tenant's silence and pays exactly  *)
(* what was asked, or is the verdict of a wallet both parties signed for.   *)
DeductionWarranted ==
    payout'["landlord"] > payout["landlord"] /\ paid_count = terms.term =>
        \/ "tenant" \in closedBy'
        \/ /\ status = "Disputed"
           /\ now >= disputed_at + DISPUTE_WINDOW_SECS
           /\ payout'["landlord"] = proposed_deduction
        \/ /\ status = "Mediation"
           /\ \E w \in closedBy' : {<<p, w>> : p \in Party} \subseteq endorsed
NoUnilateralDeduction == [][DeductionWarranted]_vars

(* A mediation that lapsed is the end of the argument: from then on the     *)
(* only thing that can happen to the deposit is its return in full.         *)
OnlyRefundLeft ==
    status = "Active" /\ dispute_rounds = MAX_DISPUTE_ROUNDS =>
        /\ status' \in {"Active", "Closed"}
        /\ payout'["landlord"] = 0 /\ payout'["appraiser"] = 0
LapsedMediationRefunds == [][OnlyRefundLeft]_vars

(* The records tell the truth about the money: a full return is credited    *)
(* exactly when the whole deposit reached the tenant of a completed lease   *)
(* (to the landlord too, unless the tenant had to claim it), and the        *)
(* deduction written down lies between what the landlord received and that  *)
(* plus the appraiser's fee.  A counter that has reached its width stays    *)
(* there, so this is said of records that have room for the outcome.        *)
RoomForOutcome ==
    \A p \in Party : /\ profile[p].deposits_returned_full < U32_MAX
                     /\ profile[p].deposit_events < U32_MAX
                     /\ profile[p].deducted_total + terms.deposit <= U64_MAX

OutcomeRecorded ==
    LET credit(p) == profile'[p].deposits_returned_full
                       - profile[p].deposits_returned_full
        kept(p)   == profile'[p].deducted_total - profile[p].deducted_total
    IN /\ credit("tenant") =
             IF status' = "Closed" /\ payout'["tenant"] = terms.deposit THEN 1 ELSE 0
       /\ credit("landlord") =
             IF closedBy' = {"tenant"} /\ status = "Active" THEN 0 ELSE credit("tenant")
       /\ kept("landlord") \in payout'["landlord"] ..
                               (payout'["landlord"] + payout'["appraiser"])
       /\ profile'["landlord"].deposit_events = profile["landlord"].deposit_events + 1

RecordsMatchMoney == [][ vault' < vault /\ RoomForOutcome => OutcomeRecorded ]_vars

(* No state holds the deposit for ever. *)
EveryDepositPaidOut == vault > 0 ~> vault = 0

-----------------------------------------------------------------------------
(* The lease implements the abstract escrow; the mapping looks at the money *)
(* and at the funding stamp only, never at the status.                      *)
escrowStage  == IF start_ts = 0 THEN "empty" ELSE IF vault > 0 THEN "held" ELSE "paid"
escrowAmount == IF start_ts = 0 THEN 0 ELSE terms.deposit

E == INSTANCE Escrow WITH stage <- escrowStage, amount <- escrowAmount, shares <- payout

(* Whatever instructions run in whatever order, the deposit is taken once,  *)
(* held whole and paid out whole in a single step, at most a tenth of it to *)
(* an appraiser.                                                            *)
ImplementsEscrow == E!Spec
=============================================================================
