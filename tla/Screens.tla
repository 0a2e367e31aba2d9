------------------------------ MODULE Screens ------------------------------
(***************************************************************************)
(* One browser window on one lease: what the web app (app/src) offers its  *)
(* user, and what a button does when it is pressed.                        *)
(*                                                                         *)
(* The window shows the lease and its Dispute account, each as it was when *)
(* it was last read, by requests of their own.  useChain reads again on a  *)
(* timer and after a transaction, but never cancels a read that is already *)
(* running, so each may be of any age, older than the other and also older *)
(* than the user's own last transaction.  The clock on the screen comes by *)
(* a third request, a countdown runs it on by the browser's own, and the   *)
(* appraiser's page starts from the latter: it may say any time at all.    *)
(* A button submits one instruction of Lease, which judges it by the state *)
(* it finds.  The same user may have other windows.                        *)
(***************************************************************************)
EXTENDS Lease, Preview

CONSTANTS
    NoView,         \* "Loading": nothing has been read yet
    ClockValues     \* what the clock on the screen may say

ASSUME ScreenAssumption == NoView \notin Dispute

VARIABLES
    me,             \* whose window it is: a party, or an appraiser
    view,           \* the lease it shows
    disputeView,    \* the Dispute account it shows, or that there is none
    behind          \* the user has signed something that the view predates

screenVars == <<me, view, disputeView, behind>>

Seen == [status |-> status, start_ts |-> start_ts,
         paid_count |-> paid_count, claim_pause_secs |-> claim_pause_secs,
         dispute_rounds |-> dispute_rounds, disputed_at |-> disputed_at,
         proposed_deduction |-> proposed_deduction]

(* loadDisputesFor: what it finds for the account signed in.                *)
CaseOf(w) == IF dispute # NoDispute /\ dispute.appraiser = w THEN dispute ELSE NoDispute

-----------------------------------------------------------------------------
(* lib/mediation.ts, on a Dispute account d as the window read it.          *)
phase(d) == IF d.appraiser # NoKey THEN "bound"
            ELSE IF d.agreed_name # NoName THEN "wallet" ELSE "names"
selectionOpen(d, t) == d.appraiser = NoKey /\ t < d.selection_deadline
verdictOpen(d, t)   == d.appraiser # NoKey /\ t < d.verdict_deadline
canExpire(d, t)     == IF d.appraiser # NoKey THEN t >= d.verdict_deadline
                                              ELSE t >= d.selection_deadline

(* What the tenant's rejection of the proposal in view v does.              *)
BadRejectionAlwaysAbandons(v) == "abandon"
rejection(v) == IF v.dispute_rounds + 1 < MAX_DISPUTE_ROUNDS THEN "abandon"
                ELSE IF v.dispute_rounds + 1 = MAX_DISPUTE_ROUNDS THEN "escalate"
                ELSE "exhausted"

(* One row per company on either list, with the lower of its quotes.        *)
rowNames(d)  == {c.name : c \in d.candidates["landlord"] \cup d.candidates["tenant"]}
BadRowFeeOfAnyRow(d, n) ==
    LET quotes == {c.fee : c \in d.candidates["landlord"] \cup d.candidates["tenant"]}
    IN CHOOSE f \in quotes : \A g \in quotes : f <= g
rowFee(d, n) == CHOOSE f \in fees_for(d, n) : \A g \in fees_for(d, n) : f <= g

canProposeNames(d, t) ==
    selectionOpen(d, t) /\ d.agreed_name = NoName /\ d.candidates[me] = {}
BadKeyProposalsOfBoth(d) ==
    Larger(0, MAX_KEY_PROPOSALS_PER_PARTY - d.key_proposals["landlord"]
                                          - d.key_proposals["tenant"])
keyProposalsLeft(d) == Larger(0, MAX_KEY_PROPOSALS_PER_PARTY - d.key_proposals[me])
canProposeKey(d, t) ==
    selectionOpen(d, t) /\ d.agreed_name # NoName /\ keyProposalsLeft(d) > 0
canConfirmKey(d, t) ==
    /\ selectionOpen(d, t)
    /\ d.agreed_name # NoName
    /\ d.proposed_key # NoKey
    /\ d.key_proposer # me

feeInPlay(d) == IF d.agreed_name # NoName THEN d.agreed_fee
                ELSE CHOOSE f \in {rowFee(d, n) : n \in rowNames(d)} \cup {0} :
                         \A g \in {rowFee(d, n) : n \in rowNames(d)} : g <= f

-----------------------------------------------------------------------------
(* screens.tsx.  timing(): the lifecycle of a lease v by the clock t.       *)
dueSeen(v) == v.start_ts + v.paid_count * terms.period
endSeen(v) == v.start_ts + terms.term * terms.period
allPaid(v) == v.paid_count >= terms.term
canPay(v, t)     == ~allPaid(v) /\ t >= dueSeen(v)
canDefault(v, t) == ~allPaid(v) /\ t > dueSeen(v) + terms.grace + terms.period
canRelease(v, t) == allPaid(v) /\ t >= endSeen(v)
canClaim(v, t)   == allPaid(v) /\ t >= endSeen(v) + CLAIM_WINDOW_SECS + v.claim_pause_secs
answerOpen(v, t) == v.disputed_at + DISPUTE_WINDOW_SECS - t > 0

(* draftProblem: why a list of companies cannot be sent.                    *)
DraftSendable(list) ==
    /\ list # {} /\ Cardinality(list) <= MAX_CANDIDATES
    /\ \A c \in list : Canon[c.spelling] # NoName /\ c.fee <= feeCap(terms.deposit)
    /\ \A c, d \in list : Canon[c.spelling] = Canon[d.spelling] => c = d

(* A move is a button with what was typed or chosen beside it.              *)
Move ==
    {<<b, 0>> : b \in {"fund", "pay", "claim", "markDefault", "accept", "abandon",
                       "escalate", "finalize", "expire"}}
    \cup {<<b, d>> : b \in {"release", "verdict"}, d \in Deductions}
    \cup {<<"names", list>> : list \in CandidateLists}
    \cup {<<"pick", n>> : n \in Names}
    \cup {<<b, w>> : b \in {"putForward", "confirm"}, w \in Wallet \cup {NoKey}}

AcceptLease(v, m) == me = "tenant" /\ v.status = "Proposed" /\ m[1] = "fund"

ActiveLease(v, t, m) ==
    /\ v.status = "Active"
    /\ \/ me = "tenant" /\ canPay(v, t) /\ m[1] = "pay"
       \/ me = "tenant" /\ canClaim(v, t) /\ m[1] = "claim"
       \/ me = "landlord" /\ canRelease(v, t) /\ m[1] = "release" /\ m[2] <= terms.deposit
       \/ me = "landlord" /\ canDefault(v, t) /\ m[1] = "markDefault"

DisputedLease(v, t, m) ==
    /\ v.status = "Disputed"
    /\ \/ me = "tenant" /\ answerOpen(v, t) /\ m[1] = rejection(v)
       \/ me = "tenant" /\ m[1] = "accept"
       \/ me = "landlord" /\ ~answerOpen(v, t) /\ m[1] = "finalize"

(* Expiry takes the place of every other button; the card that puts an      *)
(* account forward stands beside them.                                      *)
MediationLease(v, d, t, m) ==
    /\ v.status = "Mediation" /\ d \notin {NoView, NoDispute} /\ me \in Party
    /\ \/ canExpire(d, t) /\ m[1] = "expire"
       \/ ~canExpire(d, t) /\ phase(d) = "wallet"
          /\ canConfirmKey(d, t) /\ m[1] = "confirm" /\ m[2] = d.proposed_key
       \/ phase(d) = "wallet" /\ canProposeKey(d, t)
          /\ m[1] = "putForward" /\ m[2] \notin Party \cup {NoKey}
       \/ ~canExpire(d, t) /\ phase(d) = "names"
          /\ \/ canProposeNames(d, t) /\ m[1] = "names" /\ DraftSendable(m[2])
             \/ m[1] = "pick" /\ m[2] \in rowNames(d) /\ m[2] # d.pick[me]

(* screens/Appraise.tsx: a case of this account.                            *)
VerdictCase(v, d, t, m) ==
    /\ v.status = "Mediation" /\ d \notin {NoView, NoDispute}
    /\ d.appraiser = me /\ verdictOpen(d, t)
    /\ m[1] = "verdict" /\ m[2] <= terms.deposit

LeaseTab(v, d, t, m) ==
    /\ v # NoView
    /\ \/ AcceptLease(v, m) \/ ActiveLease(v, t, m) \/ DisputedLease(v, t, m)
       \/ MediationLease(v, d, t, m) \/ VerdictCase(v, d, t, m)
Offered(t) == {m \in Move : LeaseTab(view, disputeView, t, m)}

-----------------------------------------------------------------------------
(* lib/chain.ts: the instruction a move submits.                            *)
TenantSubmits(m) ==
    \/ m[1] = "fund"     /\ FundDeposit
    \/ m[1] = "pay"      /\ PayRent(terms.rent)
    \/ m[1] = "claim"    /\ ClaimDeposit
    \/ m[1] = "accept"   /\ AcceptDeduction
    \/ m[1] = "abandon"  /\ AbandonDispute
    \/ m[1] = "escalate" /\ EscalateToMediation

releaseDeposit(d) == IF d = 0 THEN ReleaseDeposit ELSE ProposeDeduction(d)
LandlordSubmits(m) ==
    \/ m[1] = "markDefault" /\ MarkDefault
    \/ m[1] = "release"     /\ releaseDeposit(m[2])
    \/ m[1] = "finalize"    /\ FinalizeDeduction

pickAppraiser(n)  == \E s \in Spellings : Canon[s] = n /\ PickAppraiser(me, s)
confirmAppraiserKey(wallet) == ConfirmAppraiserKey(me, wallet)
MediationSubmits(m) ==
    \/ m[1] = "names"      /\ ProposeAppraisers(me, m[2])
    \/ m[1] = "pick"       /\ pickAppraiser(m[2])
    \/ m[1] = "putForward" /\ ProposeAppraiserKey(me, m[2])
    \/ m[1] = "confirm"    /\ confirmAppraiserKey(m[2])
    \/ m[1] = "expire"     /\ ExpireMediation(me)

submitVerdict(d) == SubmitVerdict(me, d)

Submit(m) ==
    \/ me = "tenant"   /\ TenantSubmits(m)
    \/ me = "landlord" /\ LandlordSubmits(m)
    \/ me \in Party    /\ MediationSubmits(m)
    \/ me \in Others   /\ m[1] = "verdict" /\ submitVerdict(m[2])

-----------------------------------------------------------------------------
ScreenInit ==
    Init /\ me \in Wallet /\ view = NoView /\ disputeView = NoView /\ behind = FALSE

(* A party's list of leases reaches the screen.  The Dispute account is     *)
(* asked for anew when the status shown is another (useChain's deps), and   *)
(* only while it is mediation.                                              *)
RefreshLease ==
    /\ me \in Party /\ status # "None"
    /\ view' = Seen /\ behind' = FALSE
    /\ disputeView' = IF view # NoView /\ view.status = status THEN disputeView ELSE NoView
    /\ UNCHANGED <<me, vars>>

RefreshDispute ==
    /\ me \in Party /\ view # NoView /\ view.status = "Mediation"
    /\ disputeView' = dispute
    /\ UNCHANGED <<me, view, behind, vars>>

(* The appraiser's page goes the other way round: its cases first, then the *)
(* lease of each that there is.                                             *)
RefreshCases ==
    /\ me \in Others
    /\ disputeView' = CaseOf(me)
    /\ view' = IF CaseOf(me) = NoDispute THEN NoView ELSE view
    /\ UNCHANGED <<me, behind, vars>>

RefreshCaseLease ==
    /\ me \in Others /\ disputeView \notin {NoView, NoDispute}
    /\ view' = Seen /\ behind' = FALSE
    /\ UNCHANGED <<me, disputeView, vars>>

Refresh == RefreshLease \/ RefreshDispute \/ RefreshCases \/ RefreshCaseLease

(* The user presses a button of this window and the program accepts.        *)
Press ==
    /\ \E t \in ClockValues : \E m \in Offered(t) : Submit(m)
    /\ behind' = TRUE
    /\ UNCHANGED <<me, view, disputeView>>

(* Everybody else, and the user in another window or with a script.         *)
Signed(w) ==
    \/ w = "landlord" /\ LandlordStep
    \/ w = "tenant" /\ TenantStep
    \/ w \in Party /\ (SelectionBy(w) \/ ExpireMediation(w))
    \/ \E d \in Deductions : SubmitVerdict(w, d)

Elsewhere ==
    /\ \/ \E w \in Wallet : Signed(w) /\ behind' = (behind \/ w = me)
       \/ JointStep /\ behind' = (behind \/ me \in Party)
    /\ UNCHANGED <<me, view, disputeView>>

(* The clock, and whoever decides enforce_kyc's answer, sign for nobody.    *)
ScreenNext ==
    \/ Refresh
    \/ Press
    \/ Elsewhere
    \/ (KycChange \/ Tick) /\ UNCHANGED screenVars

ScreenSpec == ScreenInit /\ [][ScreenNext]_<<vars, screenVars>>

-----------------------------------------------------------------------------
(* Everything on the screen is as it is, whatever order it came in.         *)
Fresh ==
    /\ view # NoView /\ view = Seen
    /\ disputeView = IF me \in Others THEN CaseOf(me)
                     ELSE IF status = "Mediation" THEN dispute ELSE NoView

(* The reasons the program has to refuse a move of this wallet.  Its other   *)
(* checks (a vault short of the split, a deduction above the deposit, a     *)
(* Dispute account in the way, a party as the appraiser) never get to say   *)
(* no: NoOtherRefusal.                                                      *)
TenantMay(m) ==
    \/ m[1] = "fund" /\ status = "Proposed" /\ "tenant" \in cleared
    \/ /\ m[1] = "pay" /\ status = "Active" /\ paid_count < terms.term
       /\ now >= due /\ rent_fits
    \/ /\ m[1] = "claim" /\ status = "Active" /\ paid_count = terms.term
       /\ now >= claim_deadline
    \/ m[1] = "accept" /\ status = "Disputed"
    \/ /\ status = "Disputed" /\ now < dispute_deadline
       /\ \/ m[1] = "abandon"  /\ dispute_rounds + 1 < MAX_DISPUTE_ROUNDS
          \/ m[1] = "escalate" /\ dispute_rounds + 1 = MAX_DISPUTE_ROUNDS

LandlordMay(m) ==
    \/ /\ m[1] = "markDefault" /\ status = "Active" /\ paid_count < terms.term
       /\ now > due + terms.grace + terms.period
    \/ /\ m[1] = "release" /\ TermPaidAndEnded /\ m[2] <= terms.deposit
       /\ m[2] # 0 => may_propose_deduction
    \/ m[1] = "finalize" /\ status = "Disputed" /\ now >= dispute_deadline

MediatorsMay(m) ==
    \/ /\ require_selection_open
       /\ \/ /\ ~name_agreed(dispute)
             /\ \/ m[1] = "pick" /\ was_proposed(dispute, m[2])
                \/ /\ m[1] = "names" /\ dispute.candidates[me] = {}
                   /\ list_allowed(m[2])
          \/ /\ name_agreed(dispute)
             /\ \/ m[1] = "confirm" /\ confirms_proposal(me, m[2])
                \/ /\ m[1] = "putForward" /\ m[2] \notin Party \cup {NoKey}
                   /\ dispute.key_proposals[me] < MAX_KEY_PROPOSALS_PER_PARTY
    \/ m[1] = "expire" /\ status = "Mediation" /\ may_expire(dispute)

VerdictMay(m) ==
    /\ m[1] = "verdict" /\ status = "Mediation" /\ dispute.appraiser = me
    /\ now < dispute.verdict_deadline /\ m[2] <= terms.deposit

Accepts(m) ==
    \/ me = "tenant"   /\ TenantMay(m)
    \/ me = "landlord" /\ LandlordMay(m)
    \/ me \in Party    /\ MediatorsMay(m)
    \/ me \in Others   /\ VerdictMay(m)

(* The program accepts a move exactly when none of those reasons speaks     *)
(* against it: its bookkeeping never leaves a button, or a script, with a   *)
(* refusal nobody could foresee from the lease's own fields.                *)
NoOtherRefusal == Fresh => \A m \in Move : Accepts(m) <=> ENABLED Submit(m)

(* On a fresh screen, its clock included, every button the app offers is    *)
(* one the program accepts: the guards of the two are separate code.  Three *)
(* refusals are left to the program on purpose or by mistake: a tenant      *)
(* whose identity is not verified is told so after pressing, a deduction    *)
(* can be typed in a lease whose rounds are spent (README, Findings), and a *)
(* rent can be too much for the sums on the tenant's record.                *)
OfferedIsAccepted ==
    Fresh => \A m \in Offered(now) :
        \/ Accepts(m)
        \/ m[1] = "fund" /\ "tenant" \notin cleared
        \/ m[1] = "release" /\ m[2] # 0 /\ dispute_rounds = MAX_DISPUTE_ROUNDS
        \/ m[1] = "pay" /\ ~rent_fits

(* And what the program would accept of this wallet alone, the app offers:  *)
(* no state has an exit that only a script could take.  Picking one's own   *)
(* pick again is the one move it hides.                                     *)
NoMoveHidden ==
    Fresh => \A m \in Move \ Offered(now) :
        Accepts(m) => m[1] = "pick" /\ m[2] = dispute.pick[me]

(* Of every wallet and every state: the two hold together, or one guard was *)
(* changed without its copy (screens.tsx, lib/mediation.ts).                *)
ButtonsMatchProgram == OfferedIsAccepted /\ NoMoveHidden

(* What a button says, whatever the age of what is behind it.               *)
Promised(m) ==
    CASE m[1] \in {"accept", "finalize"} ->
             /\ payout'["landlord"] = view.proposed_deduction
             /\ payout'["tenant"] = terms.deposit - view.proposed_deduction
      [] m[1] = "claim" \/ (m[1] = "release" /\ m[2] = 0) ->
             payout'["tenant"] = terms.deposit
      [] m[1] = "abandon"  -> status' = "Active"
      [] m[1] = "escalate" -> status' = "Mediation"
      [] m[1] = "expire"   -> status' = "Active" /\ payout' = payout
      [] m[1] = "pick" ->
             dispute'.agreed_name # NoName =>
                 /\ dispute'.agreed_name = m[2]
                 /\ dispute'.agreed_fee <= rowFee(disputeView, m[2])
      [] m[1] = "confirm" ->
             /\ dispute'.appraiser = disputeView.proposed_key
             /\ feeFor(terms.deposit, dispute'.agreed_fee)
                  = feeFor(terms.deposit, feeInPlay(disputeView))
      [] m[1] = "verdict" ->
             payout' = verdictSplit(terms.deposit, m[2],
                                    feeFor(terms.deposit, disputeView.agreed_fee))
      [] OTHER -> TRUE

(* What you see is what you sign: nothing that others did since the lease   *)
(* and its Dispute account were read, in whichever order and by whichever   *)
(* clock, can make an accepted button do anything but what it said.  Only   *)
(* the user's own hand elsewhere can (behind): a proposal is replaced after *)
(* its own rejection only.                                                  *)
ButtonKeepsPromise ==
    [][ ~behind => \A t \in ClockValues : \A m \in Offered(t) : Submit(m) => Promised(m)
      ]_<<vars, screenVars>>
=============================================================================
