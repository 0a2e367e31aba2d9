------------------------------ MODULE Balance ------------------------------
(***************************************************************************)
(* The private balance of one wallet, as one browser tab works on it       *)
(* (app/src/lib/pay.ts over lib/confidential.ts, screens/TopUp.tsx and      *)
(* Pay.tsx): a top-up mints to the public balance, the tab moves all but   *)
(* its holdback across, first to pending and from there to available, and  *)
(* rent is paid out of available.  Everything that moves money across runs *)
(* under one lock, which a piece of work loses at a deadline without being *)
(* stopped; the payment itself runs outside it.                            *)
(*                                                                         *)
(* A task is one call of pay.ts; every step of it is one stretch between   *)
(* two awaits.  Amounts are known, keys and proofs are left out: of a proof *)
(* it matters which state of the account it was made for.                  *)
(***************************************************************************)
EXTENDS Integers, Sequences, FiniteSets, SequencesExt, Bags

CONSTANTS
    Securing,                \* tasks that run securePrivateBalance
    Enabling, Paying,        \* and enablePrivateReceiving, payRentPrivately
    Deposit,                 \* what fund_deposit takes from the public balance
    DefaultHoldback,         \* DEFAULT_PUBLIC_HOLDBACK
    TopUp, Rent,
    MaxTopUps, MaxRents, MaxFaults, MaxHangs, MaxCloses,   \* bounds
    None

Task == Securing \cup Enabling \cup Paying

ASSUME BalanceAssumption ==
    /\ Securing \cap Enabling = {} /\ Securing \cap Paying = {} /\ Enabling \cap Paying = {}
    /\ Deposit \in Nat /\ DefaultHoldback \in Nat /\ TopUp \in Nat \ {0} /\ Rent \in Nat \ {0}
    /\ None \notin Task /\ None \notin Nat

VARIABLES
    (* The chain. *)
    configured,                  \* the account carries ConfidentialTransferAccount
    public, pending, available,  \* its three balances
    applied, rents,              \* how often available was rewritten, by either cause
    funded,                      \* fund_deposit has spent the deposit
    strays,                      \* bag of transactions whose sender is gone
    (* The backend. *)
    topUps,      \* publicHoldback of each checkout so far
    credited,    \* those the webhook has credited
    (* The tab. *)
    task,        \* calls in progress
    queue,       \* withBalanceLock: the holder first
    inFlight,    \* secureInFlight: the call a Retry joins
    shown,       \* the top-up the page follows
    card,        \* what its SecurePrivateBalance shows
    need,        \* what "Accept lease" found missing: topUpNeed
    rent,        \* what PayRentCard shows, and the money there was when it began
    faults, hangs, closes,
    (* History variable. *)
    disturbed    \* work was abandoned, lost or overtaken with money or a transaction on its way

money  == <<configured, public, pending, available, applied, rents, funded>>
chain  == <<money, strays>>
orders == <<topUps, credited>>
screen == <<shown, card, need, rent>>
tab    == <<task, queue, inFlight, screen>>
budget == <<faults, hangs, closes>>
vars   == <<chain, orders, tab, budget, disturbed>>

(* The account as a plan reads it. *)
Seen  == [pending |-> pending, applied |-> applied, rents |-> rents, funded |-> funded]
Blank == [pending |-> 0, applied |-> 0, rents |-> 0, funded |-> FALSE]

(* heard: a caller still waits for the outcome.  tx: where the transaction  *)
(* of the current step is.  back: what it leaves public.  seen: the account *)
(* its amount or its proofs were worked out for.                            *)
Idle == [pc |-> "idle", amount |-> 0, tx |-> "none", hung |-> FALSE, heard |-> FALSE, had |-> 0,
         back |-> 0, seen |-> Blank]
Begun(had, back) == [Idle EXCEPT !.pc = "open", !.heard = TRUE, !.had = had, !.back = back]
Unpaid == [says |-> "nothing", had |-> 0]

Init ==
    /\ configured = FALSE /\ public = 0 /\ pending = 0 /\ available = 0 /\ funded = FALSE
    /\ applied = 0 /\ rents = 0 /\ strays = EmptyBag
    /\ topUps = <<>> /\ credited = {}
    /\ task = [r \in Task |-> Idle] /\ queue = <<>> /\ inFlight = None
    /\ shown = None /\ card = "off" /\ need = None /\ rent = Unpaid
    /\ faults = 0 /\ hangs = 0 /\ closes = 0
    /\ disturbed = FALSE

-----------------------------------------------------------------------------
(* What can be lost with the page. *)
Flying(rs) ==
    BagOfAll(LAMBDA r : [kind |-> task[r].pc, amount |-> task[r].amount, seen |-> task[r].seen],
             SetToBag({r \in rs : task[r].tx = "flying"}))
(* Stopping r now leaves something behind that a later call does not see. *)
HalfDone(r) == task[r].tx \in {"flying", "landed"} \/ task[r].pc = "apply"

(* The page goes, and every call of it. *)
Unloaded ==
    /\ strays' = strays (+) Flying(Task)
    /\ disturbed' = (disturbed \/ \E r \in Task : HalfDone(r))
    /\ task' = [r \in Task |-> Idle] /\ queue' = <<>> /\ inFlight' = None
    /\ card' = "off" /\ need' = None /\ rent' = Unpaid

(* The tenant accepts the lease, which is not done on the top-up screen; or *)
(* has too little public, which the app finds out before it asks, or the    *)
(* program after.                                                           *)
FundDeposit ==
    /\ ~funded /\ public >= Deposit
    /\ funded' = TRUE /\ public' = public - Deposit
    /\ UNCHANGED <<configured, pending, available, applied, rents, strays, orders, tab, budget,
                   disturbed>>

depositShortfall == Deposit - public
ShortOfDeposit ==
    /\ ~funded /\ depositShortfall > 0 /\ shown = None
    /\ need' \in {depositShortfall, None}
    /\ UNCHANGED <<chain, orders, task, queue, inFlight, shown, card, rent, budget, disturbed>>

(* Checkout takes the place of the page; coming back paid, the page follows *)
(* the top-up.                                                              *)
holdbackFor == IF need # None THEN need
               ELSE IF DefaultHoldback < TopUp THEN DefaultHoldback ELSE TopUp
Checkout ==
    /\ Len(topUps) < MaxTopUps /\ shown = None
    /\ need # None => need <= TopUp
    /\ topUps' = Append(topUps, holdbackFor)
    /\ shown' \in {None, Len(topUps) + 1}
    /\ Unloaded
    /\ UNCHANGED <<money, credited, budget>>

(* The webhook mints. *)
Credit(c) ==
    /\ c \notin credited
    /\ credited' = credited \cup {c}
    /\ public' = public + TopUp
    /\ UNCHANGED <<configured, pending, available, applied, rents, funded, strays, topUps, tab,
                   budget, disturbed>>

(* The tenant leaves the screen, or the page stops waiting for the webhook: *)
(* the return is not kept, so this top-up is not shown again.               *)
Leave ==
    /\ shown # None
    /\ shown' = None /\ card' = "off"
    /\ UNCHANGED <<chain, orders, task, queue, inFlight, need, rent, budget, disturbed>>

Close ==
    /\ closes < MaxCloses /\ closes' = closes + 1
    /\ Unloaded
    /\ shown' = None
    /\ UNCHANGED <<money, orders, faults, hangs>>

-----------------------------------------------------------------------------
(* securePrivateBalance: a call of the same wallet and holdback in progress *)
(* is the answer, otherwise a new one begins.  A page follows one top-up,   *)
(* so it has one holdback.                                                  *)
Secure ==
    /\ card' = "running"
    /\ \/ inFlight # None /\ UNCHANGED <<task, inFlight>>
       \/ /\ inFlight = None
          /\ \E r \in Securing :
                /\ task[r].pc = "idle"
                /\ task' = [task EXCEPT ![r] = Begun(0, topUps[shown])]
                /\ inFlight' = r
    /\ UNCHANGED <<chain, orders, queue, shown, need, rent, budget, disturbed>>

(* The credit has come, and there is something to make private. *)
ToSecure(c) == c \in credited /\ topUps[c] < TopUp
ShowCard == card = "off" /\ shown # None /\ ToSecure(shown) /\ Secure
Retry    == card = "error" /\ Secure

Enable(r) ==
    /\ r \in Enabling /\ task[r].pc = "idle" /\ ~configured
    /\ task' = [task EXCEPT ![r] = Begun(0, 0)]
    /\ UNCHANGED <<chain, orders, queue, inFlight, screen, budget, disturbed>>

PayRent(r) ==
    /\ r \in Paying /\ task[r].pc = "idle"
    /\ funded /\ rents < MaxRents /\ rent.says # "paying"
    /\ task' = [task EXCEPT ![r] = Begun(public + pending + available, 0)]
    /\ rent' = [says |-> "paying", had |-> task'[r].had]
    /\ UNCHANGED <<chain, orders, queue, inFlight, shown, card, need, budget, disturbed>>

-----------------------------------------------------------------------------
At(r, pc)    == task[r].pc = pc /\ ~task[r].hung
To(r, pc)    == task' = [task EXCEPT ![r].pc = pc, ![r].tx = "none", ![r].seen = Blank]
Queued(r)    == To(r, "queued") /\ queue' = Append(queue, r)
Left(r)      == queue' = IF queue # <<>> /\ Head(queue) = r THEN Tail(queue) ELSE queue
UnderLock(r) == r \in Range(queue)

(* What the caller of r is told, if anybody still waits. *)
Told(r, says) ==
    /\ inFlight' = IF inFlight = r THEN None ELSE inFlight
    /\ card' = IF inFlight = r /\ card = "running" THEN says ELSE card
    /\ rent' = IF r \in Paying /\ task[r].heard THEN [rent EXCEPT !.says = says] ELSE rent
    /\ UNCHANGED <<shown, need>>

(* openSession has answered; a payment asks for the balance first. *)
Opened(r) ==
    /\ At(r, "open")
    /\ IF r \in Paying THEN To(r, "balance") /\ UNCHANGED queue ELSE Queued(r)
    /\ UNCHANGED <<chain, orders, inFlight, screen, budget, disturbed>>

(* payRentPrivately: loadBalance, and a balance that could not be read. *)
Balance(r) ==
    /\ At(r, "balance")
    /\ IF configured /\ available >= Rent THEN To(r, "pay") /\ UNCHANGED queue ELSE Queued(r)
    /\ UNCHANGED <<chain, orders, inFlight, screen, budget, disturbed>>

BalanceUnread(r) ==
    /\ At(r, "balance")
    /\ faults < MaxFaults /\ faults' = faults + 1
    /\ Queued(r)
    /\ UNCHANGED <<chain, orders, inFlight, screen, hangs, closes, disturbed>>

(* withBalanceLock lets r in; ensureAccountWithin reads the account. *)
BadTurn(r) == UnderLock(r)
Turn(r)    == UnderLock(r) /\ Head(queue) = r

Ensure(r) ==
    /\ At(r, "queued") /\ Turn(r)
    /\ To(r, IF ~configured THEN "create" ELSE IF r \in Enabling THEN "ready" ELSE "read")
    /\ UNCHANGED <<chain, orders, queue, inFlight, screen, budget, disturbed>>

(* secureLocked after it: what can be moved is what is public now. *)
BadHeldBack(r) == 0
heldBack(r) == task[r].back
moveable(r) == IF public > heldBack(r) THEN public - heldBack(r) ELSE 0

ReadAccount(r) ==
    /\ At(r, "read")
    /\ task' = [task EXCEPT ![r].amount = moveable(r), ![r].seen = Seen,
                            ![r].pc = IF moveable(r) = 0 THEN "ready" ELSE "deposit"]
    /\ UNCHANGED <<chain, orders, queue, inFlight, screen, budget, disturbed>>

(* The lock is let go.  Work nobody holds a lock for any more, or a caller  *)
(* no longer waits for, ends in silence.                                    *)
Ready(r) ==
    /\ At(r, "ready")
    /\ Left(r)
    /\ IF r \in Paying /\ task[r].heard
         THEN To(r, "check") /\ UNCHANGED <<inFlight, screen>>
         ELSE task' = [task EXCEPT ![r] = Idle] /\ Told(r, "private")
    /\ UNCHANGED <<chain, orders, budget, disturbed>>

(* payRentPrivately: the balance again, and the payment or a refusal. *)
Check(r) ==
    /\ At(r, "check")
    /\ IF available >= Rent
         THEN To(r, "pay") /\ UNCHANGED <<inFlight, screen>>
         ELSE task' = [task EXCEPT ![r] = Idle] /\ Told(r, "refused")
    /\ UNCHANGED <<chain, orders, queue, budget, disturbed>>

-----------------------------------------------------------------------------
(* runPlan over sponsoredSubmit: one transaction at a time, each waited for.*)
(* planApplyPending and planTransfer read the account once more, and work   *)
(* out from it what the chain holds against the account as it is then.  Of  *)
(* the transactions of a payment, whose contexts are RentPlan's, the last   *)
(* is the one that moves money: a payment is on its way from the read on.   *)
Sends == {"create", "deposit", "apply", "pay"}

Submit(r) ==
    /\ \E pc \in Sends : At(r, pc)
    /\ task[r].tx = "none"
    /\ task' = [task EXCEPT ![r].tx = "flying",
                            ![r].seen = IF task[r].pc \in {"apply", "pay"} THEN Seen ELSE @]
    /\ UNCHANGED <<chain, orders, queue, inFlight, screen, budget, disturbed>>

(* The token program.  The proofs of a transfer are about the available     *)
(* balance, as it was last rewritten; an application is about both.         *)
Lawful(kind, amount, seen) ==
    LET current == seen.applied = applied /\ seen.rents = rents IN
    CASE kind = "create"  -> ~configured
      [] kind = "deposit" -> configured /\ public >= amount
      [] kind = "apply"   -> configured /\ current /\ seen.pending = pending
      [] kind = "pay"     -> available >= Rent /\ current

Execute(kind, amount) ==
    /\ configured' = (configured \/ kind = "create")
    /\ public'     = public - (IF kind = "deposit" THEN amount ELSE 0)
    /\ pending'    = IF kind = "deposit" THEN pending + amount
                     ELSE IF kind = "apply" THEN 0 ELSE pending
    /\ available'  = available + (IF kind = "apply" THEN pending ELSE 0)
                               - (IF kind = "pay" THEN Rent ELSE 0)
    /\ applied'    = applied + (IF kind = "apply" /\ pending # 0 THEN 1 ELSE 0)
    /\ rents'      = rents + (IF kind = "pay" THEN 1 ELSE 0)
    /\ UNCHANGED funded

Land(r) ==
    /\ task[r].tx = "flying"
    /\ \/ /\ Lawful(task[r].pc, task[r].amount, task[r].seen)
          /\ Execute(task[r].pc, task[r].amount)
          /\ task' = [task EXCEPT ![r].tx = "landed"]
       \/ /\ ~Lawful(task[r].pc, task[r].amount, task[r].seen)
          /\ task' = [task EXCEPT ![r].tx = "rejected"]
          /\ UNCHANGED money
    /\ UNCHANGED <<strays, orders, queue, inFlight, screen, budget, disturbed>>

StrayLands ==
    /\ \E s \in BagToSet(strays) :
          /\ strays' = strays (-) SetToBag({s})
          /\ IF Lawful(s.kind, s.amount, s.seen) THEN Execute(s.kind, s.amount)
                                                ELSE UNCHANGED money
    /\ UNCHANGED <<orders, tab, budget, disturbed>>

(* confirm has seen it; the next step of secureLocked, or the end. *)
Confirmed(r) ==
    /\ task[r].tx = "landed" /\ ~task[r].hung
    /\ IF task[r].pc = "pay"
         THEN task' = [task EXCEPT ![r] = Idle] /\ Told(r, "paid")
         ELSE /\ To(r, CASE task[r].pc = "create"  -> IF r \in Enabling THEN "ready" ELSE "read"
                         [] task[r].pc = "deposit" -> "apply"
                         [] task[r].pc = "apply"   -> "ready")
              /\ UNCHANGED <<inFlight, screen>>
    /\ UNCHANGED <<chain, orders, queue, budget, disturbed>>

-----------------------------------------------------------------------------
(* What can go wrong. *)

(* A read, a request to the backend or the polling for a signature throws,  *)
(* or the chain refused the transaction.                                    *)
Throws(r) ==
    /\ task[r].pc \notin {"idle", "queued"} /\ ~task[r].hung
    /\ \/ task[r].tx = "rejected" /\ UNCHANGED faults
       \/ task[r].tx # "rejected" /\ faults < MaxFaults /\ faults' = faults + 1
    /\ strays' = strays (+) Flying({r})
    /\ disturbed' = (disturbed \/ HalfDone(r))
    /\ task' = [task EXCEPT ![r] = Idle]
    /\ Left(r)
    /\ Told(r, "error")
    /\ UNCHANGED <<money, orders, hangs, closes>>

Hang(r) ==
    /\ task[r].pc \notin {"idle", "queued"} /\ ~task[r].hung
    /\ hangs < MaxHangs /\ hangs' = hangs + 1
    /\ task' = [task EXCEPT ![r].hung = TRUE]
    /\ UNCHANGED <<chain, orders, queue, inFlight, screen, faults, closes, disturbed>>

Wakes(r) ==
    /\ task[r].hung
    /\ task' = [task EXCEPT ![r].hung = FALSE]
    /\ UNCHANGED <<chain, orders, queue, inFlight, screen, budget, disturbed>>

(* BALANCE_LOCK_DEADLINE_MS after r was let in: its caller is told, the     *)
(* next one is let in, and r goes on if it ever wakes.                      *)
BadAfterDeadline(r) == UNCHANGED queue
AfterDeadline(r)    == Left(r)

Deadline(r) ==
    /\ Turn(r) /\ task[r].hung
    /\ AfterDeadline(r)
    /\ task' = [task EXCEPT ![r].heard = FALSE]
    /\ Told(r, "error")
    /\ disturbed' = TRUE
    /\ UNCHANGED <<chain, orders, budget>>

(* The deadline of securePrivateBalance itself, for a call that hangs       *)
(* before the lock or waits behind one that did: it keeps its place.        *)
Outer(r) ==
    /\ inFlight = r
    /\ \/ task[r].hung /\ ~UnderLock(r)
       \/ task[r].pc = "queued" /\ task[Head(queue)].hung
    /\ task' = [task EXCEPT ![r].heard = FALSE]
    /\ Told(r, "error")
    /\ UNCHANGED <<chain, orders, queue, budget, disturbed>>

-----------------------------------------------------------------------------
Proceeds(r) ==
    \/ Opened(r) \/ Balance(r) \/ Ensure(r) \/ ReadAccount(r) \/ Ready(r) \/ Check(r)
    \/ Submit(r) \/ Land(r) \/ Confirmed(r)

Next ==
    \/ FundDeposit \/ ShortOfDeposit \/ Checkout
    \/ \E c \in DOMAIN topUps : Credit(c)
    \/ ShowCard \/ Retry \/ Leave \/ Close \/ StrayLands
    \/ \E r \in Task :
          \/ Enable(r) \/ PayRent(r) \/ Proceeds(r) \/ BalanceUnread(r)
          \/ Throws(r) \/ Hang(r) \/ Wakes(r) \/ Deadline(r) \/ Outer(r)

Spec == Init /\ [][Next]_vars

(* What does not hang answers, a refusal of the chain is thrown, the        *)
(* deadlines are timers, the card of a credited top-up starts by itself,    *)
(* and a tenant who stays and is shown an error tries again.  A call that   *)
(* hangs may hang for good.                                                 *)
Fairness ==
    /\ \A r \in Task : /\ WF_vars(Proceeds(r))
                       /\ WF_vars(task[r].tx = "rejected" /\ Throws(r))
                       /\ WF_vars(Deadline(r)) /\ WF_vars(Outer(r))
    /\ WF_vars(ShowCard) /\ WF_vars(Retry)

FairSpec == Spec /\ Fairness

-----------------------------------------------------------------------------
(* holdback.ts: until fund_deposit has spent the deposit, no sweep leaves   *)
(* less public than one of the credited top-ups was to keep, the smallest.  *)
HoldbackKept ==
    ~funded /\ credited # {} => \E c \in credited : public >= topUps[c]

(* pay.ts:81-83 and :102-107, what the coalescing and the lock are for: no  *)
(* call sends what the chain refuses because of another.  Three pairs can   *)
(* meet, none of which both hold the lock: a deposit whose money            *)
(* fund_deposit has taken, and an application and a payment, whichever      *)
(* comes second.  Two of one kind, or two creations, never do.              *)
NoneDoomed ==
    \A r \in Task : task[r].tx = "rejected" =>
        \/ task[r].pc = "deposit" /\ funded /\ ~task[r].seen.funded
        \/ task[r].pc = "apply" /\ task[r].seen.rents < rents
        \/ task[r].pc = "pay" /\ task[r].seen.applied < applied

(* Nothing is left pending when nobody works on it. *)
NothingPending == queue = <<>> => pending = 0

(* Rent is refused for lack of funds only to a tenant who had less, on all  *)
(* three balances together, when the payment began.                         *)
RefusedWhenShort == rent.says = "refused" => rent.had < Rent

(* As long as no work was abandoned, lost or overtaken half done; see the   *)
(* README for what the code does after that.                                *)
BalanceSound ==
    ~disturbed => HoldbackKept /\ NoneDoomed /\ NothingPending /\ RefusedWhenShort

(* A top-up whose page stays open is reported private in the end, whatever  *)
(* failed or hung on the way: a deadline gives the lock to the next         *)
(* attempt.                                                                 *)
PrivateInTheEnd ==
    \A c \in 1 .. MaxTopUps :
        shown = c /\ ToSecure(c) ~> card = "private" \/ shown # c

=============================================================================
