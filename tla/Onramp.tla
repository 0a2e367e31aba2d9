------------------------------- MODULE Onramp -------------------------------
(***************************************************************************)
(* The fiat on-ramp and the treasury it mints through, in mock mode: a     *)
(* payment becomes a provider event, the provider delivers it until it is  *)
(* answered 2xx, and the backend mints rUSDC against an in-memory reserve. *)
(*                                                                         *)
(* The backend is one thread, so a handler runs undisturbed up to its next *)
(* await: each action below is one such stretch.  A delivery, or an        *)
(* operator's wrap, that is suspended is a slot of `task`.                 *)
(*                                                                         *)
(*   chain     supply, orphans (mints sent whose sender stopped waiting)   *)
(*   process   mockReserve, seeding, task, inFlight, credits, capLog,      *)
(*             payoutLog: lost when the process dies                       *)
(*   provider  payment, acked, dupes                                       *)
(***************************************************************************)
EXTENDS Integers, FiniteSets, FiniteSetsExt

CONSTANTS
    Event,          \* top-ups, and the provider event each becomes once paid
    Wallet,
    WalletOf,       \* the wallet a top-up credits
    Amount,         \* its price in base units
    Admin,          \* the source of a wrap an operator asks for
    AdminAmount,
    Slot,           \* bound: requests suspended at once
    CapLimit,       \* maxUsdcPerWalletPerDay
    Window,         \* the rolling day
    MaxNow,         \* bound of the clock
    InitialSupply,  \* rUSDC in circulation when the run starts
    MaxFaults,      \* bound: RPC errors and dropped transactions
    MaxSeedFaults,  \* bound: of these, failures of the first supply read
    MaxDupes,       \* bound: deliveries of an event already answered
    MaxAttempts,    \* the provider gives up after so many failed deliveries
    MaxPaidOut,     \* bound: what the payouts to a wallet add up to
    MaxCrashes, MaxAdmin, None

ASSUME EventAssumption ==
    /\ IsFiniteSet(Event) /\ IsFiniteSet(Slot) /\ Slot # {}
    /\ None \notin Event \cup {Admin}
    /\ None \notin [status : {"credited", "rejected"}, at : Nat]
    /\ WalletOf \in [Event -> Wallet]
    /\ Amount \in [Event -> Nat \ {0}]
    /\ AdminAmount \in Nat \ {0} /\ Admin \notin Event
    /\ InitialSupply \in Nat /\ CapLimit \in Nat /\ Window \in Nat /\ MaxNow \in Nat

VARIABLES supply, orphans,
          mockReserve, seeding, task, inFlight, credits, capLog, payoutLog,
          payment, acked, dupes,
          now, faults, seedFaults, crashes, adminOps,
          minted,     \* history: mints of each source that landed
          failed      \* history: attempts at each event that ended in an error

chain    == <<supply, orphans, minted>>
process  == <<mockReserve, seeding, task, inFlight, credits, capLog, payoutLog>>
provider == <<payment, acked, dupes>>
budget   == <<faults, seedFaults, crashes, adminOps>>
vars     == <<chain, process, provider, now, budget, failed>>

Source == Event \cup {Admin}
AmountOf(s) == IF s = Admin THEN AdminAmount ELSE Amount[s]

IdleTask == [pc |-> "idle", src |-> None, supplySeen |-> None, reserveSeen |-> None]

(***************************************************************************)
(* createDailyCap: for each wallet a log of what was recorded when, here   *)
(* the total of each instant, of which the entries in the window count and *)
(* the others are dropped.                                                 *)
(* Here and below, the definitions named Bad... are slips a change to the  *)
(* code could make, for checking that the properties notice them.          *)
(***************************************************************************)
SumOver(S, f(_)) == MapThenSumSet(f, S)

Instant == 0 .. MaxNow
NoEntries          == [t \in Instant |-> 0]
Live               == {t \in Instant : now - t <= Window}
Used(log)          == SumOver(Live, LAMBDA t : log[t])
CapAllows(log, n)  == Used(log) + n <= CapLimit
Recorded(log, n)   == [t \in Instant |-> (IF t \in Live THEN log[t] ELSE 0)
                                        + (IF t = now THEN n ELSE 0)]

Init ==
    /\ supply = InitialSupply /\ orphans = [s \in Source |-> 0]
    /\ mockReserve = 0 /\ seeding = "no"
    /\ task = [t \in Slot |-> IdleTask]
    /\ inFlight = {}
    /\ credits = [e \in Event |-> None]
    /\ capLog = [w \in Wallet |-> NoEntries] /\ payoutLog = [w \in Wallet |-> NoEntries]
    /\ payment = [e \in Event |-> "none"] /\ acked = {} /\ dupes = 0
    /\ now = 0 /\ faults = 0 /\ seedFaults = 0 /\ crashes = 0 /\ adminOps = 0
    /\ minted = [s \in Source |-> 0] /\ failed = [e \in Event |-> 0]

-----------------------------------------------------------------------------
(***************************************************************************)
(* Checkout, and the user paying on the provider's page.                   *)
(***************************************************************************)
Checkout(e) ==
    /\ payment[e] = "none"
    /\ CapAllows(capLog[WalletOf[e]], Amount[e])
    /\ payment' = [payment EXCEPT ![e] = "open"]
    /\ UNCHANGED <<chain, process, acked, dupes, now, budget, failed>>

Pay(e) ==
    /\ payment[e] = "open"
    /\ payment' = [payment EXCEPT ![e] = "paid"]
    /\ UNCHANGED <<chain, process, acked, dupes, now, budget, failed>>

-----------------------------------------------------------------------------
(***************************************************************************)
(* handleWebhook, up to its first await.                                   *)
(***************************************************************************)
(* The provider delivers until it is answered 2xx or has given up, and may *)
(* repeat itself.                                                          *)
Delivered(e) ==
    /\ payment[e] = "paid" /\ failed[e] < MaxAttempts
    /\ \/ e \notin acked /\ UNCHANGED dupes
       \/ e \in acked /\ dupes < MaxDupes /\ dupes' = dupes + 1

(* The event already has a credit: it is the answer. *)
Replay(e) ==
    /\ Delivered(e)
    /\ credits[e] # None
    /\ acked' = acked \cup {e}
    /\ UNCHANGED <<chain, process, payment, now, budget, failed>>

(* The event is being credited: wait for that promise. *)
Join(e, t) ==
    /\ Delivered(e)
    /\ credits[e] = None /\ e \in inFlight
    /\ task[t] = IdleTask
    /\ task' = [task EXCEPT ![t].pc = "waiting", ![t].src = e]
    /\ UNCHANGED <<chain, mockReserve, seeding, inFlight, credits, capLog, payoutLog,
                   payment, acked, now, budget, failed>>

BadFreshNotCredited(e) == e \notin inFlight
Fresh(e) == credits[e] = None /\ e \notin inFlight

(* creditEvent refuses a credit over the cap for good. *)
Reject(e) ==
    /\ Delivered(e)
    /\ Fresh(e)
    /\ ~CapAllows(capLog[WalletOf[e]], Amount[e])
    /\ credits' = [credits EXCEPT ![e] = [status |-> "rejected", at |-> now]]
    /\ acked' = acked \cup {e}
    /\ UNCHANGED <<chain, mockReserve, seeding, task, inFlight, capLog, payoutLog,
                   payment, now, budget, failed>>

Lead(e, t) ==
    /\ Delivered(e)
    /\ Fresh(e)
    /\ CapAllows(capLog[WalletOf[e]], Amount[e])
    /\ task[t] = IdleTask
    /\ task' = [task EXCEPT ![t].pc = "treasury", ![t].src = e]
    /\ inFlight' = inFlight \cup {e}
    /\ UNCHANGED <<chain, mockReserve, seeding, credits, capLog, payoutLog,
                   payment, acked, now, budget, failed>>

-----------------------------------------------------------------------------
(***************************************************************************)
(* wrap: read supply and reserve, check, mint, read again.                 *)
(***************************************************************************)
(* reserve() in mock mode: the ledger at once when it has been seeded, and *)
(* otherwise after the first read of the supply, which it starts.          *)
StartReading(t, s, ledger) ==
    /\ task' = [task EXCEPT ![t] = [pc |-> "reading", src |-> s, supplySeen |-> None,
                   reserveSeen |-> IF seeding = "done" THEN ledger ELSE None]]
    /\ seeding' = IF seeding = "no" THEN "running" ELSE seeding

(* creditEvent after `await deps.treasury()`. *)
CreditReserve(t) ==
    /\ task[t].pc = "treasury"
    /\ mockReserve' = mockReserve + AmountOf(task[t].src)
    /\ StartReading(t, task[t].src, mockReserve')
    /\ UNCHANGED <<chain, inFlight, credits, capLog, payoutLog, provider, now, budget, failed>>

(* POST /api/treasury/wrap, with or without its creditReserve flag. *)
AdminWrap(t, credit) ==
    /\ adminOps < MaxAdmin /\ adminOps' = adminOps + 1
    /\ task[t] = IdleTask
    /\ mockReserve' = IF credit THEN mockReserve + AdminAmount ELSE mockReserve
    /\ StartReading(t, Admin, mockReserve')
    /\ UNCHANGED <<chain, inFlight, credits, capLog, payoutLog, provider, now,
                   faults, seedFaults, crashes, failed>>

(* POST /api/treasury/credit-reserve; GET /api/treasury/invariant only seeds. *)
AdminCredit ==
    /\ adminOps < MaxAdmin /\ adminOps' = adminOps + 1
    /\ mockReserve' = mockReserve + AdminAmount
    /\ seeding' = IF seeding = "no" THEN "running" ELSE seeding
    /\ UNCHANGED <<chain, task, inFlight, credits, capLog, payoutLog, provider, now,
                   faults, seedFaults, crashes, failed>>

InvariantRoute ==
    /\ seeding = "no" /\ seeding' = "running"
    /\ UNCHANGED <<chain, mockReserve, task, inFlight, credits, capLog, payoutLog,
                   provider, now, budget, failed>>

AwaitsSeed(t) == task[t].pc = "reading" /\ task[t].reserveSeen = None

BadSeedOverwrites == supply
(* `+=`, so a credit made before the first read is not lost. *)
SeededReserve == mockReserve + supply

SeedReturns ==
    /\ seeding = "running" /\ seeding' = "done"
    /\ mockReserve' = SeededReserve
    /\ task' = [t \in Slot |-> IF AwaitsSeed(t)
                               THEN [task[t] EXCEPT !.reserveSeen = mockReserve']
                               ELSE task[t]]
    /\ UNCHANGED <<chain, inFlight, credits, capLog, payoutLog, provider, now, budget, failed>>

SupplyReturns(t) ==
    /\ task[t].pc = "reading" /\ task[t].supplySeen = None
    /\ task' = [task EXCEPT ![t].supplySeen = supply]
    /\ UNCHANGED <<chain, mockReserve, seeding, inFlight, credits, capLog, payoutLog,
                   provider, now, budget, failed>>

(* assertInvariant, once both reads are in. *)
BothRead(t) == task[t].pc = "reading" /\ task[t].supplySeen # None /\ task[t].reserveSeen # None
BadAssertNothingMore(t) == task[t].supplySeen <= task[t].reserveSeen
AssertInvariant(t) ==
    task[t].supplySeen + AmountOf(task[t].src) <= task[t].reserveSeen

Send(t) ==
    /\ BothRead(t)
    /\ AssertInvariant(t)
    /\ task' = [task EXCEPT ![t].pc = "flying"]
    /\ UNCHANGED <<chain, mockReserve, seeding, inFlight, credits, capLog, payoutLog,
                   provider, now, budget, failed>>

(* The network: a transaction lands, or is dropped. *)
MintLands(s) ==
    /\ supply' = supply + AmountOf(s)
    /\ minted' = [minted EXCEPT ![s] = @ + 1]

Land(t) ==
    /\ task[t].pc = "flying"
    /\ MintLands(task[t].src)
    /\ task' = [task EXCEPT ![t].pc = "landed"]
    /\ UNCHANGED <<orphans, mockReserve, seeding, inFlight, credits, capLog, payoutLog,
                   provider, now, budget, failed>>

OrphanLands(s) ==
    /\ orphans[s] > 0
    /\ MintLands(s)
    /\ orphans' = [orphans EXCEPT ![s] = @ - 1]
    /\ UNCHANGED <<process, provider, now, budget, failed>>

OrphanDropped(s) ==
    /\ orphans[s] > 0
    /\ orphans' = [orphans EXCEPT ![s] = @ - 1]
    /\ UNCHANGED <<supply, minted, process, provider, now, budget, failed>>

(* run() confirmed the mint; wrap then reads the invariant once more. *)
RunReturns(t) ==
    /\ task[t].pc = "landed"
    /\ task' = [task EXCEPT ![t].pc = "after"]
    /\ UNCHANGED <<chain, mockReserve, seeding, inFlight, credits, capLog, payoutLog,
                   provider, now, budget, failed>>

-----------------------------------------------------------------------------
(***************************************************************************)
(* The end of an attempt.                                                  *)
(***************************************************************************)
(* The slots that settle with those in T: they and their followers. *)
SettledWith(T) == T \cup {u \in Slot : task[u].pc = "waiting"
                                       /\ task[u].src \in {task[t].src : t \in T}}
FreeSlots(T) == task' = [u \in Slot |-> IF u \in SettledWith(T) THEN IdleTask ELSE task[u]]
EventsOf(T)  == {task[t].src : t \in T} \ {Admin}

BadKeptOnError(T) == IF \E t \in T : task[t].pc = "after" THEN inFlight \ EventsOf(T) ELSE inFlight
(* `finally(() => inFlight.delete(ref))` *)
StillInFlight(T) == inFlight \ EventsOf(T)

(* wrap returned to creditEvent. *)
Credit(t) ==
    /\ task[t].pc = "after" /\ task[t].src # Admin
    /\ LET e == task[t].src IN
         /\ capLog' = [capLog EXCEPT ![WalletOf[e]] = Recorded(@, Amount[e])]
         /\ credits' = [credits EXCEPT ![e] = [status |-> "credited", at |-> now]]
         /\ acked' = acked \cup {e}
    /\ FreeSlots({t})
    /\ inFlight' = StillInFlight({t})
    /\ UNCHANGED <<chain, mockReserve, seeding, payoutLog, payment, dupes, now, budget, failed>>

AdminWrapReturns(t) ==
    /\ task[t].pc = "after" /\ task[t].src = Admin
    /\ FreeSlots({t})
    /\ UNCHANGED <<chain, mockReserve, seeding, inFlight, credits, capLog, payoutLog,
                   provider, now, budget, failed>>

(* The attempts in the slots T throw.  A mint still on its way is orphaned. *)
Throw(T) ==
    /\ FreeSlots(T)
    /\ inFlight' = StillInFlight(T)
    /\ failed' = [e \in Event |-> failed[e] + (IF e \in EventsOf(T) THEN 1 ELSE 0)]
    /\ orphans' = [s \in Source |->
          orphans[s] + Cardinality({t \in T : task[t].pc = "flying" /\ task[t].src = s})]
    /\ UNCHANGED <<supply, minted, mockReserve, credits, capLog, payoutLog, provider, now,
                   crashes, adminOps>>

Fault == faults < MaxFaults /\ faults' = faults + 1

InvariantViolation(t) ==
    /\ BothRead(t)
    /\ ~AssertInvariant(t)
    /\ Throw({t})
    /\ UNCHANGED <<seeding, faults, seedFaults>>

(* An RPC error: the supply read, the send or its confirmation (with the   *)
(* mint still able to land, or landed), or the last read of the invariant. *)
RpcFails(t) ==
    /\ \/ task[t].pc = "reading" /\ task[t].supplySeen = None
       \/ task[t].pc \in {"flying", "landed", "after"}
    /\ Fault
    /\ Throw({t})
    /\ UNCHANGED <<seeding, seedFaults>>

(* The seeding promise rejects: so does every reserve() waiting for it, and *)
(* `??=` keeps it for the ones to come.                                     *)
SeedFails ==
    /\ seeding = "running" /\ seedFaults < MaxSeedFaults
    /\ seeding' = "rejected"
    /\ seedFaults' = seedFaults + 1
    /\ Throw({t \in Slot : AwaitsSeed(t)})
    /\ UNCHANGED faults

ReserveRejects(t) ==
    /\ seeding = "rejected" /\ AwaitsSeed(t)
    /\ Throw({t})
    /\ UNCHANGED <<seeding, faults, seedFaults>>

-----------------------------------------------------------------------------
(* offramp.payout without a burn: the cap is checked and recorded at once. *)
Payout(w, n) ==
    /\ SumOver(Instant, LAMBDA t : payoutLog[w][t]) + n <= MaxPaidOut
    /\ CapAllows(payoutLog[w], n)
    /\ payoutLog' = [payoutLog EXCEPT ![w] = Recorded(@, n)]
    /\ UNCHANGED <<chain, mockReserve, seeding, task, inFlight, credits, capLog,
                   provider, now, budget, failed>>

(* The process dies and starts again with nothing but the chain. *)
Crash ==
    /\ crashes < MaxCrashes /\ crashes' = crashes + 1
    /\ orphans' = [s \in Source |->
          orphans[s] + Cardinality({t \in Slot : task[t].pc = "flying" /\ task[t].src = s})]
    /\ mockReserve' = 0 /\ seeding' = "no"
    /\ task' = [t \in Slot |-> IdleTask]
    /\ inFlight' = {}
    /\ credits' = [e \in Event |-> None]
    /\ capLog' = [w \in Wallet |-> NoEntries] /\ payoutLog' = [w \in Wallet |-> NoEntries]
    /\ UNCHANGED <<supply, minted, provider, now, faults, seedFaults, adminOps, failed>>

Tick ==
    /\ now < MaxNow /\ now' = now + 1
    /\ UNCHANGED <<chain, process, provider, budget, failed>>

Deliver(e)  == Replay(e) \/ Reject(e) \/ \E t \in Slot : Join(e, t) \/ Lead(e, t)
Progress(t) == \/ CreditReserve(t) \/ SupplyReturns(t) \/ Send(t) \/ Land(t)
               \/ RunReturns(t) \/ Credit(t) \/ AdminWrapReturns(t)
               \/ InvariantViolation(t) \/ ReserveRejects(t)

Next ==
    \/ \E e \in Event : Checkout(e) \/ Pay(e) \/ Deliver(e)
    \/ \E t \in Slot : \/ Progress(t) \/ RpcFails(t)
                       \/ \E credit \in BOOLEAN : AdminWrap(t, credit)
    \/ \E s \in Source : OrphanLands(s) \/ OrphanDropped(s)
    \/ \E w \in Wallet : Payout(w, AdminAmount)
    \/ AdminCredit \/ InvariantRoute \/ SeedReturns \/ SeedFails
    \/ Crash \/ Tick

(* The provider delivers again until it is answered or gives up, and       *)
(* every await of the process returns: the RPC client gives up by itself.  *)
Fairness ==
    /\ \A e \in Event : WF_vars(Deliver(e))
    /\ \A t \in Slot : WF_vars(Progress(t))
    /\ WF_vars(SeedReturns)

Spec     == Init /\ [][Next]_vars
FairSpec == Spec /\ Fairness
-----------------------------------------------------------------------------
(***************************************************************************)
(* Properties                                                              *)
(***************************************************************************)
(* Every variable has its type, followers follow a leader, and an event in *)
(* flight has exactly one leader.                                          *)
Pcs == {"idle", "waiting", "treasury", "reading", "flying", "landed", "after"}
LeadersOf(e) == {t \in Slot : task[t].src = e /\ task[t].pc # "waiting"}
TypeOK ==
    /\ supply \in Nat /\ mockReserve \in Nat /\ now \in Nat
    /\ orphans \in [Source -> Nat] /\ minted \in [Source -> Nat] /\ failed \in [Event -> Nat]
    /\ seeding \in {"no", "running", "done", "rejected"}
    /\ task \in [Slot -> [pc : Pcs, src : Source \cup {None},
                          supplySeen : Nat \cup {None}, reserveSeen : Nat \cup {None}]]
    /\ payment \in [Event -> {"none", "open", "paid"}] /\ acked \subseteq Event
    /\ credits \in [Event -> [status : {"credited", "rejected"}, at : Nat] \cup {None}]
    /\ \A e \in Event : Cardinality(LeadersOf(e)) = (IF e \in inFlight THEN 1 ELSE 0)
    /\ \A t \in Slot : task[t].pc = "waiting" => task[t].src \in inFlight

Flying(s)     == Cardinality({t \in Slot : task[t].pc = "flying" /\ task[t].src = s})
OnTheWay(s)   == orphans[s] + Flying(s)
Untouched     == crashes = 0 /\ adminOps = 0

(* Provider traffic alone keeps the peg even in the worst case of every     *)
(* mint still on its way landing: each attempt credited the reserve before  *)
(* it minted, whatever the deliveries, failures and orphans.                *)
ReserveCoversMints ==
    Untouched /\ seeding = "done" =>
        supply + SumOver(Source, LAMBDA s : OnTheWay(s) * AmountOf(s)) <= mockReserve

(* The reserve is the supply it was seeded with and one credit for each     *)
(* attempt at an event, the failed ones included: nothing is lost or        *)
(* counted twice by a credit that comes before, during or after seeding.    *)
AttemptsCredited(e) ==
    failed[e] + (IF credits[e] # None /\ credits[e].status = "credited" THEN 1 ELSE 0)
              + Cardinality({t \in LeadersOf(e) : task[t].pc # "treasury"})
ReserveAccounted ==
    Untouched =>
        mockReserve = (IF seeding = "done" THEN InitialSupply ELSE 0)
                      + SumOver(Event, LAMBDA e : AttemptsCredited(e) * Amount[e])

(* The two together: what the reserve is, and that it suffices.             *)
ReserveSound == ReserveCoversMints /\ ReserveAccounted

(* Duplicated and concurrent deliveries never mint by themselves: an event  *)
(* is minted, or can still be, at most once more than its attempts failed   *)
(* and the process died.                                                    *)
OneMintPerAttempt ==
    \A e \in Event : minted[e] + OnTheWay(e) <= failed[e] + crashes + 1

(* With one leader for an event in flight and none for any other.           *)
DeliveriesSound == TypeOK /\ OneMintPerAttempt

(* onramp.ts:9: "one provider event credits exactly once".                  *)
CreditedExactlyOnce == \A e \in Event : minted[e] <= 1

(* What requests in flight can pass, and how far: the peg (treasury.ts:7,  *)
(* rUSDC in circulation does not exceed the reserve) and the daily cap of a *)
(* wallet (onramp.ts:12) are checked before a mint and awaits come between, *)
(* so they can be outrun, but only by what the OTHER requests in flight     *)
(* carry, and the peg only as long as every request hears what became of    *)
(* its mint.  A payout checks and records in one stretch: its cap is exact. *)
LargestAmount == Max({Amount[e] : e \in Event} \cup {AdminAmount})
Ahead == (Cardinality(Slot) - 1) * LargestAmount
CreditedToday(w) ==
    SumOver({e \in Event : /\ WalletOf[e] = w /\ credits[e] # None
                           /\ credits[e].status = "credited" /\ now - credits[e].at <= Window},
            LAMBDA e : Amount[e])
PaidOutToday(w) == Used(payoutLog[w])
OvershootBounded ==
    /\ faults = 0 /\ crashes = 0 /\ seeding = "done" => supply <= mockReserve + Ahead
    /\ \A w \in Wallet : CreditedToday(w) <= CapLimit + Ahead
    /\ \A w \in Wallet : PaidOutToday(w) <= CapLimit

(* stripe.md:53: money taken "must not be stuck": a paid event is answered  *)
(* for good, with a credit or a rejection.                                  *)
EventSettles == \A e \in Event : payment[e] = "paid" ~> e \in acked
=============================================================================
