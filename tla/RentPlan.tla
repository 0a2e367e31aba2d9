------------------------------ MODULE RentPlan ------------------------------
(***************************************************************************)
(* Co-signing the transactions of a confidential rent payment: the         *)
(* treasury pays for the proof contexts, so each transaction is tied to    *)
(* the session wallet by a plan, booked against spending limits and        *)
(* remembered against replay.  All three are in memory.                    *)
(*                                                                         *)
(* A request books, joins a plan and is remembered in one stretch          *)
(* (`Admit`), is then simulated and sent over several awaits, and ends     *)
(* co-signed (`Cosign`) or undone (`Fail`).  Requests that do not get as   *)
(* far change nothing, except that one the plan refuses sweeps the plans.  *)
(***************************************************************************)
EXTENDS Integers, FiniteSets, FiniteSetsExt

CONSTANTS
    Wallet, Context,
    Message,              \* signed transactions, by what they do to contexts
    PlanTTL,              \* PLAN_TTL_MS
    ReplayWindow,         \* REPLAY_WINDOW_MS
    Hour, Day,
    MaxPreparations,      \* MAX_PREPARATION_TXS
    MaxLivePlans,         \* MAX_LIVE_PLANS
    WalletRate, GlobalRate,        \* transactions per hour
    WalletLamports, GlobalLamports,  \* lamports per day
    WorstCase,            \* what a request is booked with
    MaxNow, MaxRequests,  \* bounds of the clock and of the requests admitted
    None

(* What a transaction creates, verifies or closes (touches), and closes,   *)
(* whether the session wallet signs it, and what it takes from the         *)
(* treasury.  The blockhash tells two signings of one content apart.       *)
ASSUME MessageAssumption ==
    Message \subseteq [wallet : Wallet, created : SUBSET Context, touched : SUBSET Context,
                       closed : SUBSET Context, signed : BOOLEAN, cost : 0 .. WorstCase,
                       blockhash : Nat]

ASSUME LimitAssumption ==
    /\ PlanTTL \in Nat /\ ReplayWindow \in Nat
    /\ Hour \in Nat /\ Day \in Nat /\ Hour <= Day
    /\ MaxPreparations \in Nat \ {0} /\ MaxLivePlans \in Nat /\ WorstCase \in Nat
    /\ WalletRate \in Nat /\ GlobalRate \in Nat
    /\ WalletLamports \in Nat /\ GlobalLamports \in Nat
    /\ None \notin Nat

VARIABLES
    now,
    plans,      \* wallet -> its live plan
    seen,       \* message -> when it was last admitted
    book,       \* the limiter's entries
    pending,    \* requests being simulated or sent
    requests,   \* history: requests admitted so far
    cosigned,   \* history: requests that were, or may have been, sent
    before,     \* history: the plans before the only request in flight
    forgotten   \* history: requests whose memory a late failure deleted

vars == <<now, plans, seen, book, pending, requests, cosigned, before, forgotten>>

Init ==
    /\ now = 0
    /\ plans = [w \in Wallet |-> None]
    /\ seen = [m \in Message |-> None]
    /\ book = {} /\ pending = {}
    /\ requests = 0 /\ cosigned = {} /\ before = None /\ forgotten = {}

-----------------------------------------------------------------------------
(***************************************************************************)
(* The limiter: one entry per request, rewritten by commit, dropped by     *)
(* cancel.  Definitions named Bad... are slips a change to the code could  *)
(* make, for checking that the properties notice them.                     *)
(***************************************************************************)
Since(window) == {e \in book : now - e.at <= window}
OfWallet(entries, w) == {e \in entries : e.wallet = w}
Lamports(entries) == MapThenSumSet(LAMBDA e : e.lamports, entries)

WithinLimits(w) ==
    /\ Cardinality(OfWallet(Since(Hour), w)) < WalletRate
    /\ Cardinality(Since(Hour)) < GlobalRate
    /\ Lamports(OfWallet(Since(Day), w)) + WorstCase <= WalletLamports
    /\ Lamports(Since(Day)) + WorstCase <= GlobalLamports

Entry(id, w, at, n) == [id |-> id, wallet |-> w, at |-> at, lamports |-> n]
Reserved(id, w)     == Since(Day) \cup {Entry(id, w, now, WorstCase)}
BadCancelledAlike(r) == {e \in book : e.wallet # r.msg.wallet \/ e.at # r.at}
Cancelled(r)        == {e \in book : e.id # r.id}
Committed(r)        == Cancelled(r) \cup {Entry(r.id, r.msg.wallet, r.at, r.msg.cost)}

-----------------------------------------------------------------------------
(***************************************************************************)
(* The plan registry.                                                      *)
(***************************************************************************)
Owners(ps, c) == {w \in Wallet : ps[w] # None /\ c \in ps[w].contexts}
LivePlans(ps) == {w \in Wallet : ps[w] # None}

Swept == [w \in Wallet |-> IF plans[w] # None /\ now - plans[w].startedAt > PlanTTL
                           THEN None ELSE plans[w]]

Preparing(m) == ~m.signed \/ m.created # {}

(* The refusals of admit. *)
PlanAccepts(ps, m) ==
    LET existing == ps[m.wallet] IN
    /\ ~m.signed => m.created \cup m.touched # {}
    /\ \A c \in m.created : Owners(ps, c) = {}
    /\ \A c \in m.touched \ m.created : existing # None /\ c \in existing.contexts
    /\ Preparing(m) /\ existing # None => existing.preparations < MaxPreparations
    /\ existing = None /\ m.created # {} => Cardinality(LivePlans(ps)) < MaxLivePlans

(* A new plan is numbered by the request that starts it. *)
PlanFor(ps, m) ==
    IF ps[m.wallet] # None THEN ps[m.wallet]
    ELSE [id |-> requests + 1, startedAt |-> now, preparations |-> 0, contexts |-> {}]

Added(m)     == m.created \ m.closed
Spent(ps, m) == (m.closed \ m.created) \cap PlanFor(ps, m).contexts

(* The plan with this request's delta. *)
Joined(ps, m) ==
    [PlanFor(ps, m) EXCEPT !.preparations = IF Preparing(m) THEN @ + 1 ELSE @,
                           !.contexts = (@ \cup Added(m)) \ Spent(ps, m)]

Registered(ps, m) == ps[m.wallet] # None \/ Preparing(m)
(* The wallet's own transaction ends a plan that has no context left. *)
Ends(ps, m) == m.signed /\ Registered(ps, m) /\ Joined(ps, m).contexts = {}

PlansAfter(ps, m) ==
    IF Ends(ps, m) THEN [ps EXCEPT ![m.wallet] = None]
    ELSE IF Registered(ps, m) THEN [ps EXCEPT ![m.wallet] = Joined(ps, m)]
    ELSE ps

-----------------------------------------------------------------------------
(* What the undo closure of a request keeps: its plan, what it consumed,    *)
(* and the plan itself when it ended it.                                    *)
RequestFor(ps, m) ==
    [id |-> requests + 1, msg |-> m, at |-> now, plan |-> PlanFor(ps, m).id,
     spent |-> Spent(ps, m), ended |-> IF Ends(ps, m) THEN Joined(ps, m) ELSE None]

(* Co-signed within the replay window, or about to be. *)
Replayed(m) == seen[m] # None /\ now - seen[m] <= ReplayWindow

Admit(m) ==
    /\ requests < MaxRequests
    /\ ~Replayed(m)
    /\ WithinLimits(m.wallet)
    /\ PlanAccepts(Swept, m)
    /\ book' = Reserved(requests + 1, m.wallet)
    /\ plans' = PlansAfter(Swept, m)
    /\ seen' = [seen EXCEPT ![m] = now]
    /\ pending' = pending \cup {RequestFor(Swept, m)}
    /\ requests' = requests + 1
    /\ before' = IF pending = {} THEN Swept ELSE None
    /\ UNCHANGED <<now, cosigned, forgotten>>

(* The plan refuses the request: its booking is cancelled, the sweep stays. *)
Refuse(m) ==
    /\ ~Replayed(m)
    /\ WithinLimits(m.wallet)
    /\ ~PlanAccepts(Swept, m)
    /\ plans' = Swept
    /\ before' = None
    /\ UNCHANGED <<now, seen, book, pending, requests, cosigned, forgotten>>

(* Sent, or the send errored without proving that nothing landed: either    *)
(* way the spend, the plan and the memory of the message are kept.          *)
BadCosignUnknownForgets(r) ==
    /\ pending' = pending \ {r}
    /\ cosigned' = cosigned \cup {r}
    /\ book' = Committed(r)
    /\ seen' \in {seen, [seen EXCEPT ![r.msg] = None]}
    /\ before' = None
    /\ UNCHANGED <<now, plans, requests, forgotten>>
Cosign(r) ==
    /\ pending' = pending \ {r}
    /\ cosigned' = cosigned \cup {r}
    /\ book' = Committed(r)
    /\ before' = None
    /\ UNCHANGED <<now, plans, seen, requests, forgotten>>

(* The plan an undo may work on: the live one if it is the request's own,   *)
(* or the one this very request ended.                                      *)
BadUndoTarget(r) == IF plans[r.msg.wallet] = None THEN r.ended ELSE plans[r.msg.wallet]
UndoTarget(r) ==
    LET live == plans[r.msg.wallet] IN
    IF live = None THEN r.ended ELSE IF live.id = r.plan THEN live ELSE None

BadRestored(r) == r.spent
(* What was consumed comes back unless another wallet has claimed it since. *)
Restored(r) == {c \in r.spent : Owners(plans, c) \subseteq {r.msg.wallet}}

BadUndone(r) ==
    [UndoTarget(r) EXCEPT !.contexts = (@ \ Added(r.msg)) \cup Restored(r)]
Undone(r) ==
    [UndoTarget(r) EXCEPT
        !.contexts     = (@ \ Added(r.msg)) \cup Restored(r),
        !.preparations = IF Preparing(r.msg) /\ @ > 0 THEN @ - 1 ELSE @]

Undo(r) ==
    IF UndoTarget(r) = None THEN plans
    ELSE [plans EXCEPT ![r.msg.wallet] =
             IF Undone(r).contexts = {} /\ Undone(r).preparations = 0
             THEN None ELSE Undone(r)]

(* Nothing bounds how long simulating and sending take: a request may end   *)
(* when its message may have been admitted again, because the window has    *)
(* passed or because the memory of this request was deleted before.         *)
Outlived(r) == now - r.at > ReplayWindow \/ r.id \in forgotten
Later(r)    == {s \in pending \cup cosigned : s.msg = r.msg /\ r.id < s.id}

(* Simulation refused it, or the send proved that nothing landed.  The      *)
(* memory is kept by message: a late failure deletes that of a later one.   *)
Fail(r) ==
    /\ pending' = pending \ {r}
    /\ seen' = [seen EXCEPT ![r.msg] = None]
    /\ plans' = Undo(r)
    /\ book' = Cancelled(r)
    /\ before' = None
    /\ forgotten' = IF Outlived(r) THEN forgotten \cup {s.id : s \in Later(r)} ELSE forgotten
    /\ UNCHANGED <<now, requests, cosigned>>

Tick ==
    /\ now < MaxNow
    /\ now' = now + 1
    /\ UNCHANGED <<plans, seen, book, pending, requests, cosigned, before, forgotten>>

Next ==
    \/ \E m \in Message : Admit(m) \/ Refuse(m)
    \/ \E r \in pending : Cosign(r) \/ Fail(r)
    \/ Tick

Spec == Init /\ [][Next]_vars
-----------------------------------------------------------------------------
(***************************************************************************)
(* Properties                                                              *)
(***************************************************************************)
Plan == [id : Nat \ {0}, startedAt : Nat, preparations : Nat, contexts : SUBSET Context]
Request == [id : Nat \ {0}, msg : Message, at : Nat, plan : Nat \ {0},
            spent : SUBSET Context, ended : Plan \cup {None}]

(* "No plan" is told apart from every plan. *)
ASSUME NoneAssumption == None \notin Plan

(* Every variable has its type, and every request in flight is booked.      *)
TypeOK ==
    /\ now \in Nat /\ requests \in Nat
    /\ plans \in [Wallet -> Plan \cup {None}]
    /\ seen \in [Message -> Nat \cup {None}] /\ forgotten \subseteq Nat
    /\ pending \subseteq Request /\ cosigned \subseteq Request
    /\ book \subseteq [id : Nat \ {0}, wallet : Wallet, at : Nat, lamports : 0 .. WorstCase]
    /\ \A r \in pending : now - r.at <= Day =>
           Entry(r.id, r.msg.wallet, r.at, WorstCase) \in book

(* "An account that is registered to any wallet cannot be created again by  *)
(* another" (rentplan.ts:13), whatever is admitted while others roll back:  *)
(* no context is ever part of two wallets' plans.                           *)
ContextsOwnedOnce ==
    \A c \in Context, w, x \in Wallet :
        w \in Owners(plans, c) /\ x \in Owners(plans, c) => w = x

(* MAX_PREPARATION_TXS: one plan never has more transactions paid for by    *)
(* the treasury that are, or may be, sent: not through failures that give   *)
(* their place back, nor through a plan that was ended and comes back.      *)
PreparationsCapped ==
    \A p \in 1 .. requests :
        Cardinality({r \in pending \cup cosigned : r.plan = p /\ Preparing(r.msg)})
            <= MaxPreparations

(* What the treasury pays for requests of one day, those in flight          *)
(* included, is within the daily limit of the wallet and of the backend.    *)
PaidToday == {r \in pending \cup cosigned : now - r.at <= Day}
Paid(rs) == MapThenSumSet(LAMBDA r : r.msg.cost, rs)
BudgetCoversSpend ==
    /\ \A w \in Wallet : Paid({r \in PaidToday : r.msg.wallet = w}) <= WalletLamports
    /\ Paid(PaidToday) <= GlobalLamports

(* Neither cap is passed by requests that fail late, plans that end and     *)
(* come back, or sends whose outcome nobody knows.                          *)
CapsHold == PreparationsCapped /\ BudgetCoversSpend

(* The replay guard, for requests of any length: two requests of one        *)
(* message, in flight or co-signed, are further apart than the window in    *)
(* which both could land, unless an earlier one of that message failed      *)
(* after the window had passed and took the memory of the first with it.    *)
CosignedOncePerWindow ==
    \A r, s \in pending \cup cosigned :
        r.id < s.id /\ r.msg = s.msg =>
            s.at - r.at > ReplayWindow \/ r.id \in forgotten

(* "A retry is legitimate" (treasury.md): a request that fails with no      *)
(* other admitted since it was leaves every plan as it found it.            *)
Failing == pending' # pending /\ pending' \subseteq pending /\ cosigned' = cosigned
RollbackExact == [][Failing /\ before # None => plans' = before]_vars
=============================================================================
