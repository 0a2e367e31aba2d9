------------------------------ MODULE Sponsor ------------------------------
(***************************************************************************)
(* The other transactions the backend pays for: those the fee payer        *)
(* co-signs (sponsor.ts), the set-up of a confidential account and the     *)
(* rent a new wallet is granted (treasury.ts).  Each route has a limiter   *)
(* and suspends between booking and knowing what it spent; beside them the *)
(* treasury's balance moves with the rent payments of RentPlan, whose      *)
(* clock and memory of the process this module shares.                     *)
(***************************************************************************)
EXTENDS RentPlan, Inspect

CONSTANTS
    FeePayer, Treasury,     \* the backend's two keys
    Sponsorable, Setups,    \* transactions clients send to the two routes
    Caps,                   \* route -> the four caps of its limiter
    Dust,                   \* rentDustAmount
    StartPurse,             \* what the treasury starts with
    MaxAsks, MaxRestarts, MaxPurse, MaxMoves   \* bounds

Route == {"sponsor", "setup", "dust"}

ASSUME SponsorAssumption ==
    /\ Caps \in [Route -> [walletRate : Nat, globalRate : Nat, wallet : Nat, global : Nat]]
    /\ Dust \in Nat \ {0} /\ StartPurse \in Nat
    /\ MaxAsks \in Nat /\ MaxRestarts \in Nat /\ MaxPurse \in Nat /\ MaxMoves \in Nat
    /\ FeePayer \notin Wallet /\ Treasury \notin Wallet

(* Signers are finitely many, instructions a sequence, their numbers u64.   *)
ASSUME OffersAssumption ==
    \A t \in Sponsorable \cup Setups :
        /\ IsFiniteSet(t.signers)
        /\ DOMAIN t.ixs = 1 .. Len(t.ixs)
        /\ \A i \in DOMAIN t.ixs : t.ixs[i].n \in Nat

VARIABLES
    books,         \* route -> the entries of its limiter
    asks,          \* requests in progress
    dustGranted,
    purse,         \* chain: the treasury's balance
    held,          \* chain: a wallet's own lamports
    lastAsk, restarts, moves,
    (* History variable. *)
    kept           \* requests whose transaction was sent, and what they were told

sponsorVars == <<books, asks, dustGranted, purse, held, lastAsk, restarts, moves, kept>>

SponsorInit ==
    /\ Init
    /\ books = [route \in Route |-> {}]
    /\ asks = {} /\ dustGranted = {} /\ kept = {}
    /\ purse = StartPurse
    /\ held = [w \in Wallet |-> 0]
    /\ lastAsk = 0 /\ restarts = 0 /\ moves = 0

-----------------------------------------------------------------------------
(* limits.ts, one limiter per route. *)
Booked(route, window) == {e \in books[route] : now - e.at <= window}
Within(route, w, n) ==
    LET cap == Caps[route] IN
    /\ Cardinality(OfWallet(Booked(route, Hour), w)) < cap.walletRate
    /\ Cardinality(Booked(route, Hour)) < cap.globalRate
    /\ Lamports(OfWallet(Booked(route, Day), w)) + n <= cap.wallet
    /\ Lamports(Booked(route, Day)) + n <= cap.global
Reserve(r) ==
    [books EXCEPT ![r.route] = Booked(r.route, Day) \cup {Entry(r.id, r.wallet, now, r.booked)}]
Cancel(r) == [books EXCEPT ![r.route] = {e \in @ : e.id # r.id}]
Commit(r) ==
    [books EXCEPT ![r.route] =
        {IF e.id = r.id THEN [e EXCEPT !.lamports = r.booked] ELSE e : e \in @}]

(* What a request that passes the rules of its route asks for: the fee, what*)
(* its instructions take from the key that signs, and what is booked.       *)
Offer(w, fee, takes, booked) == [wallet |-> w, fee |-> fee, takes |-> takes, booked |-> booked]
SponsorOffers ==
    {Offer(p[2], worstCaseFeeLamports(p[1]), Taken(p[1], FeePayer), bookedLamports(p[1], FeePayer)) :
        p \in {q \in Sponsorable \X Wallet : SponsorAccepts(q[1], q[2], FeePayer)}}
SetupOffers ==
    {Offer(p[2], worstCaseFeeLamports(p[1]), Taken(p[1], Treasury),
           Policy.rent + worstCaseFeeLamports(p[1])) :
        p \in {q \in Setups \X Wallet : SetupAccepts(q[1], q[2], Treasury)}}

(* A request in progress: beside its offer the two balances it compares and,*)
(* for the properties, which way the balance moved between its two reads.   *)
Ask(route, pc, offer) ==
    [id |-> lastAsk + 1, route |-> route, wallet |-> offer.wallet, at |-> now, pc |-> pc,
     fee |-> offer.fee, takes |-> offer.takes, booked |-> offer.booked,
     first |-> 0, post |-> 0, moved |-> {}, life |-> restarts, landed |-> FALSE]
Begin(r)   == lastAsk < MaxAsks /\ asks' = asks \cup {r} /\ lastAsk' = lastAsk + 1
Resume(r, s) == asks' = (asks \ {r}) \cup {s}
Drop(r)    == asks' = asks \ {r}
Keep(r, told) == kept' = kept \cup {[r EXCEPT !.pc = told]}

Reading == {"simulate", "after"}
Moved(rs, way) == {IF r.pc \in Reading THEN [r EXCEPT !.moved = @ \cup {way}] ELSE r : r \in rs}

-----------------------------------------------------------------------------
(* sponsor: refused requests leave nothing; one that is booked is simulated *)
(* and sent, and whatever throws on the way gives the booking back.         *)
Sponsor(offer) ==
    LET r == Ask("sponsor", "simulating", offer) IN
    /\ Within("sponsor", r.wallet, r.booked)
    /\ Begin(r)
    /\ books' = Reserve(r)
    /\ UNCHANGED <<vars, dustGranted, purse, held, restarts, moves, kept>>

Simulated(r) ==
    /\ r.pc = "simulating"
    /\ Resume(r, [r EXCEPT !.pc = "sending"])
    /\ UNCHANGED <<vars, books, dustGranted, purse, held, lastAsk, restarts, moves, kept>>

(* A simulation or a read of the balance that fails. *)
SimulationFails(r) ==
    /\ r.pc \in {"simulating", "before", "simulate", "after"}
    /\ Drop(r)
    /\ books' = Cancel(r)
    /\ UNCHANGED <<vars, dustGranted, purse, held, lastAsk, restarts, moves, kept>>

-----------------------------------------------------------------------------
(* sponsorConfidentialAccountSetup, cosignAndSend *)
SetUp(offer) ==
    LET r == Ask("setup", "before", offer) IN
    /\ Within("setup", r.wallet, r.booked)
    /\ Begin(r)
    /\ books' = Reserve(r)
    /\ UNCHANGED <<vars, dustGranted, purse, held, restarts, moves, kept>>

ReadBefore(r) ==
    /\ r.pc = "before"
    /\ Resume(r, [r EXCEPT !.pc = "simulate", !.first = purse])
    /\ UNCHANGED <<vars, books, dustGranted, purse, held, lastAsk, restarts, moves, kept>>

Simulate(r) ==
    /\ r.pc = "simulate" /\ r.takes <= purse
    /\ Resume(r, [r EXCEPT !.pc = "after", !.post = purse - r.takes])
    /\ UNCHANGED <<vars, books, dustGranted, purse, held, lastAsk, restarts, moves, kept>>

BadReference(r) == r.first
reference(r)    == Max({r.first, purse})
spent(r)        == reference(r) - r.post

(* The second read of the balance decides; from here the request is sent.   *)
ReadAfter(r) ==
    /\ r.pc = "after"
    /\ IF spent(r) \in 0 .. Policy.rent
         THEN /\ Resume(r, [r EXCEPT !.pc = "sending", !.booked = spent(r) + r.fee,
                                       !.first = 0, !.post = 0])
              /\ UNCHANGED books
         ELSE Drop(r) /\ books' = Cancel(r)
    /\ UNCHANGED <<vars, dustGranted, purse, held, lastAsk, restarts, moves, kept>>

(* Sent: the sponsor commits what it booked, the treasury what it measured; *)
(* to the treasury a send whose outcome is unknown is one as well.          *)
Send(r) ==
    /\ r.pc = "sending"
    /\ Drop(r)
    /\ books' = Commit(r)
    /\ Keep(r, "sent")
    /\ UNCHANGED <<vars, dustGranted, purse, held, lastAsk, restarts, moves>>

(* The send throws: nothing landed, as far as the treasury knows for sure;  *)
(* the sponsor takes every failure for that.                                *)
SendFails(r) ==
    /\ r.pc = "sending"
    /\ Drop(r)
    /\ books' = Cancel(r)
    /\ UNCHANGED <<vars, dustGranted, purse, held, lastAsk, restarts, moves, kept>>

-----------------------------------------------------------------------------
(* grantRentDust: marked before the first await, released on every path     *)
(* that does not end in a grant.  The fee of the transfer itself, which is  *)
(* not booked, is left out.                                                 *)
BadMarkLate(w)  == dustGranted
Marked(w)       == dustGranted \cup {w}
Released(r)     == dustGranted \ {r.wallet}

AskDust(w) ==
    /\ w \notin dustGranted
    /\ dustGranted' = Marked(w)
    /\ Begin(Ask("dust", "balance", Offer(w, 0, Dust, Dust)))
    /\ UNCHANGED <<vars, books, purse, held, restarts, moves, kept>>

ReadHeld(r) ==
    /\ r.pc = "balance"
    /\ IF held[r.wallet] < Dust /\ Within("dust", r.wallet, Dust)
         THEN /\ Resume(r, [r EXCEPT !.pc = "running", !.at = now])
              /\ books' = Reserve([r EXCEPT !.at = now])
              /\ UNCHANGED dustGranted
         ELSE /\ Drop(r)
              /\ dustGranted' = Released(r)
              /\ UNCHANGED books
    /\ UNCHANGED <<vars, purse, held, lastAsk, restarts, moves, kept>>

(* The transfer is confirmed: it has landed. *)
Granted(r) ==
    /\ r.pc = "running" /\ purse >= Dust
    /\ dustGranted' = dustGranted \cup {r.wallet}
    /\ purse' = purse - Dust
    /\ held' = [held EXCEPT ![r.wallet] = @ + Dust]
    /\ asks' = Moved(asks \ {r}, "down")
    /\ Keep([r EXCEPT !.landed = TRUE], "sent")
    /\ UNCHANGED <<vars, books, lastAsk, restarts, moves>>

(* A read throws, or the transfer: landed, still able to land, or lost. *)
DustFails(r) ==
    /\ r.pc \in {"balance", "running"}
    /\ Drop(r)
    /\ dustGranted' = Released(r)
    /\ books' = Cancel(r)
    /\ IF r.pc = "running" THEN Keep(r, "failed") ELSE UNCHANGED kept
    /\ UNCHANGED <<vars, purse, held, lastAsk, restarts, moves>>

-----------------------------------------------------------------------------
(* The chain: what was sent lands, late or never; a wallet spends what it   *)
(* was granted; rent payments take from the treasury and give back.         *)
Cost(r) == r.takes + r.fee
Land(r) ==
    /\ r.route # "sponsor" /\ ~r.landed /\ purse >= Cost(r)
    /\ kept' = (kept \ {r}) \cup {[r EXCEPT !.landed = TRUE]}
    /\ purse' = purse - Cost(r)
    /\ asks' = Moved(asks, "down")
    /\ held' = IF r.route = "dust" THEN [held EXCEPT ![r.wallet] = @ + Dust] ELSE held
    /\ UNCHANGED <<vars, books, dustGranted, lastAsk, restarts, moves>>

WalletSpends(w) ==
    /\ held[w] > 0
    /\ held' = [held EXCEPT ![w] = 0]
    /\ UNCHANGED <<vars, books, asks, dustGranted, purse, lastAsk, restarts, moves, kept>>

RentMoves(way) ==
    /\ moves < MaxMoves /\ moves' = moves + 1
    /\ IF way = "up" THEN purse < MaxPurse /\ purse' = purse + 1 ELSE purse > 0 /\ purse' = purse - 1
    /\ asks' = Moved(asks, way)
    /\ UNCHANGED <<vars, books, dustGranted, held, lastAsk, restarts, kept>>

(* The process starts again: limiters, marks, plans and requests are gone,  *)
(* what was on its way to the chain is not.                                 *)
Restart ==
    /\ restarts < MaxRestarts /\ restarts' = restarts + 1
    /\ books' = [route \in Route |-> {}] /\ dustGranted' = {} /\ asks' = {}
    /\ kept' = kept \cup {[r EXCEPT !.pc = "failed"] :
                              r \in {q \in asks : q.pc \in {"sending", "running"}}}
    /\ plans' = [w \in Wallet |-> None] /\ seen' = [m \in Message |-> None]
    /\ book' = {} /\ pending' = {} /\ before' = None
    /\ UNCHANGED <<now, requests, cosigned, forgotten, purse, held, lastAsk, moves>>

SponsorStep ==
    \/ \E offer \in SponsorOffers : Sponsor(offer)
    \/ \E offer \in SetupOffers : SetUp(offer)
    \/ \E w \in Wallet : AskDust(w) \/ WalletSpends(w)
    \/ \E r \in asks :
          \/ Simulated(r) \/ SimulationFails(r)
          \/ ReadBefore(r) \/ Simulate(r) \/ ReadAfter(r)
          \/ Send(r) \/ SendFails(r)
          \/ ReadHeld(r) \/ Granted(r) \/ DustFails(r)
    \/ \E r \in kept : Land(r)
    \/ \E way \in {"up", "down"} : RentMoves(way)

SponsorNext == SponsorStep \/ Restart \/ (Next /\ UNCHANGED sponsorVars)
SponsorSpec == SponsorInit /\ [][SponsorNext]_<<vars, sponsorVars>>

-----------------------------------------------------------------------------
(* What counts against the day of a limiter: requests of this process that  *)
(* were not given up, in flight or sent.  A balance that went up and down   *)
(* between the treasury's two reads is the estimate its comment allows for. *)
Counted(route) ==
    {r \in asks \cup kept :
        /\ r.route = route /\ r.life = restarts /\ now - r.at <= Day
        /\ r.pc \in {"sending", "running", "sent"}
        /\ r.moved # {"up", "down"}}
SpentOf(rs) == MapThenSumSet(Cost, rs)

(* The lamports that the day's transactions can take from the two keys are  *)
(* within the caps of their route, for each wallet and in total: whatever   *)
(* instructions a transaction that passed the rules holds, whatever was     *)
(* booked, measured and rewritten meanwhile, and however many were in       *)
(* flight together.                                                         *)
SpendWithinCaps ==
    \A route \in Route :
        /\ SpentOf(Counted(route)) <= Caps[route].global
        /\ \A w \in Wallet :
              SpentOf({r \in Counted(route) : r.wallet = w}) <= Caps[route].wallet

(* "Once per wallet": within one life of the process a wallet has at most   *)
(* one grant, in flight or answered; what it gets beyond that came from     *)
(* transfers that were reported as failed.  And a wallet that has none is   *)
(* not locked out: it is marked only while its grant is in flight or made.  *)
GrantsOf(w) ==
    {r \in asks \cup {k \in kept : k.pc = "sent"} :
        r.route = "dust" /\ r.wallet = w /\ r.life = restarts}
DustOnce ==
    \A w \in Wallet :
        /\ Cardinality(GrantsOf(w)) <= 1
        /\ w \in dustGranted <=> GrantsOf(w) # {}
=============================================================================
