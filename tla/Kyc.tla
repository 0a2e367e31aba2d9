-------------------------------- MODULE Kyc --------------------------------
(***************************************************************************)
(* The backend's identity service (backend/src/providers/kyc.ts) between a *)
(* vendor that reviews people and the attestations of Registry.  A review  *)
(* is told to the backend by a webhook that the vendor repeats until it is *)
(* answered, so deliveries come late, twice and out of order; each one     *)
(* runs as a task of its own that awaits the network.  Sessions and        *)
(* records are memory and do not survive a restart; a transaction that was *)
(* sent does.  The vendor is Sumsub; the mock verifier is left out.        *)
(***************************************************************************)
EXTENDS Registry

CONSTANTS
    Person,            \* wallets that ask for a verification
    IssuerKey,         \* ATTESTATION_ISSUER_KEYPAIR
    Corr,              \* correlation ids of the vendor
    MAX_AGE,           \* how old a delivery may be
    VALIDITY,          \* lifetime of an attestation, 0 for ever
    HOUR, MaxStarts,   \* verifications a wallet may start within an HOUR
    Tab,               \* browser tabs, for starts that run at once
    MaxFaults,         \* bound: failed calls, lost transactions and restarts
    None

ASSUME KycAssumption ==
    /\ Person \subseteq Wallet /\ IssuerKey \in Key
    /\ MAX_AGE \in Nat /\ VALIDITY \in Nat /\ HOUR \in Nat /\ MaxStarts \in Nat
    /\ MaxFaults \in Nat

VARIABLES
    applicants,     \* wallets the vendor has seen
    reviews,        \* the vendor's decisions
    keyed,          \* the process was started with its issuer and fee payer keys
    faults,         \* how many of MaxFaults have happened
    tasks,          \* applyEvent runs: [review, at, pc]
    txs,            \* transactions on their way: [review, expires, owned]
    records,        \* records: event ref -> wallet and status
    lastByWallet,   \* wallet -> ref of its latest record, None
    openSession,    \* wallets whose latest verification link is still open
    startTimes,     \* wallet -> the starts booked
    starting,       \* tab -> the start that awaits the vendor, or None
    (* History variables. *)
    answered,       \* reviews the vendor has had a 200 for
    lastAnswered,   \* wallet -> the latest of them, None once another is handled
    disturbed,      \* wallets written to by something that was not alone
    booked,         \* starts booked so far, to tell those of one instant apart
    links,          \* wallet -> bookings of the links it was given
    overfreed       \* wallet -> bookings given back that were not the failed one's

kycVars == <<applicants, reviews, keyed, faults, tasks, txs, records, lastByWallet, openSession, startTimes,
             starting, answered, lastAnswered, disturbed, booked, links, overfreed>>
netVars    == <<applicants, reviews, keyed, faults>>
answerVars == <<records, lastByWallet, openSession, answered, lastAnswered>>
startVars  == <<startTimes, starting, booked, links, overfreed>>

Review == [corr: Corr, wallet: Wallet, answer: {"GREEN", "RED"}, created: Nat]
Record == [wallet: Wallet, answer: {"GREEN", "RED"},
           status: {"attested", "revoked", "nothing-to-revoke", "not-written"}]

(* eventRef *)
BadEventRef(e) == <<e.corr>>
eventRef(e) == <<e.corr, e.answer>>
Ref == Corr \X {"GREEN", "RED"}

inFlight(e) == \E t \in tasks : eventRef(t.review) = eventRef(e)
BadFreshAlways(e) == now >= e.created
fresh(e)    == now - e.created <= MAX_AGE
expiryFrom(at) == IF VALIDITY = 0 THEN 0 ELSE at + VALIDITY

KycTypeOK ==
    /\ RegistryTypeOK
    /\ applicants \subseteq Person /\ reviews \subseteq Review
    /\ keyed \in BOOLEAN /\ faults \in 0 .. MaxFaults
    /\ tasks \subseteq [review: Review, at: Nat, pc: {"chain", "sent", "landed"}]
    /\ txs \subseteq [review: Review, expires: Nat, owned: BOOLEAN]
    /\ DOMAIN records \subseteq Ref /\ \A r \in DOMAIN records : records[r] \in Record
    /\ \A w \in Wallet : lastByWallet[w] # None => lastByWallet[w] \in DOMAIN records
    /\ openSession \subseteq Wallet
    /\ \A b \in Tab : starting[b] # None => starting[b].slot.at <= now
    /\ answered \subseteq reviews /\ disturbed \subseteq Wallet
    /\ \A w \in Wallet : lastAnswered[w] # None => lastAnswered[w] \in answered

KycInit ==
    /\ applicants = {} /\ reviews = {} /\ keyed \in BOOLEAN /\ faults = 0 /\ tasks = {} /\ txs = {} /\ records = << >>
    /\ lastByWallet = [w \in Wallet |-> None] /\ openSession = {}
    /\ startTimes = [w \in Wallet |-> {}] /\ starting = [b \in Tab |-> None]
    /\ answered = {} /\ lastAnswered = [w \in Wallet |-> None] /\ disturbed = {}
    /\ booked = 0 /\ links = [w \in Wallet |-> {}] /\ overfreed = [w \in Wallet |-> 0]

-----------------------------------------------------------------------------
(* start: POST /api/kyc/start, in two halves around the call to the vendor. *)
Booking   == [at |-> now, n |-> booked + 1]
recent(w) == {s \in startTimes[w] : now - s.at < HOUR}

StartBook(b, w) ==
    /\ starting[b] = None
    /\ Cardinality(recent(w)) < MaxStarts
    /\ startTimes' = [startTimes EXCEPT ![w] = recent(w) \cup {Booking}]
    /\ booked' = booked + 1
    /\ starting' = [starting EXCEPT ![b] = [wallet |-> w, slot |-> Booking]]
    /\ UNCHANGED <<registryVars, netVars, tasks, txs, answerVars, disturbed, links, overfreed>>

StartOk(b) ==
    LET w == starting[b].wallet IN
    /\ starting[b] # None
    /\ openSession' = openSession \cup {w}
    /\ applicants' = applicants \cup {w}
    /\ links' = [links EXCEPT ![w] = @ \cup {starting[b].slot}]
    /\ starting' = [starting EXCEPT ![b] = None]
    /\ UNCHANGED <<registryVars, reviews, keyed, faults, tasks, txs, records, lastByWallet, answered,
                   lastAnswered, disturbed, startTimes, booked, overfreed>>

Fault == faults < MaxFaults /\ faults' = faults + 1

(* The vendor fails: the booking is given back, found by its time.          *)
BadReleased(w, slot) == {}
released(w, slot) == {s \in startTimes[w] : s.at # slot.at}
StartFails(b) ==
    LET w == starting[b].wallet
        slot == starting[b].slot
        freed == Cardinality(startTimes[w] \ released(w, slot))
    IN
    /\ starting[b] # None
    /\ Fault
    /\ startTimes' = [startTimes EXCEPT ![w] = released(w, slot)]
    /\ overfreed' = [overfreed EXCEPT ![w] = IF freed > 1 THEN @ + freed - 1 ELSE @]
    /\ starting' = [starting EXCEPT ![b] = None]
    /\ UNCHANGED <<registryVars, applicants, reviews, keyed, tasks, txs, answerVars, disturbed, booked, links>>

-----------------------------------------------------------------------------
(* The vendor decides about somebody who has followed a link.               *)
Decide(e) ==
    /\ e.wallet \in applicants
    /\ e.created = now
    /\ ~\E d \in reviews : d.corr = e.corr /\ (d.answer = e.answer \/ d.wallet # e.wallet)
    /\ reviews' = reviews \cup {e}
    /\ UNCHANGED <<registryVars, applicants, keyed, faults, tasks, txs, answerVars, startVars, disturbed>>

quiet(w) ==
    /\ \A t \in tasks : t.review.wallet # w
    /\ \A x \in txs : x.review.wallet # w

(* handleWebhook of a delivery: refused when old, answered from the record  *)
(* or from the task that runs already, and a task of its own otherwise.     *)
answer200(e) == answered' = answered \cup {e}

Replay(e) ==
    /\ e \in reviews /\ fresh(e)
    /\ eventRef(e) \in DOMAIN records
    /\ answer200(e)
    /\ lastAnswered' = IF e \in answered THEN lastAnswered
                       ELSE [lastAnswered EXCEPT ![e.wallet] = e]
    /\ UNCHANGED <<registryVars, netVars, tasks, txs, records, lastByWallet, openSession,
                   startVars, disturbed>>

Deliver(e) ==
    /\ e \in reviews /\ fresh(e)
    /\ eventRef(e) \notin DOMAIN records /\ ~inFlight(e)
    /\ tasks' = tasks \cup {[review |-> e, at |-> now, pc |-> "chain"]}
    /\ disturbed' = IF quiet(e.wallet) THEN disturbed \ {e.wallet}
                                      ELSE disturbed \cup {e.wallet}
    /\ lastAnswered' = [lastAnswered EXCEPT ![e.wallet] = None]
    /\ UNCHANGED <<registryVars, netVars, txs, records, lastByWallet, openSession,
                   answered, startVars>>

(* keep *)
keep(t, status) ==
    LET e == t.review IN
    /\ records' = [ref \in DOMAIN records \cup {eventRef(e)} |->
          IF ref = eventRef(e) THEN [wallet |-> e.wallet, answer |-> e.answer, status |-> status]
                               ELSE records[ref]]
    /\ lastByWallet' = [lastByWallet EXCEPT ![e.wallet] = eventRef(e)]
    /\ openSession' = openSession \ {e.wallet}
    /\ answer200(e)
    /\ lastAnswered' = [lastAnswered EXCEPT ![e.wallet] = e]
    /\ tasks' = tasks \ {t}

(* applyEvent.  Without keys nothing can be written, and no retry would help. *)
NotWritten(t) ==
    /\ t.pc = "chain" /\ ~keyed
    /\ keep(t, "not-written")
    /\ disturbed' = disturbed \cup {t.review.wallet}
    /\ UNCHANGED <<registryVars, netVars, txs, startVars>>

(* A refusal: there may be nothing to revoke.                   *)
BadNothingToRevoke(t) ==
    /\ t.pc = "chain" /\ keyed /\ t.review.answer = "RED"
    /\ attestation[t.review.wallet] = Absent
    /\ tasks' = tasks \ {t}
    /\ UNCHANGED <<registryVars, netVars, txs, answerVars, startVars, disturbed>>
NothingToRevoke(t) ==
    /\ t.pc = "chain" /\ keyed /\ t.review.answer = "RED"
    /\ attestation[t.review.wallet] = Absent
    /\ keep(t, "nothing-to-revoke")
    /\ UNCHANGED <<registryVars, netVars, txs, startVars, disturbed>>

(* Both writes: the transaction is signed and leaves for the network.       *)
transaction(t) == [review |-> t.review, expires |-> expiryFrom(t.at), owned |-> TRUE]
SendTransaction(t) ==
    /\ t.pc = "chain" /\ keyed
    /\ t.review.answer = "RED" => attestation[t.review.wallet] # Absent
    /\ txs' = txs \cup {transaction(t)}
    /\ tasks' = (tasks \ {t}) \cup {[t EXCEPT !.pc = "sent"]}
    /\ UNCHANGED <<registryVars, netVars, answerVars, startVars, disturbed>>

taskOf(x) == {t \in tasks : t.review = x.review /\ t.pc = "sent"}

(* It lands, whether or not anybody still waits for it.                     *)
Execute(x) == IF x.review.answer = "GREEN"
              THEN Attest(IssuerKey, x.review.wallet, x.expires)
              ELSE Revoke(IssuerKey, x.review.wallet)
Land(x) ==
    /\ x \in txs
    /\ Execute(x)
    /\ txs' = txs \ {x}
    /\ tasks' = IF x.owned
                THEN (tasks \ taskOf(x)) \cup {[t EXCEPT !.pc = "landed"] : t \in taskOf(x)}
                ELSE tasks
    /\ disturbed' = IF x.owned THEN disturbed ELSE disturbed \cup {x.review.wallet}
    /\ UNCHANGED <<netVars, answerVars, startVars>>

(* The program refuses it. *)
Accepted(x) ==
    /\ config # Absent /\ config.issuer = IssuerKey
    /\ IF x.review.answer = "GREEN" THEN x.expires = 0 \/ x.expires > now
                                    ELSE attestation[x.review.wallet] # Absent
Refuse(x) ==
    /\ x \in txs /\ ~Accepted(x)
    /\ txs' = txs \ {x}
    /\ tasks' = IF x.owned THEN tasks \ taskOf(x) ELSE tasks
    /\ UNCHANGED <<registryVars, netVars, answerVars, startVars, disturbed>>

(* The network loses it, and its blockhash expires. *)
Lose(x) ==
    /\ x \in txs /\ Fault
    /\ txs' = txs \ {x}
    /\ tasks' = IF x.owned THEN tasks \ taskOf(x) ELSE tasks
    /\ UNCHANGED <<registryVars, applicants, reviews, keyed, answerVars, startVars, disturbed>>

Confirmed(t) ==
    /\ t.pc = "landed"
    /\ keep(t, IF t.review.answer = "GREEN" THEN "attested" ELSE "revoked")
    /\ UNCHANGED <<registryVars, netVars, txs, startVars, disturbed>>

(* A call to the network fails or the confirmation times out: nothing is    *)
(* recorded, so that the vendor's retry tries again; what was sent may      *)
(* still land.                                                              *)
Fail(t) ==
    /\ t \in tasks /\ Fault
    /\ tasks' = tasks \ {t}
    /\ txs' = {IF x.review = t.review THEN [x EXCEPT !.owned = FALSE] ELSE x : x \in txs}
    /\ disturbed' = IF t.pc = "chain" THEN disturbed
                                       ELSE disturbed \cup {t.review.wallet}
    /\ UNCHANGED <<registryVars, applicants, reviews, keyed, answerVars, startVars>>

(* The process restarts: all memory is gone, the network is not.            *)
Restart ==
    /\ Fault /\ keyed' \in BOOLEAN
    /\ tasks' = {} /\ txs' = {[x EXCEPT !.owned = FALSE] : x \in txs}
    /\ records' = << >> /\ openSession' = {}
    /\ lastByWallet' = [w \in Wallet |-> None]
    /\ startTimes' = [w \in Wallet |-> {}] /\ starting' = [b \in Tab |-> None]
    /\ lastAnswered' = [w \in Wallet |-> None]
    /\ booked' = 0 /\ links' = [w \in Wallet |-> {}] /\ overfreed' = [w \in Wallet |-> 0]
    /\ UNCHANGED <<registryVars, applicants, reviews, answered, disturbed>>

(* The chain goes on without the backend: administration, another issuer,   *)
(* the market.                                                              *)
OtherIssuer ==
    /\ \E k \in Key \ {IssuerKey}, w \in Person :
          /\ Attest(k, w, expiryFrom(now)) \/ Revoke(k, w)
          /\ disturbed' = disturbed \cup {w}
    /\ UNCHANGED <<netVars, tasks, txs, answerVars, startVars>>

ChainStep == (AdminStep \/ MarketStep \/ RegistryTick) /\ UNCHANGED kycVars

StartStep ==
    \E b \in Tab : (\E w \in Person : StartBook(b, w)) \/ StartOk(b) \/ StartFails(b)

ReviewStep == \E c \in Corr, w \in Person, a \in {"GREEN", "RED"} :
    Decide([corr |-> c, wallet |-> w, answer |-> a, created |-> now])

Retry == \E e \in reviews : Deliver(e) \/ Replay(e)
TaskStep(t) == NotWritten(t) \/ NothingToRevoke(t) \/ SendTransaction(t) \/ Confirmed(t)
NetworkStep == \E x \in txs : Land(x) \/ Refuse(x)

KycNext ==
    \/ ChainStep \/ OtherIssuer \/ StartStep \/ ReviewStep
    \/ Retry \/ (\E t \in tasks : TaskStep(t)) \/ NetworkStep
    \/ (\E t \in tasks : Fail(t)) \/ (\E x \in txs : Lose(x)) \/ Restart

identityVars == <<registryVars, kycVars>>
IdentityInit == RegistryInit /\ KycInit
IdentitySpec == IdentityInit /\ [][KycNext]_identityVars

-----------------------------------------------------------------------------
(* What was answered last about a wallet is what the chain says of it, as   *)
(* long as nothing else was writing to it at the time: a refusal is never   *)
(* swallowed as the repetition of an approval, and an approval never        *)
(* recorded without its attestation.                                        *)
RecordMatchesChain ==
    \A w \in Person : quiet(w) /\ w \notin disturbed /\ lastAnswered[w] # None =>
        LET a == attestation[w] IN
        IF lastAnswered[w].answer = "GREEN"
        THEN a # Absent /\ a.issuer = IssuerKey /\ ~a.revoked
        ELSE a = Absent \/ a.revoked

(* However late, often or out of order an approval is delivered, the        *)
(* attestation it leads to rests on a review of that wallet and ends within *)
(* MAX_AGE + VALIDITY of it: an old approval buys no time.                  *)
TrustExpires ==
    \A w \in Wallet :
        LET a == attestation[w] IN
        a # Absent /\ a.issuer = IssuerKey =>
            \E e \in reviews : /\ e.wallet = w /\ e.answer = "GREEN"
                               /\ VALIDITY # 0 =>
                                    a.expires_at \in 1 .. e.created + MAX_AGE + VALIDITY

(* At most MaxStarts links an hour for a wallet, also when tabs start at    *)
(* once and some fail; only a failure that shares its instant with another  *)
(* start can let through as many more.                                      *)
StartsBounded ==
    \A w \in Person :
        Cardinality({l \in links[w] : now - l.at < HOUR}) <= MaxStarts + overfreed[w]

(* And what the memory of the process says of starts, wallets and records   *)
(* stays consistent while they end in any order.                            *)
StartsSound == KycTypeOK /\ StartsBounded

(* The vendor's retries come to an end: every review is answered, unless it *)
(* grows too old first or the backend's key is not the issuer any more.     *)
ReviewSettles ==
    []<>(\A e \in reviews : \/ e \in answered \/ ~fresh(e)
                             \/ config = Absent \/ config.issuer # IssuerKey)
=============================================================================
