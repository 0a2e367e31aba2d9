# Relstate: the verification project

Relstate is a rental protocol: a Solana program that holds a tenant's deposit,
records rent and decides disputes, a backend that mints the wrapped dollar
(rUSDC) the tenants pay with, vouches for their identity and pays for their
transactions, and a web application the parties use.  This directory holds TLA+
models of its core, the TLC configurations that check them and the proofs that
TLAPS checks.

Paths below are relative to the repository root (`src/` in `PROJECT.json`).

## 1. Inventory

| Part | State it keeps | Operations | What is hard | Module |
|---|---|---|---|---|
| Lease escrow (`programs/relstate`) | `Lease` account, vault token account, two `Profile` records | `propose_lease`, `fund_deposit`, `pay_rent`, `mark_default`, `release_deposit`, `claim_deposit`, `settle_dispute`, `accept_deduction`, `finalize_deduction`, `abandon_dispute` | eight exits from three statuses, windows that meet at one second, a claim clock that pauses and resumes | `Lease` |
| Mediation (`instructions/mediation.rs`) | `Dispute` account | `escalate_to_mediation`, `propose_appraisers`, `pick_appraiser`, `propose_appraiser_key`, `confirm_appraiser_key`, `submit_verdict`, `expire_mediation` | two parties interleaving picks and keys, a verdict racing an expiry | `Lease` |
| Arithmetic (`state.rs`) | none | `verdict_split`, fee cap, record updates, discount | rounding, clamping, saturation | `Money` |
| Registry (`attest.rs`, `config.rs`, listings, applications) | attestations, `Config`, listings, applications | configure, allow a mint, rotate issuer and admin, attest, revoke, list, apply, close | a clearance of an issuer rotated out, revoked or lapsed | `Registry` |
| Identity (`providers/kyc*.ts`) | records, open sessions, starts of an hour, all in memory | start, webhook | webhooks late, repeated and out of order, each a task that writes to the chain | `Kyc` |
| Treasury (`backend/src/treasury.ts`) | mock reserve, ledger; the mint's supply on chain; limiters, marks | wrap, credit the reserve; set up a confidential account, grant rent, co-sign a rent payment | a check and a mint, or two reads of a balance, with awaits in between | `Onramp`, `Sponsor`, `RentPlan` |
| On-ramp and off-ramp (`providers/onramp.ts`, `offramp.ts`) | intents, credits, in-flight table, daily caps, all in memory | checkout, webhook, payout | duplicated and retried deliveries, a mint whose outcome is unknown, restart | `Onramp` |
| Sponsor (`sponsor.ts`, `txinspect.ts`) | a limiter | co-sign a client's transaction | what a transaction it did not write can take from the key that signs | `Inspect`, `Sponsor` |
| Rent payments (`rentplan.ts`, `rentshape.ts`) | the wallets' live plans, messages seen | check, admit, roll back | a rollback after concurrent changes | `RentPlan`, `Inspect` |
| Limits (`limits.ts`) | bookings per wallet and in total | reserve, commit, cancel | two-phase booking | `RentPlan`, `Sponsor` |
| Wallet sign-in (`wallet-auth.ts`, `auth.ts`, `app/src/auth`, `lib/fiat.ts`) | challenges; sessions in memory and storage | challenge, verify, retry after a refusal, sign out | one-time use, eviction under a flood, a login answered after the sign-out | `SignIn` |
| Invites (`invites.ts`) | invitations, in memory | issue, look up, claim | two issuers at once, expiry, a mediation that moved on | `Invites` |
| Private balance (`app/src/lib/pay.ts`, `lib/holdback.ts`) | a lock, runs in flight; three balances on chain | buy and secure a top-up, set up, pay rent | transactions worked out for an account that has changed since, work abandoned at a deadline that goes on | `Balance` |
| Web application (`app/src`) | the last read of each account | show, offer, submit | a second copy of every guard, a view put together from reads of several ages | `Screens`, `Preview` |
| RPC access, server, boot, keys, uploads, e-mail, scripts, site, spikes | caches, files | | no protocol of their own; see section 5 | |

How they meet: the application sends instructions to the program, signed by the
parties' wallets, most of them co-signed by the backend's fee payer; the backend
writes the attestations that `apply` and `propose_lease` read, mints the rUSDC a
tenant funds a deposit with, and co-signs and pays the transactions of a
confidential rent payment.  The program never calls the backend, and the backend
reads the program's accounts only.

## 2. Modules

| Module | Stands for |
|---|---|
| `Money` | the pure functions of `state.rs`: `verdict_split`, `close_with_deduction`'s split, `record_deposit_outcome`, `deserves_discount` |
| `Preview` | the application's own versions of them, and the arithmetic of a suggested top-up |
| `Lease` | one lease with its vault, its `Dispute` account and the two `Profile` records; one action per instruction |
| `Escrow` | what the program promises of a deposit, with no word on how |
| `Screens` | the application's window on one lease: what it shows, offers, submits and promises |
| `Invites` | the invitations of an appraiser, beside the mediation they belong to |
| `Registry` | configuration, attestations, listings and applications |
| `Kyc` | the identity service between its vendor and the attestations |
| `Onramp` | the fiat on-ramp, the treasury's mock mode it mints through, the off-ramp's cap, and the network and payment provider around them |
| `RentPlan` | the co-signing of rent payments: plan registry, limiter, replay guard, and the three outcomes of a send |
| `Inspect` | the rules a client's transaction must pass before the backend signs it, and what it can then take |
| `Sponsor` | the three other routes that pay: sponsor, set-up, rent grant |
| `SignIn` | the store of challenges, the sessions, and a browser that logs in, calls, signs out and reloads |
| `Balance` | one wallet's private balance as one browser tab works on it |
| `MCLease`, `MCExits`, `MCInvites`, `MCScreens`, `MCMoney`, `MCKyc`, `MCOnramp`, `MCTopups`, `MCRentPlan`, `MCSignIn`, `MCBalance` | instances for TLC, their scenarios and fairness, and the properties that only make sense there |
| `LeaseProofs` | theorems and proofs about `Lease`, and about `Invites` and `Screens` on it |
| `SponsorProofs` | the same for `RentPlan` and `Sponsor` |
| `OnrampProofs`, `KycProofs`, `SignInProofs`, `BalanceProofs`, `MCMoneyProofs` | the same for the module they are named for |
| `MoneyProofs` | the same for `Money`, and what the other proofs need of sums over finite sets and of `Preview` |

`Lease` EXTENDS `Money` and instantiates `Escrow` under a refinement mapping.
`Screens` (with `Preview`) and `Invites` extend `Lease`, so that an
application or an invitation meets every step of the program.  `Kyc` extends
`Registry`; `Sponsor` extends `RentPlan` and `Inspect`.  Where `Lease` needs the
parties' clearance it has the variable `cleared`, which may change at any time:
`Registry` and `Kyc` are what stands behind it.

### Lease

An instruction is atomic on Solana, so each is one action: its guard is the
conjunction of its account constraints and `require!`s, a failing one changes
nothing.  `has_one` on a signer is the party in the action's name; handlers that
check their signer themselves (`expire_mediation`, the selection instructions,
`submit_verdict`) take it as a parameter.

| Variable | Code |
|---|---|
| `now` | `Clock::get()?.unix_timestamp` |
| `cleared` | the parties for whom `enforce_kyc` answers Ok at this moment |
| `terms` | the `Lease` fields `propose_lease` fixes |
| `status`, `start_ts`, `paid_count`, `proposed_deduction`, `disputed_at`, `claim_pause_secs`, `dispute_rounds` | fields of `Lease` |
| `dispute` | the `Dispute` account, `NoDispute` when it does not exist |
| `vault`, `payout`, `rent_received` | token balances |
| `profile` | the two `Profile` accounts |
| `endorsed`, `closedBy`, `activeSecs` | history: who signed for which appraiser key, who signed the payout, seconds in `Active` |

`Vec<Candidate>` is a set: the handler refuses duplicates.  Canonicalising and
hashing a company name is the constant `Canon`, with spellings that are refused.
On a mint with confidential transfers the amount the tenant sends is encrypted,
so `PayRent` takes any amount up to the rent there and exactly the rent on a
public mint.  The counters of `PayRent` are checked additions: an overflow
aborts the instruction (`rent_fits`); those of a payout saturate, so what a record
says of a payout (`RecordsMatchMoney`) is said of one with room for it.  What
`handle_propose_appraisers` asks of a list is `list_allowed`; a list is finite, as
a vector is (`LeaseAssumption`).

`Tick` and `KycChange` are the environment.  `KycChange` is enabled before the
funding only, since no later instruction reads the clearance.

### Onramp

The backend is one Node thread, so a handler runs undisturbed up to its next
`await`: each action of `Onramp` is one such stretch, and a request suspended at
an `await` is a slot of `task`, whose `pc` says which one:

| `pc` | Suspended at |
|---|---|
| `waiting` | `handleWebhook` joined the promise of a delivery in flight |
| `treasury` | `creditEvent`, `await deps.treasury()` |
| `reading` | `assertInvariant`, `Promise.all` of `supply()` and `reserve()`; `supplySeen` and `reserveSeen` hold what has been read |
| `flying`, `landed` | `run()`: the mint is sent, has landed, is not yet confirmed to the sender |
| `after` | the invariant that `wrap` reads once more after the mint |

| Variable | Code |
|---|---|
| `supply`, `orphans` | the mint's supply on chain; transactions whose sender stopped waiting and which may still land |
| `mockReserve`, `seeding` | `mockReserve` and the promise `mockReserveSeeding` of `createTreasury` |
| `inFlight`, `credits` | the maps of `createOnramp` |
| `capLog`, `payoutLog` | the logs of the two `createDailyCap`, as the total of each instant |
| `payment`, `acked`, `dupes` | the provider: what was paid, what was answered 2xx, how often it repeats itself |
| `minted`, `failed` | history: mints that landed, attempts that ended in an error |

Where a request fails, everything it did before stays done: `Throw` frees the
slot and those of its followers, removes the event from `inFlight` and leaves
the reserve credited and a mint on its way.  `Crash` loses the process and
keeps chain and provider.

A log of `createDailyCap` is a list of times and amounts of which the code only
ever drops what has left the window and adds up the rest, so the total of each
instant stands for it.  `MaxPaidOut` bounds what the instance pays out.

The ledger of the mock reserve is read in one piece with the end of its seeding
(the continuation that adds the supply and the ones that return it run in one
burst of microtasks).  An event is genuine and has a positive price: signature
verification and the conversion of money are not modelled.  Live mode, where
the reserve is a token account read on chain and `creditReserve` only logs, is
not modelled.  Nor is `unwrap`: no caller holds an owner's key in production.

### RentPlan

`sponsorRentPayment` validates a transaction (`Inspect!RentAccepts`), then books it,
joins it to the wallet's plan and remembers it in one stretch without an
`await`: `Admit`.  `cosignAndSend` simulates and sends over several awaits, and
ends in `Cosign` (sent, or the outcome is unknown: both keep everything) or
`Fail` (nothing landed: everything is given back).  `Refuse` is the one refusal
that leaves a trace, the sweep inside `admit`.

| Variable | Code |
|---|---|
| `plans` | the map of `createRentPlanRegistry`; `id` stands for the identity of the plan object, which `undo` compares |
| `seen` | `seenMessages` |
| `book` | the entries of `rentLimits`, per wallet and global in one set |
| `pending` | requests between the two ends, with what their `undo` closure captured; `ended` is the plan a request removed |
| `requests`, `cosigned`, `before` | history |

A plan that is not in the map cannot change until its remover puts it back, so a
request that ends a plan keeps a copy of it.  A transaction is what it does to
contexts: created, touched (verified or closed), closed, signed by the wallet or
not, and its cost.  `Inspect!RentMessage` gives that of a transaction written as
instructions; the instance uses those of the real plan and variations of them,
all of which pass the rules.  A restart is an action of `Sponsor`.

### Screens

`Lease` is the chain; beside it one wallet sits in front of the application.

| Variable | Code |
|---|---|
| `me` | the wallet that is signed in: a party or one of `Others` |
| `view` | the lease as `LeaseTab` last read it (`screens.tsx:1086`), or `MyCases` (`Appraise.tsx:335`) |
| `disputeView` | the Dispute account as it was last read (`screens.tsx:1103`, `Appraise.tsx:334`), or `NoView` while nothing has been |
| `behind` | history: the wallet itself acted since the lease was read |

`Offered(t)` is the set of buttons the window shows when its clock says `t`,
`Submit(m)` the instruction one of them sends with the arguments it takes from
what was read, `Promised(m)` what its words say.  `Accepts(m)` lists the reasons
the program has to refuse a move; that it has no other is `NoOtherRefusal`, which
compares the list with the instruction itself (`ENABLED`).

The lease, the Dispute account and the clock come by independent requests
(`screens.tsx:1086` and 1103, `App.tsx:260`), and `useChain` skips a read while
one of its own is running.  So each read is an action of its own, which may
happen at any time or never: `RefreshLease` and `RefreshDispute` of a party, for
whom the second is only made while the lease it shows is in mediation and is
dropped when that lease's status changes (its `deps`); `RefreshCases` and
`RefreshCaseLease` of an appraiser, in the other order.  The clock on the screen
is read by a third request, run on by the browser's own (`useChain.ts:52`), and
simply `Date.now()` on the appraiser's page: a press may take place by any
clock (`ClockValues`).  `Fresh`, which `NoOtherRefusal` and `ButtonsMatchProgram` speak
of, is the state in which both reads are of now, and the clock is asked for now.

### Registry and Kyc

An instruction is an action, as in `Lease`.

| Variable | Code |
|---|---|
| `config`, `attestation`, `listings`, `applications` | the accounts of those names |
| `vouches` | history: what was attested, by whom, until when |
| `applicants`, `reviews` | the vendor: whom it has seen, what it decided |
| `tasks` | runs of `applyEvent`, suspended before the chain is read (`chain`), while a transaction is out (`sent`), before it is recorded (`landed`) |
| `txs` | transactions on the network; `owned` as long as a task waits for them |
| `records`, `lastByWallet`, `openSession`, `startTimes` | the maps of `createKyc`; a booked start is its instant and a number, `booked`, that tells those of one instant apart |
| `starting` | a start that awaits the vendor |
| `keyed` | whether the process was started with its keys |
| `answered`, `lastAnswered`, `disturbed`, `links`, `overfreed` | history |

`Fail` lets go of a task at any of its awaits: what was sent may still land, and
`Lose` is a transaction that never does.  `Restart` forgets all memory, and the
process may come back with or without keys.  The extensions
`validate_mint_allowable` refuses are the constant `SafeMints`.  The mock
verifier and the signature of a webhook are left out: an event is genuine.

### Invites

One lease's invitations.  `issue` awaits the lease, then the dispute: a party's
request in `issuing` waits in between, holding what it has read.

| Variable | Code |
|---|---|
| `byId`, `idByLease` | the maps of `createInvites` |
| `issuing` | a request of each party |
| `accepted` | history: which link answered which wallet with a success |

The chain reads no invitation, and a party may type an account of its own, so
the steps of `Lease` are unconstrained.  The e-mail is left out.

### SignIn

A handler of the backend is one step (none of them awaits), and so is a turn of
the tab's event loop: when a login settles, everybody awaiting it resumes in that
turn, before anything else can.

| Variable | Code |
|---|---|
| `pending` | the map of `createWalletAuth`; nonces are numbered as they are issued, so its insertion order is theirs |
| `tickets` | every challenge issued, with its fate (history but for wallet, expiry and attempts) |
| `epoch` | which `SESSION_SECRET` signs tokens |
| `stored`, `cache`, `inFlight` | `localStorage`, `cache` and `inFlight` of `session.ts` |
| `logins` | calls of `requestSession` |
| `account`, `linking` | the status of `EmbeddedWallet` and the logins it awaits |
| `calls` | calls of `withSession` with their first and second try |

Signatures are not modelled: whoever signs a challenge signs its text for its
wallet.  `Repeat` delivers a request again; `Fail` loses a request or its answer.

### Balance

| Variable | Code |
|---|---|
| `configured`, `public`, `pending`, `available`, `funded`, `strays` | the token account on chain and transactions nobody waits for |
| `applied`, `rents` | how often an application and a payment rewrote `available`: which ciphertext it is |
| `topUps`, `credited` | checkouts, each with its `publicHoldback`, and those the webhook has minted |
| `task` | calls of `pay.ts`, each suspended at one `await`; `hung` if that never returns, `heard` as long as its caller waits, `back` its holdback, `seen` the account its transaction was worked out for |
| `queue` | the chain of promises of `withBalanceLock`, its holder first |
| `inFlight` | `secureInFlight` |
| `shown` | the top-up the page came back from and follows: state of the component, cleared by leaving |
| `card`, `rent`, `need` | what the two cards of `Pay.tsx` show; `topUpNeed` of `App.tsx` |
| `disturbed` | history: work was abandoned, lost or overtaken half done |

A step that sends is `Submit`, `Land` (or a rejection), `Confirmed`; between them
it may throw, hang or lose its tab.  Amounts are numbers, and a proof is what it is
about: `Submit` of an application or a payment reads the account as
`planApplyPending` and `planTransfer` do (`confidential.ts:447` and 485), and
`Lawful` refuses it once that account is another.  A payment is sent outside the
lock (`pay.ts:280`); of its several transactions only the one that moves money is
`Land`, the others are `RentPlan`'s, so it is on its way from the read on.  An
application of nothing leaves the ciphertext usable, which accepts a little more
than the chain may.

Each top-up has a holdback of its own (`holdbackFor`): the shortfall that "Accept
lease" found (`ShortOfDeposit`), the default, or all of a small one.  A call that is
in flight is joined; its key has the holdback in it (`pay.ts:87`), and a page follows
one top-up.  `ShowCard` is the card's first run, in the page that came back from the
checkout; after `Leave` or `Close` nothing shows the card for that credit again, as
the intent is taken from the address once (`TopUp.tsx:104`).  `Retry` is its button.
The landlord's account is left out.  One wallet, one tab, one lease.

### Inspect and Sponsor

`Inspect` has no state.  A transaction is its payer, the accounts that must sign,
those that have signed, and its instructions: program, operation, accounts by
slot, and a number.  Data that matches no known layout is the operation `other`.
Each check of `txinspect.ts`, `rentshape.ts` and `assertConfidentialSetupShape`
is an operator of its name; beside them stands what such instructions do
(`TakenBy`, `Executed`), written from the programs they call, to compare with.
Two checks are left out: the size of a transfer's data and the existence of the
wallet's rUSDC account.

| Variable | Code |
|---|---|
| `books` | the limiters of the three routes |
| `asks` | requests in progress, suspended where `pc` says |
| `dustGranted` | the set of that name |
| `purse`, `held` | balances on chain: the treasury's, and each wallet's own |
| `kept` | history: what was sent, and what its caller was told |

`Simulated`, `Send` and `SendFails` are shared by the routes that co-sign.  To the
treasury a send whose outcome is unknown is a `Send`; to the sponsor every error
is a `SendFails`.  A set-up is assumed to land on the state it was simulated on,
apart from the treasury's balance; the fee of the grant's own transfer, which is
not booked, is left out.  `RentMoves` is what other requests do to the balance.

### Runs

| Run | Question | Bounds |
|---|---|---|
| `life` | every instruction from proposal to close: conservation, bookkeeping, the claim clock, who may take money | deposits of 1 and 2 units (one discounted), one to two periods, two mints and an unlisted one, three tenant histories, five offers that must be refused, deductions 0..3 |
| `mediation` | who may decide a mediation, for how much, by when; which invitation works, and for whom; the truth of the records; the lease implements `Escrow` | deposit 20 (fee cap 2), two outside wallets, four companies, two spellings of one, one spelling refused, eight lists of which five must be refused, deductions around 0, the half and the whole; invitations that live one second, two links, one restart |
| `exits` | with a clock and ONE acting party no deposit stays for ever; a tenant who pays and rejects in time gets everything back | smallest lease that can be late, disputed twice and mediated |
| `money` | the arithmetic, in the program and in the application, over every deposit up to 45 | fees 0..6 cross the cap from both sides, five rates that round differently |
| `screens` | on a fresh view the application offers exactly what the program accepts, which refuses for no hidden reason; on one put together from reads of any age a button does what it says or nothing | one lease of one period, deposit 20, two outside wallets, four lists; the clock of a press before or after every deadline |
| `identity` | attestations follow the vendor's answers, trust ends, starts are limited, only the vouched apply, every review settles | one person and a landlord, two keys, two reviews, one fault or restart, three instants, deliveries and attestations that grow old within them, two starts an hour |
| `topups` | what duplicated, concurrent and retried deliveries can and cannot do to mints, credits, the reserve and the caps | two top-ups with faults, a repeated delivery and a restart; or a crowd of three, or of two and operators; two requests at once; a cap that fits one or two |
| `settles` | every paid event is answered for good | two top-ups, two RPC faults, five attempts before the provider gives up |
| `rentplan` | what plans, limits and the replay guard promise while requests are undone; that no request takes more of a key than was booked; that a wallet is granted its rent once | two wallets, two contexts, nine transactions, five requests, two preparations per plan, one live plan, limits that bind within an hour and within a day; then one route at a time with three requests, caps that fit two, two movements of the balance, a restart for the grants |
| `session` | a challenge is worth one session and survives a flood; an abandoned login leaves nothing; a retry is fresh | one tab, two calls, three logins, four challenges, a store of three with two for a wallet, two attempts, three instants, one restart |
| `balance` | the smallest holdback stays public, no call is doomed by another but for three pairs, nothing stays pending; a top-up whose page stays is private in the end | two top-ups of holdbacks 1 or 2, one rent, two calls that secure, one that sets up, one that pays; one fault, one hang, one closed tab |
| `once` | a promise the code does not keep (section 4) | the smallest instance that shows it |

Windows of one to three seconds are enough for every order of their ends to
occur: each guard compares `now` with one deadline, and no guard measures
anything else.  `MCLease!Horizon` stops the clock at the last instant a guard of
the current status can tell apart; the next instruction moves it on.
`Finished` lets a closed lease stutter, so TLC's deadlock check holds for every
other state.  The runs whose environment has a budget (`topups`, `settles`,
`identity`, `session`, `balance`) do not check deadlock: with every budget spent
nothing is left to happen.

Several runs have an `ACTION_CONSTRAINT` named `Scenario` that keeps apart what
does not meet in the code, or would only multiply:

* `topups`: troubles and crowds are explored one at a time; payouts, which touch
  no other state, alone; the clock moves between requests.
* `mediation`: lists, picks and proposals in full without invitations; invitations
  in full on a mediation with one company on both lists.  An invitation reads the
  agreed name and the bound key only.
* `session`: floods and wrong signatures around one login; logins, calls,
  restarts and sign-outs in full without strangers, who share only the store.
* `balance`: one thing goes wrong at a time (a fault and a hang may follow each
  other, with no rent paid); with two top-ups nothing does, and the second is
  bought with no call in progress, as that is like closing the tab.
* `rentplan`: rent payments and each of the other routes on their own; they share
  the clock and the treasury's balance, which `RentMoves` moves for all of them.
* `identity` has no constraint but guards in `MCKyc` to the same end: several
  starts, or reviews; the market at the last instant, with no task in flight.

Every guard of a screen compares the clock with one deadline, so what a screen offers
at some instant it offers before or after all of them, and two `ClockValues` stand
for any.  `screens` uses a `VIEW` that leaves out the records, the vault and the history of
`Lease`.  Its properties depend on them in two places only: whether a rent fits the
tenant's record, which it always does in this instance (the theorems of section 3
cover the other case), and the vault, which follows from the status
(`VaultConservation`, which `life` checks).

Two requests at once are enough to show each race of `Onramp`: the check and
the mint of one are separated by a whole request of the other, and two reads of
one by a credit of the other.  `OvershootBounded` is stated for any number of
requests.  A day is the current instant alone in `topups`, so that entries expire
between the two instants.  In `balance` three calls can wait on one lock: one
that holds it past its deadline, one let in after it, one behind.

Two constant-level checks of `MCRentPlan` are ASSUMEs, evaluated by its run:
every transaction of the plan passes the rules of its route (`PaymentAccepted`),
and over all drafts of up to three of fourteen instructions, from every state of
two contexts, what `RentAccepts` lets through leaves each context it creates
gone, or closable by the treasury, or the one range context, and `contextUse`
tells the registry of exactly those (`ContextsStayOurs`).

### Fairness

For the lease: the clock runs.  `exits` begins with a choice.  Either one party
is counted on, a tenant or a landlord who eventually uses the exits that party
can take alone (weak fairness of each: pay, accept, claim, expire, or default,
release, finalize, expire), and nothing is assumed of the other party or an
appraiser; or the tenant is `diligent`, who only pays and rejects, for whom the
clock stops while an answer is due, which is what "in time" means, while the
landlord is free.  A party that never acts may lose money, never block the other.

For the on-ramp: the provider delivers an unanswered event again until it gives
up (documented behaviour of the provider, on which `onramp.ts` relies), and
every `await` of the process returns, since the RPC client polls for a bounded
number of times.  Both are weak fairness.  `settles` assumes that faults are
fewer than the attempts the provider makes; restarts and failed seedings are
excluded, since after a restart the provider's remaining attempts still settle
an event, and a failed seeding does not heal at all (section 4).

For identity: one weak fairness condition on the vendor's repetitions, the
process's tasks and the network together, with no order among them; faults are
finite.

For the private balance: each call goes on unless it hangs, in which case it may
hang for good; refusals are thrown; the two deadlines are timers; the card of a
credited top-up starts by itself for as long as the page follows that top-up; and
a tenant who stays and is shown an error tries again.  Nobody is counted on to stay:
`PrivateInTheEnd` ends with the page.

## 3. What is proved

`MoneyProofs` proves for all inputs that the splits conserve the deposit, respect
the cap and are monotone, and that a return rate is a rate; `MCMoneyProofs` lifts
these to `VerdictsSound`, which `money` runs.  `LeaseProofs` proves for every
value of the constants allowed by `LeaseAssumption` and `WidthAssumption`, and
for an unbounded clock, that `Spec` implies:

`TypeOK`, `VaultConservation`, `DisputeBookkeeping`, `ClaimClockRight`,
`MediationBounded`, `AppraiserEndorsedByBoth`, `AgreedFeeIsLowest`,
`NoUnilateralDeduction`, `LapsedMediationRefunds`, `RecordsMatchMoney` and
`ImplementsEscrow`.

`SponsorProofs` proves `TypeOK`, `ContextsOwnedOnce` and `CosignedOncePerWindow`
of `RentPlan` for any wallets, messages and limits and any timing.  The code bounds
neither a call to the chain nor a request by a time, so a request may end long after
the replay window; if it fails then, it deletes the memory of its message although a
second request for it was admitted meanwhile (`treasury.ts:708`), and a third may be
co-signed beside the second.  These later requests are the history variable
`forgotten`, and the one exception of `CosignedOncePerWindow`.  The invariant adds
that a plan is only ended when it is empty (`EndedEmpty`), so bringing one back brings
no context but those the undo checks, and that every request younger than the window
and not forgotten is remembered (`Remembered`), which survives a failure within the
window because no other request of the same message can be that young.

The inductive invariant of the lease is built in layers, each using the one
below:

1. `TypeInv`: types, terms that passed `propose_lease`, stamps not in the future.
2. `BookInv` adds `VaultConservation`, `DisputeBookkeeping` and `Stages`, which
   ties each status to whether the deposit was funded.  Conservation is not
   inductive alone: a second payout is excluded only because the status and the
   vault agree.
3. `ClockInv` adds the parts of `ClaimClockRight` (`ClockAccounted`,
   `PauseBounded`) and the fact that nothing was paused before the funding.
4. `SelectInv` adds, to `BookInv`, the state of the appraiser selection: a
   proposed key is signed by its proposer (`ProposalSigned`), every listed fee
   is under the cap (`FeesCapped`), and the three properties about the binding.

The action properties follow from `SelectInv` and `BookInv` and a case split
over the instructions that pay (`OnlyExitsPay`, `OnlyExitsDraw`).  For the records
it says of each exit which number it writes, and lemmas on `RecordDepositOutcome`
and the splits tie that number to the money: the number of a verdict is not what the
landlord receives once the fee is clamped, but lies between that and the fee more,
and a full return is credited only where the split leaves the tenant everything.
The refinement maps the funding
to `Take`, the eight exits to `PayOut` and the rest to stuttering.

The other invariants are proved by the same method, each for every value of the
constants its module's assumptions allow.

**Sums** (in `MoneyProofs`).  Caps and reserves are sums over sets that change one
element at a time.  The lemmas say that `MapThenSumSet` over a finite set of naturals
is a natural, grows by an element's worth when one is added and is monotone, the last
also along an injection.  The library's induction theorems are of no use (section 3,
end), so a lemma takes a smallest counterexample (`NoLeast`) instead.

**`RentPlan`**.  `CapsHold` and `RollbackExact`.
* *Lamports*: `BudgetInv` says that every request of the day, in flight or paid, is
  backed by an entry of the same wallet and instant with at least its cost
  (`PaidIsBooked`), and the entries are within the caps (`WithinDay`); the costs then
  sum to no more than the entries, as ids make the backing one to one.
* *Preparations*: `PlanInv` says that a plan's counter is at least the requests that
  prepared for it (`PlansCount`), and that the plans of pending removers are dead,
  empty and each captured once (`EndedAway`), so bringing one back revives no count.
* *Rollback*: `RollbackInv` says that the snapshot `before` is the state the only
  pending request was admitted on (`AdmittedOn`), and that no live plan is
  worthless, since the sweep that runs at each admission would remove it.

**`Sponsor`** (which is about `SponsorSpec`: any step of a route, of `RentPlan` or a
restart).  A lemma on `Inspect` (`SponsorTakes`) says that what the accepted
instructions can take is at most what is booked, whatever they are.  `SponsorInv`
adds that a request between its two balance reads either saw no other movement, or
knows which ways the balance moved (`AllMeasured`), so that what it rewrites its
booking to is at least what it cost unless the balance moved up and down; that every
request of this life of the process is on the books (`Accounted`); and that the books are within the caps
(`WithinCaps`).  `DustInv` adds `Marks`: a marked wallet has exactly one grant in
flight or made.

**Arithmetic** (`MCMoneyProofs`).  `AppForesees` and `TopUpFundsDeposit` for every
deposit, rate, fee and record that `WalkAssumption` allows: the second from three
facts about divisions that round in different directions.

**`Kyc`** (about `IdentitySpec`, which has every step of `Registry` beside it).
`KycInv` has six parts: `RegistryInv` (an account's history); `MemoryInv` (the
types of the process's memory and the network); `TrustInv` (each
transaction of the issuer, in flight or landed, rests on an approval of that
wallet and expires in time); `RefsInv` (a reference names one review, and only an
answered one has a record); `RecordInv`
(as long as a wallet is undisturbed, what was recorded last is on the chain, and a
task on its way will leave it so); `StartInv` (a link or a suspended start of the last
hour is booked, or its booking is counted as `overfreed`).

**`Onramp`**.  `OnrampInv` has three parts beside types.
* `SlotInv`: a slot of a finished request holds nothing (`Tidy`), one leader at most
  for each event (`OneLeader`), in flight means led (`InFlightLed`), and a led event
  is not credited (`NotYetCredited`).
* `MintInv`: what was minted of an event, may still be (orphans) or is being minted,
  is at most its failed attempts, the crashes and its one credit or present attempt.
* `ReserveInv`, without operators and restarts: nothing was wrapped before the seeding,
  the supply is the initial supply and what was minted, and the reserve is what was
  seeded and what each attempt credited.  Each mint is one of an attempt that credited the
  reserve first, which is `ReserveSound`.

`OvershootInv` stands on top of it and is inductive with operators and restarts.  The
entries of a wallet's log add up to its credits, now and at any later instant
(`LogInv`).  For the cap, one request under way can be chosen such that what was
credited in the window, its amount and what the other requests carry are within the
limit and `Ahead`, which is what every slot but one can carry (`CapInv`): the last
to pass the check passed it on what had been credited by then.  For the peg, a
wrap that has read the supply fits what it read and `Ahead` together with the wraps
that read no more than it did, or all of those fit the bound already (`Fits` of
`PegInv`, as long as every sender hears of its mint): a wrap that reads more sees
what landed in between.  `PayoutInv` is the cap itself.

**`Invites`** (about `InvitesSpec`, which has every step of `Lease` beside it).
`InvitesInv` is `SelectInv` of the lease and two parts.  `MediatedOnce`: a lease is
mediated once, as the round that opens a mediation is the last.  Therefore what a
request read of the chain, and what a link says, can only be of that mediation, and
an agreement once reached does not change (`SelectionAgrees`); `LinkInv` says so of
both (`StillAgreed`), and that a link remembers whom it was good for (`Remembered`),
which replacing it must not forget.

**`Screens`** (about `ScreenSpec`: any step of `Lease` beside a window whose lease and
Dispute account may each be of any age, and whose clock may say anything).  `ScreenInv`
is `SelectInv`, `MediatedOnce`, `BoundAgreed` (no appraiser is bound but under an agreed
name) and what each of the two reads still says on its own (`ViewInv`):
* `ShowsMediation`: it is of the one mediation a lease can have, whose lists only
  grow, whose agreement stands once made and comes before any binding; so a pick, a
  confirmation or a verdict on an old view costs no more than it showed.
* `ShowsProposal`: as long as the user's own hand did nothing since, the deduction on
  the screen is the one that stands, as the landlord can replace it only after the
  tenant's rejection.

`ButtonKeepsPromise` then goes button by button, and the split shown is the split
made (`SplitForeseen` of `MoneyProofs`).  `OfferedIsAccepted` and `NoMoveHidden`
(together `ButtonsMatchProgram`) compare the application's guards with `Accepts`;
beside `SelectInv` they need that rents are counted up to the term
(`PaidInv`).  `Accepts` is a list kept by hand: that
an accepted instruction had no reason of the list against it is proved
(`AcceptedHadNoReason`), which gives `NoStepIsHidden`: whatever step the program lets
this wallet make was on a fresh screen as a button.  That an instruction with no
reason against it is accepted is `ENABLED`, and left to TLC (`NoOtherRefusal`).

**`SignIn`**.  `SignInInv` has three parts.
* `StoreInv`: a stored challenge is unused, and one that was not crowded has fewer
  older ones of its wallet than the quota (`Unused`).  Both evictions keep the latter,
  as they remove older challenges only from in front of it, or newer ones.  That a whole
  store of later challenges was issued when one is evicted is a count of numbers.
* `LoginsInv`: a session kept in a tab or in storage was brought by a login that is
  over and was not abandoned (`AllBrought`), and nothing abandons a login that is over;
  the login a tab shares is its own, alive and the only one (`Shared`, `OneLogin`).
* `CallsInv`: a call that was refused awaits or sends what a login begun after the
  refused one brought (`Fresh`).

**`Balance`**.  `BalanceInv` speaks, as the property does, of undisturbed histories.
Only the head of the queue works under the lock (`Holds`); so what it read of the
account still stands when its transaction lands (`Reads`), but for what a payment and
`fund_deposit` do outside the lock: `Sees` says of a transaction on its way which part
of what it was worked out for still holds, and of a refused one which of the three
stated pairs it was.  What a call leaves public is the holdback of a credited top-up
(`Keeps`), and money is pending only between a deposit and its application
(`Carried`).  That rent is refused only to a tenant who had less needs a measure over
all three balances: what a payer had when it began is still there, and from step to
step more of it available (`Pays`, `Worth`).  A closed tab, a hang or a deadline breaks
`Holds`, which is where some of the divergences of section 4 come from.

The assumptions are those of the modules: every one is evaluated by a run.
`RentPlan` assumes that a plan may be prepared at least once and that `None` is not a
plan; `Sponsor` that what clients offer are well-formed
transactions (`OffersAssumption`); `Kyc` and `Registry` that `None` and `Absent` are
not records; `Onramp` that there are finitely many events and slots, of the latter
at least one; `SignIn` that the
limits and lifetimes are positive; `Screens` that "not read yet" is no Dispute account;
`Balance` that a call secures, sets up or pays, and one of them only.

Only model-checked:

* `NoOtherRefusal` of `Screens`: it is about `ENABLED`, which the provers do not
  support; the half of it that is a statement about steps is proved;
* liveness, as fairness is out of the prover's reach too;
* the instances in the MC modules, apart from `MCMoney`.

What a recursive definition computes for every input is not provable either: the
library's induction theorems take an operator as a parameter, which no installed
prover can instantiate.

## 4. Findings

* `once`: an attempt that throws after its mint was sent is retried and mints
  again.  Without a fault or a restart this cannot happen (`OneMintPerAttempt`,
  a part of `DeliveriesSound`).

Other divergences between what the code does and what it says of itself were met
that no run of the project shows.  On the chain:

* `pay_rent.rs:108`: the sum of rents on the tenant's record is a checked `u64`
  addition, and on a confidential mint nothing bounds the rent, so a lease may
  be funded whose rent can never be paid to the end; without the landlord the
  deposit then stays, against the comments at `settle_dispute.rs:4` and
  `propose_lease.rs:75`.
* `README.md:117` says anyone may send `expire_mediation`; `mediation_party`
  refuses all but the two parties.
* The comment on the `DepositDisputeRejected` event (`state.rs:639`) promises
  the deposit in full after a rejection; the landlord may propose again and a
  second proposal left unanswered takes a deduction.
* An application outlives its listing when the listing is closed first.

In the treasury, the on-ramp and the routes that pay:

* `treasury.ts:674` says that a message is remembered "for longer than a blockhash lives,
  so a replay can never land anyway"; a request that fails later than that deletes
  the memory of the message, whoever it is of by then (line 708).
  `CosignedOncePerWindow` has it as its exception.
* `treasury.ts:9` keeps supply below the reserve; `wrap` checks that, awaits, then
  mints, so two requests that operators make of one headroom both pass.  Provider
  events cannot do this (`ReserveSound`): each credits the reserve first.  How far
  it goes is `OvershootBounded`.
* `docs/contracts/stripe.md:35` says a credit over the daily cap is recorded as
  rejected; two events in flight together are both credited.  How far that goes
  is `OvershootBounded`, too.
* The promise that seeds the mock reserve is kept when it rejects
  (`treasury.ts:248`), so every later wrap throws until a restart and no retry of
  the provider settles a paid event: `EventSettles` fails with `MaxSeedFaults`
  at 1, where `docs/deploy.md:328` expects RPC errors to heal themselves.
* `docs/contracts/treasury.md:81` says of rollbacks in the plan registry that
  "concurrent requests cannot disturb each other".  Across wallets they cannot
  (`ContextsOwnedOnce`).  Within one they can: if a transaction that ends the plan
  fails after one that created a context of it failed, the plan comes back with a
  context nobody created; and if the wallet has begun a new plan meanwhile, what
  the failed request consumed is not given back.  Both heal when the plan expires.
  A request that fails alone is undone exactly (`RollbackExact`).
* A plan that comes back may make one more than `MAX_LIVE_PLANS`.
* `rentplan.ts:101`: a context created and closed in one transaction "nets out to
  nothing"; not if the close comes first, of a context that existed.
* `sponsor.ts:206`: "Nothing was spent, so the reservation must not count" is also
  applied to a send that threw with an unknown outcome, which `cosignAndSend`
  tells apart (`isKnownNotLanded`).
* `txinspect.ts:327` and `docs/env-checklist.md:57` say the rent of the verdict's
  account is not booked against the caps; `sponsor.ts:114` books it.
* `grantRentDust` is not "once per wallet" after a confirmation that failed for a
  transfer that landed, once the wallet has spent it, or after a restart.  Within
  one life of the process, and counting what was answered, it is (`DustOnce`).

In identity, invitations and sign-in:

* `kyc.ts:113`: a session is `pending` until "a final webhook has landed for it"; any
  webhook about the wallet, also one of an earlier session, ends it (line 334).
* `kyc-sumsub.ts:189`: after a red "they are not verified" until they pass again;
  a delayed GREEN from before the RED attests them once more, for as long as
  `TrustExpires` says.
* `kyc.ts:264`: a failed start gives back every booking of its instant, not its
  own only (`StartsSound` allows for exactly that).
* `inviteTtlSeconds` says an invitation "can never outlive the window"; it does
  once the parties bind another account, or settle.  And one may go out after an
  appraiser was bound, since `issue` commits on what it read before.
* `wallet-auth.ts`: a challenge "outlives a flood of later ones", but not the one
  in its wallet's last slot.
* Calls refused together start a login each, and a challenge evicted by the later
  ones makes one of them fail.
* `session.ts:200`: a login abandoned by a sign-out should leave nothing.
  `AccountMenu.leave` (`App.tsx:558`–570) signs out while `linking`, when there is
  no wallet yet, so `EmbeddedWallet.tsx:158`–161 does not clear the session and
  the login's later answer stores its token.  `SignOut` of the model acts where
  the wallet exists.
* `lib/invites.ts` advises to sign in again after a 401; after a restart with an
  ephemeral secret the stored session looks valid and is used again.
* `useSponsorSession` renews a session that expires, not one the backend has
  forgotten.

In the application:

* `pay.ts:102`–107 says that what reads the account and then acts on it is held
  inside the lock, "which every path goes through".  A rent payment reads the
  account in `planTransfer` and sends outside it (`pay.ts:280`).  Beside a top-up that
  is being secured, an application between the two makes the chain refuse the
  payment; or the payment lands between the plan of an application and the
  application, which is refused, and the money stays pending until the next deposit.
  Without its two clauses for these pairs `NoneDoomed`, a part of `BalanceSound`,
  fails in run `balance`.
* `TopUp.tsx:201` says that of a top-up bought for a lease so much "stays visible so
  the deposit can be paid".  What stays is the shortfall (`holdback.ts:27`), while
  the sweep takes all that is public above it (`pay.ts:193`), what was public before
  included: with 1 left public by an earlier top-up and a deposit of 2, the shortfall is
  1, and 1 is left.  `HoldbackKept` promises the smallest holdback only.
* `Pay.tsx:388` says "Nothing is lost … the app will also try again the next time
  you pay rent".  If a deposit into the pending balance lands and its application
  fails, the retry finds nothing public to move and returns (`pay.ts:194`) before
  it would apply what is pending, reports "Your balance is private.", and rent is
  refused for lack of funds although the pending balance covers it.
* `pay.ts:120`: work abandoned at the deadline is called safe "because every step
  re-reads the account before acting"; both it and its successor may read before
  either acts, and the second deposit then takes the holdback.  The same follows a
  failed poll whose transaction is in flight, and a closed tab.  `BalanceSound`
  therefore speaks of undisturbed histories: each of its four parts fails without
  that premise.
* The maps of `pay.ts` are per tab, though its comments (lines 81 and 104) speak of
  a second one.
* `payRentPrivately` holds nothing back, since "an active lease has its deposit in
  the vault already"; a second lease that is being accepted has not.
* Only what runs under the lock has a deadline: a wallet prompt of a rent payment
  that is never answered leaves the card busy.
* `ActiveLease` offers "Propose deduction" when the rounds are spent; the copy of
  `DisputedLease` says "Rejecting returns the whole deposit to you".
* `screens.tsx:1131` calls `proposeAndSelect` with five of its six parameters.
* `useChain.ts:3` promises a read after each transaction; line 24 skips it while
  one is running.  `ButtonKeepsPromise` is why that does no harm.
* `TopUp.tsx:124` floors what a top-up buys to cents before it compares it with the
  shortfall, so the screen may refuse the very amount its message suggests.
  `TopUpFundsDeposit` speaks of what the backend buys for the suggestion, and of
  the top-ups the screen starts.
* `WalletProposal` in `Mediation.tsx` names the issuer's counterparty as the one
  who confirms an invited account; either party may put it forward.

## 5. Left out

Token balances outside the vault, rent-exempt lamports, events and region codes
are not in `Lease`: no property depends on them.  A transfer into the vault from
outside is not modelled (the program pays out exact amounts and the surplus
stays).  A wallet's record shared by several leases is represented by
`TenantHistories` only.

Not modelled at all: RPC access and its proxy (request filtering and retries of
pure I/O; concurrent runs of one runner share its list of signatures, `rpc.ts:269`,
so a run may report those of another beside its own), routing, configuration,
account decoding, keys, uploads and e-mail; encodings, proofs and keys of confidential transfers; the treasury's
live mode, whose reserve is an account read on chain; the mock verifier and mock
sponsor; the application's listings, navigation, appearance and its generated
IDL; scripts, site and spikes.  None of them has a protocol of its own beyond
what the modules above already give its callers.

## 6. Plan

1. Done: the chain (`Money`, `Escrow`, `Lease`, `Registry`), the backend's
   protocols (`Onramp`, `RentPlan`, `Sponsor`, `Kyc`, `Invites`, `SignIn`), the
   browser's (`Screens`, `Preview`, `Balance`), their runs, and the proofs of
   section 3.
2. Done: proofs of every safety property of the runs but the half of
   `NoOtherRefusal` that needs `ENABLED` (section 3, end).
3. Open: the runner of `rpc.ts` with concurrent plans, the landlord's side of
   `Balance`, and the treasury's live mode.
