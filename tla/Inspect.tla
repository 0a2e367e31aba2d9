------------------------------ MODULE Inspect ------------------------------
(***************************************************************************)
(* What the backend reads off a client's transaction before it pays for it *)
(* (backend/src/txinspect.ts): pure, no chain, no state.  Three routes ask *)
(* three sets of questions: sponsor.ts (the fee payer pays fees only, with *)
(* one exception), treasury.ts (an account is set up) and rentshape.ts     *)
(* (the proof contexts of a rent payment).                                 *)
(*                                                                         *)
(* An instruction names its program, its operation, the accounts in its    *)
(* slots and a number it carries.  Whatever of the bytes decides nothing   *)
(* is left out; data that matches no known layout is the operation "other".*)
(***************************************************************************)
EXTENDS Integers, Sequences, FiniteSets, FiniteSetsExt

CONSTANTS
    LAMPORTS_PER_SIGNATURE, DEFAULT_CU_PER_INSTRUCTION, MAX_CU_PER_TRANSACTION,
    MICRO,                 \* micro-lamports in a lamport (10^6)
    ATA_RENT_LAMPORTS,
    Policy,                \* env.sponsor
    Rules,                 \* env.rentPayment, and the rent of the range context
    TokenAccount           \* associatedTokenAddress: wallet -> its rUSDC account

ASSUME PolicyAssumption ==
    /\ LAMPORTS_PER_SIGNATURE \in Nat /\ DEFAULT_CU_PER_INSTRUCTION \in Nat
    /\ MAX_CU_PER_TRANSACTION \in Nat
    /\ MICRO \in Nat \ {0} /\ ATA_RENT_LAMPORTS \in Nat
    /\ Policy \in [instructions : Nat, units : Nat, price : Nat, fee : Nat, rent : Nat]
    /\ Rules \in [lamports : Nat, space : Nat, creates : Nat,
                  rangeSpace : Nat, rangeLamports : Nat]

Instruction(prog, op, acc, n) == [prog |-> prog, op |-> op, acc |-> acc, n |-> n, space |-> 0]
(* inspectTransaction refuses what is malformed, too large, or hides        *)
(* accounts in a lookup table (~plain); the payer is the first signer.      *)
WellFormed(t) == t.plain /\ Len(t.ixs) \in 1 .. Policy.instructions

Uses(ix, account)  == {slot \in DOMAIN ix.acc : ix.acc[slot] = account}
Having(t, prog, op) == {i \in DOMAIN t.ixs : t.ixs[i].prog = prog /\ t.ixs[i].op = op}

-----------------------------------------------------------------------------
(* readComputeBudget, worstCaseFeeLamports, assertComputeBudgetWithinPolicy *)
Unset == -1
Setting(t, op) ==
    LET at == Having(t, "budget", op) IN IF at = {} THEN Unset ELSE t.ixs[Max(at)].n
unitLimit(t)              == Setting(t, "limit")
unitPriceMicroLamports(t) == Setting(t, "price")

units(t) ==
    IF unitLimit(t) # Unset THEN unitLimit(t)
    ELSE Min({DEFAULT_CU_PER_INSTRUCTION * Len(t.ixs), MAX_CU_PER_TRANSACTION})

worstCaseFeeLamports(t) ==
    LAMPORTS_PER_SIGNATURE * Cardinality(t.signers)
        + (IF unitPriceMicroLamports(t) = Unset THEN 0
           ELSE (units(t) * unitPriceMicroLamports(t) + MICRO - 1) \div MICRO)

ComputeBudgetWithinPolicy(t) ==
    /\ Having(t, "budget", "short") = {}
    /\ unitLimit(t) <= Policy.units
    /\ unitPriceMicroLamports(t) <= Policy.price
    /\ worstCaseFeeLamports(t) <= Policy.fee

-----------------------------------------------------------------------------
(* assertProgramsAllowed, assertOnlySponsorSignatureMissing,                *)
(* assertPresentSignaturesValid, and the session wallet that must sign.     *)
ProgramsAllowed(t, allowlist) ==
    \A i \in DOMAIN t.ixs : t.ixs[i].prog \in allowlist \cup {"budget"}

OnlySignatureMissing(t, key) ==
    /\ t.payer = key
    /\ t.signers \ (t.signed \cup t.junk) = {key}

SignsItself(t, w, key) == w # key /\ w \in t.signers

Cosignable(t, key, allowlist) ==
    /\ WellFormed(t)
    /\ ProgramsAllowed(t, allowlist)
    /\ OnlySignatureMissing(t, key)
    /\ t.junk = {}
    /\ ComputeBudgetWithinPolicy(t)

-----------------------------------------------------------------------------
(* sponsor.ts *)
SPONSOR_ALLOWLIST == {"relstate", "token", "ata", "zk", "system", "memo"}
SPONSORABLE_RELSTATE_INSTRUCTIONS ==
    {"abandon_dispute", "accept_deduction", "apply", "claim_deposit", "close_application",
     "close_listing", "confirm_appraiser_key", "create_listing", "escalate_to_mediation",
     "expire_mediation", "finalize_deduction", "fund_deposit", "mark_default", "pay_rent",
     "pick_appraiser", "propose_appraiser_key", "propose_appraisers", "propose_lease",
     "release_deposit", "settle_dispute", "submit_verdict"}

RelstateInstructionsAllowed(t) ==
    \A i \in DOMAIN t.ixs :
        t.ixs[i].prog = "relstate" => t.ixs[i].op \in SPONSORABLE_RELSTATE_INSTRUCTIONS

ATA_ACCOUNTS == {"payer", "ata", "owner", "mint", "systemProgram", "tokenProgram"}

(* The create of the account that the one verdict after it pays into. *)
CreatesForVerdict(t, i, v, key) ==
    LET ix == t.ixs[i]
        verdict == t.ixs[v].acc
    IN /\ i < v
       /\ ix.prog = "ata" /\ ix.op = "createIdempotent" /\ DOMAIN ix.acc = ATA_ACCOUNTS
       /\ Uses(ix, key) = {"payer"}
       /\ ix.acc.ata = verdict.appraiserAta /\ ix.acc.owner = verdict.appraiser
       /\ ix.acc.mint = verdict.mint /\ ix.acc.tokenProgram = verdict.tokenProgram
       /\ ix.acc.systemProgram = "system"

sponsorFundedAtaInstructions(t, key) ==
    LET verdicts == Having(t, "relstate", "submit_verdict")
        exempt(v) == {i \in DOMAIN t.ixs : CreatesForVerdict(t, i, v, key)}
    IN UNION {exempt(v) : v \in {v \in verdicts :
                 /\ Cardinality(verdicts) = 1
                 /\ t.ixs[v].acc.appraiser \in t.signers
                 /\ Cardinality(exempt(v)) <= 1}}

SponsorNotUsedByInstructions(t, key) ==
    \A i \in DOMAIN t.ixs \ sponsorFundedAtaInstructions(t, key) : Uses(t.ixs[i], key) = {}

SponsorAccepts(t, w, key) ==
    /\ Cosignable(t, key, SPONSOR_ALLOWLIST)
    /\ RelstateInstructionsAllowed(t)
    /\ SponsorNotUsedByInstructions(t, key)
    /\ SignsItself(t, w, key)

bookedLamports(t, key) ==
    worstCaseFeeLamports(t)
        + (IF sponsorFundedAtaInstructions(t, key) = {} THEN 0 ELSE ATA_RENT_LAMPORTS)

-----------------------------------------------------------------------------
(* treasury.ts: the set-up of a confidential account, where the treasury    *)
(* may fund the rent of an account and nothing else.                        *)
CONFIDENTIAL_SETUP_ALLOWLIST == {"ata", "token", "zk"}

SetupInstruction(ix, key) ==
    \/ ix.prog \in {"zk", "budget"}
    \/ ix.prog = "token" /\ ix.op = "reallocate" /\ Uses(ix, key) \in {{}, {"payer"}}
    \/ ix.prog = "token" /\ ix.op = "configureAccount" /\ Uses(ix, key) = {}
    \/ ix.prog = "ata" /\ ix.op \in {"create", "createIdempotent"}
                       /\ Uses(ix, key) \in {{}, {"payer"}}

SetupAccepts(t, w, key) ==
    /\ Cosignable(t, key, CONFIDENTIAL_SETUP_ALLOWLIST)
    /\ \A i \in DOMAIN t.ixs : SetupInstruction(t.ixs[i], key)
    /\ SignsItself(t, w, key)

-----------------------------------------------------------------------------
(* rentshape.ts *)
RENT_PAYMENT_ALLOWLIST == {"system", "token", "zk", "relstate"}

Created(ix)        == ix.acc.account
VerifiedAfter(t, i) ==
    \E j \in i + 1 .. Len(t.ixs) :
        t.ixs[j].prog = "zk" /\ t.ixs[j].op # "close" /\ t.ixs[j].acc.context = Created(t.ixs[i])

(* Only a createAccount of the ZK program, funded by the treasury: with its *)
(* proof in the same transaction, or exactly the range context alone.       *)
CreateAllowed(t, i, key) ==
    LET ix == t.ixs[i] IN
    /\ ix.prog = "system" /\ ix.op = "createAccount" /\ DOMAIN ix.acc = {"funder", "account"}
    /\ ix.acc.funder = key /\ ix.acc.account # key
    /\ ix.n <= Rules.lamports
    /\ ix.space \in 1 .. Rules.space
    /\ \/ VerifiedAfter(t, i)
       \/ ix.space = Rules.rangeSpace /\ ix.n = Rules.rangeLamports

ProofAllowed(ix, key) ==
    /\ ix.prog = "zk" /\ ix.acc.context # key
    /\ \/ /\ ix.op = "close" /\ DOMAIN ix.acc = {"context", "destination", "authority"}
          /\ ix.acc.destination = key /\ ix.acc.authority = key
       \/ /\ ix.op = "verify" /\ DOMAIN ix.acc = {"context", "authority"}
          /\ ix.acc.authority = key

IsTransfer(ix) == ix.prog = "token" /\ ix.op = "confidentialTransfer"
TransferAllowed(t, ix, w, key) ==
    /\ IsTransfer(ix) /\ Uses(ix, key) = {}
    /\ ix.acc.source = TokenAccount[w] /\ ix.acc.mint = "mint"
    /\ ix.acc.authority = w /\ w \in t.signers

PayRentAllowed(t, i, w, key) ==
    LET ix == t.ixs[i] IN
    /\ ix.prog = "relstate" /\ ix.op = "pay_rent" /\ Uses(ix, key) = {}
    /\ ix.acc.tenant = w /\ w \in t.signers
    /\ ix.acc.mint = "mint" /\ ix.acc.tenantToken = TokenAccount[w]
    /\ i > 1 /\ IsTransfer(t.ixs[i - 1])

RentPaymentShape(t, w, key) ==
    /\ \A i \in DOMAIN t.ixs :
          \/ CreateAllowed(t, i, key)
          \/ ProofAllowed(t.ixs[i], key)
          \/ TransferAllowed(t, t.ixs[i], w, key)
          \/ PayRentAllowed(t, i, w, key)
          \/ t.ixs[i].prog = "budget" /\ DOMAIN t.ixs[i].acc = {"none"}
    /\ Cardinality(Having(t, "system", "createAccount")) <= Rules.creates
    /\ Cardinality(Having(t, "token", "confidentialTransfer")) <= 1
    /\ Cardinality(Having(t, "relstate", "pay_rent")) <= 1

RentAccepts(t, w, key) ==
    /\ Cosignable(t, key, RENT_PAYMENT_ALLOWLIST)
    /\ w # key
    /\ RentPaymentShape(t, w, key)

(* contextUse: what the plan registry is told of an accepted transaction. *)
ContextsIn(t, progs, ops) ==
    {t.ixs[i].acc.context : i \in {j \in DOMAIN t.ixs : t.ixs[j].prog \in progs /\ t.ixs[j].op \in ops}}
contextUse(t) ==
    [created |-> {Created(t.ixs[i]) : i \in {j \in DOMAIN t.ixs : t.ixs[j].prog = "system"}},
     touched |-> ContextsIn(t, {"zk"}, {"verify", "close"}),
     closed  |-> ContextsIn(t, {"zk"}, {"close"})]

(* The transaction as RentPlan sees it: its contexts, whether the wallet    *)
(* signs, and what it is booked with once the simulation measured `net`.    *)
RentMessage(t, w, net, blockhash) ==
    [wallet |-> w, created |-> contextUse(t).created, touched |-> contextUse(t).touched,
     closed |-> contextUse(t).closed, signed |-> w \in t.signers, blockhash |-> blockhash,
     cost |-> worstCaseFeeLamports(t) + Max({0, net})]

-----------------------------------------------------------------------------
(***************************************************************************)
(* What executing a transaction does, for the reader of the rules above to *)
(* compare with: the runtime and the programs are outside this repository. *)
(***************************************************************************)
Everything == 1000

(* What one instruction can take from the balance of an account that signs. *)
(* An account is created once: a second create of it is charged nothing.    *)
TakenBy(t, i, key) ==
    LET ix == t.ixs[i]
        again == \E j \in 1 .. i - 1 : t.ixs[j].prog = "ata" /\ t.ixs[j].acc.ata = ix.acc.ata
    IN IF Uses(ix, key) = {} \/ ix.prog \in {"zk", "budget"} THEN 0
       ELSE IF ix.prog = "ata" /\ Uses(ix, key) = {"payer"}
            THEN IF again THEN 0 ELSE ATA_RENT_LAMPORTS
       ELSE IF ix.prog = "token" /\ ix.op = "reallocate" /\ Uses(ix, key) = {"payer"} THEN ix.n
       ELSE IF ix.prog = "system" /\ ix.op = "createAccount" THEN ix.n
       ELSE Everything
Taken(t, key) == MapThenSumSet(LAMBDA i : TakenBy(t, i, key), DOMAIN t.ixs)

(* A proof context is absent, open (created, no proof in it) or under the   *)
(* authority its proof named; a transaction is executed whole or not at all.*)
Absent == "absent"
Open   == "open"
With(s, c, legal, a) == [ok |-> s.ok /\ legal, auth |-> [s.auth EXCEPT ![c] = a]]
Effect(t, ix, s) ==
    IF ix.prog = "system" THEN With(s, Created(ix), s.auth[Created(ix)] = Absent, Open)
    ELSE IF ix.prog # "zk" THEN s
    ELSE LET c == ix.acc.context IN
         IF ix.op = "close"
         THEN With(s, c, s.auth[c] = ix.acc.authority /\ ix.acc.authority \in t.signers, Absent)
         ELSE With(s, c, s.auth[c] = Open, ix.acc.authority)
Executed(t, auth) ==
    LET after[i \in 0 .. Len(t.ixs)] ==
            IF i = 0 THEN [ok |-> TRUE, auth |-> auth] ELSE Effect(t, t.ixs[i], after[i - 1])
    IN after[Len(t.ixs)]
=============================================================================
