------------------------------ MODULE Registry ------------------------------
(***************************************************************************)
(* The on-chain program around a lease: its Config account, the            *)
(* attestations an issuer writes about wallets, the listings and the       *)
(* applications to them.  One action per instruction.  enforce_kyc is the  *)
(* gate that apply and propose_lease stand behind; Lease sees its answer   *)
(* as the variable cleared.                                                *)
(***************************************************************************)
EXTENDS Integers, FiniteSets

CONSTANTS
    Wallet,             \* landlords, tenants and attested wallets
    Key,                \* keys that may be admin or issuer
    Mint, SafeMints,    \* those validate_mint_allowable accepts
    ListingId,
    MAX_ALLOWED_MINTS,
    Absent,             \* an account that does not exist
    NoKey               \* Pubkey::default()

ASSUME RegistryAssumption ==
    /\ SafeMints \subseteq Mint /\ MAX_ALLOWED_MINTS \in Nat
    /\ NoKey \notin Key

VARIABLES
    now,             \* the Clock sysvar
    config,          \* the Config account
    attestation,     \* wallet -> its Attestation account
    listings,        \* <<landlord, id>> of the Listing accounts
    applications,    \* [landlord, id, tenant] of the Application accounts
    vouches          \* history: <<issuer, wallet>> attested and not revoked since

registryVars == <<now, config, attestation, listings, applications, vouches>>

Config == [admin: Key, mints: SUBSET Mint, issuer: Key \cup {NoKey}, require_kyc: BOOLEAN]
Attestation == [issuer: Key, expires_at: Nat, revoked: BOOLEAN]
Application == [landlord: Wallet, id: ListingId, tenant: Wallet]

(* A wallet without an account is told apart from every attestation. *)
ASSUME AbsentAssumption == Absent \notin Attestation

(* Types, and a gate somebody can pass: it is only on where somebody can    *)
(* attest, in whatever order issuer, gate and admin are set and handed on.  *)
RegistryTypeOK ==
    /\ now \in Nat
    /\ config \in Config \cup {Absent}
    /\ config # Absent /\ config.require_kyc => config.issuer # NoKey
    /\ attestation \in [Wallet -> Attestation \cup {Absent}]
    /\ listings \subseteq Wallet \X ListingId
    /\ applications \subseteq Application
    /\ vouches \subseteq Key \X Wallet

RegistryInit ==
    /\ now = 0 /\ config = Absent /\ attestation = [w \in Wallet |-> Absent]
    /\ listings = {} /\ applications = {} /\ vouches = {}

-----------------------------------------------------------------------------
(* instructions/config.rs *)
InitConfig(k) ==
    /\ config = Absent
    /\ config' = [admin |-> k, mints |-> {}, issuer |-> NoKey, require_kyc |-> FALSE]
    /\ UNCHANGED <<now, attestation, listings, applications, vouches>>

(* The accounts of an instruction that edits the Config: has_one = admin. *)
UpdateConfig(k) == config # Absent /\ config.admin = k
Store(new) == config' = new /\ UNCHANGED <<now, attestation, listings, applications, vouches>>

SetMintAllowed(k, m, allowed) ==
    /\ UpdateConfig(k)
    /\ allowed => m \in SafeMints
    /\ allowed /\ m \notin config.mints => Cardinality(config.mints) < MAX_ALLOWED_MINTS
    /\ Store([config EXCEPT !.mints = IF allowed THEN @ \cup {m} ELSE @ \ {m}])

SetAdmin(k, new) ==
    UpdateConfig(k) /\ new # NoKey /\ Store([config EXCEPT !.admin = new])

SetIssuer(k, new) ==
    UpdateConfig(k) /\ new # NoKey /\ Store([config EXCEPT !.issuer = new])

SetRequireKyc(k, required) ==
    /\ UpdateConfig(k)
    /\ required => config.issuer # NoKey
    /\ Store([config EXCEPT !.require_kyc = required])

-----------------------------------------------------------------------------
(* instructions/attest.rs; level, subject hash and time of writing, which  *)
(* nothing here depends on, are left out.                                   *)
Attest(issuer, w, expires_at) ==
    /\ config # Absent /\ config.issuer = issuer
    /\ expires_at = 0 \/ expires_at > now
    /\ attestation' = [attestation EXCEPT ![w] =
          [issuer |-> issuer, expires_at |-> expires_at, revoked |-> FALSE]]
    /\ vouches' = vouches \cup {<<issuer, w>>}
    /\ UNCHANGED <<now, config, listings, applications>>

Revoke(issuer, w) ==
    /\ config # Absent /\ config.issuer = issuer
    /\ attestation[w] # Absent
    /\ attestation' = [attestation EXCEPT ![w].revoked = TRUE]
    /\ vouches' = {v \in vouches : v[2] # w}
    /\ UNCHANGED <<now, config, listings, applications>>

BadIsValidAnyIssuer(w) ==
    LET a == attestation[w] IN
    a # Absent /\ ~a.revoked /\ (a.expires_at = 0 \/ a.expires_at > now)
is_valid(w) ==
    LET a == attestation[w] IN
    /\ a # Absent
    /\ a.issuer = config.issuer
    /\ ~a.revoked
    /\ a.expires_at = 0 \/ a.expires_at > now

enforce_kyc(w) == config.require_kyc => is_valid(w)

-----------------------------------------------------------------------------
(* Listings and applications. *)
CreateListing(l, id) ==
    /\ <<l, id>> \notin listings
    /\ listings' = listings \cup {<<l, id>>}
    /\ UNCHANGED <<now, config, attestation, applications, vouches>>

(* An application is its own account: it outlives the listing. *)
CloseListing(l, id) ==
    /\ <<l, id>> \in listings
    /\ listings' = listings \ {<<l, id>>}
    /\ UNCHANGED <<now, config, attestation, applications, vouches>>

application(t, l, id) == [landlord |-> l, id |-> id, tenant |-> t]

Apply(t, l, id) ==
    /\ config # Absent
    /\ <<l, id>> \in listings
    /\ application(t, l, id) \notin applications
    /\ t # l
    /\ enforce_kyc(t)
    /\ applications' = applications \cup {application(t, l, id)}
    /\ UNCHANGED <<now, config, attestation, listings, vouches>>

CloseApplication(signer, a) ==
    /\ a \in applications
    /\ signer \in {a.tenant, a.landlord}
    /\ applications' = applications \ {a}
    /\ UNCHANGED <<now, config, attestation, listings, vouches>>

RegistryTick ==
    /\ now' = now + 1
    /\ UNCHANGED <<config, attestation, listings, applications, vouches>>

AdminStep ==
    \E k \in Key :
        \/ InitConfig(k)
        \/ \E m \in Mint, allowed \in BOOLEAN : SetMintAllowed(k, m, allowed)
        \/ \E new \in Key \cup {NoKey} : SetAdmin(k, new) \/ SetIssuer(k, new)
        \/ \E required \in BOOLEAN : SetRequireKyc(k, required)

MarketStep ==
    \E w \in Wallet :
        \/ \E id \in ListingId : CreateListing(w, id) \/ CloseListing(w, id)
        \/ \E l \in Wallet, id \in ListingId : Apply(w, l, id)
        \/ \E a \in Application : CloseApplication(w, a)

-----------------------------------------------------------------------------
(* While the gate is on, nobody applies whom the CURRENT issuer has not     *)
(* vouched for since the wallet was last revoked: not on a record of an     *)
(* issuer that has been rotated out, nor on one that has lapsed.            *)
AppliedOnlyVouched ==
    [][ \A a \in applications' \ applications :
            config.require_kyc =>
                /\ <<config.issuer, a.tenant>> \in vouches
                /\ attestation[a.tenant].expires_at \notin 1 .. now ]_registryVars
=============================================================================
