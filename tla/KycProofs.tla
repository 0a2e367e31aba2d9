----------------------------- MODULE KycProofs -----------------------------
(***************************************************************************)
(* Proofs about Kyc and the Registry it writes to, for any number of       *)
(* wallets, keys, reviews, deliveries, tabs and failures: who may apply,   *)
(* how long an approval lasts, what an answered webhook says of the chain  *)
(* and how many verifications a wallet starts.                             *)
(***************************************************************************)
EXTENDS Kyc, FiniteSetTheorems, TLAPS

-----------------------------------------------------------------------------
(* The invariants. *)

(* Whoever's attestation stands was vouched for by its issuer.              *)
Vouched ==
    \A w \in Wallet : attestation[w] # Absent /\ ~attestation[w].revoked =>
                          <<attestation[w].issuer, w>> \in vouches
RegistryInv == RegistryTypeOK /\ Vouched

(* The memory of the process and the network, with reviews that exist.      *)
Task  == [review: reviews, at: Nat, pc: {"chain", "sent", "landed"}]
Tx    == [review: reviews, expires: Nat, owned: BOOLEAN]
VendorType == applicants \subseteq Person /\ reviews \subseteq Review /\ keyed \in BOOLEAN
              /\ faults \in 0 .. MaxFaults
NetType    == tasks \subseteq Task /\ txs \subseteq Tx /\ disturbed \subseteq Wallet
RecordType ==
    /\ DOMAIN records \subseteq Ref /\ \A r \in DOMAIN records : records[r] \in Record
    /\ lastByWallet \in [Wallet -> DOMAIN records \cup {None}]
    /\ openSession \subseteq Wallet
AnswerType ==
    /\ answered \subseteq reviews
    /\ lastAnswered \in [Wallet -> answered \cup {None}]
MemoryInv == VendorType /\ NetType /\ RecordType /\ AnswerType

(* What a delivery was worth when it came in is what its task and its       *)
(* transaction write.                                                       *)
Timely(e, expires) ==
    VALIDITY # 0 => expires \in 1 .. e.created + MAX_AGE + VALIDITY
TrustInv ==
    /\ \A t \in tasks : t.at <= t.review.created + MAX_AGE
    /\ \A x \in txs : Timely(x.review, x.expires)
    /\ TrustExpires

(* A reference stands for one review, and only an answered one has a record. *)
RefsInv ==
    /\ \A d, e \in reviews : eventRef(d) = eventRef(e) => d = e
    /\ \A r \in DOMAIN records : \E e \in answered : eventRef(e) = r

(* The chain says of w what the review e says.                              *)
Matches(w, e) ==
    LET a == attestation[w] IN
    IF e.answer = "GREEN"
    THEN a # Absent /\ a.issuer = IssuerKey /\ ~a.revoked
    ELSE a = Absent \/ a.revoked

(* A wallet nothing else writes to: one task at most, whose transactions    *)
(* are the only ones, and an answer only when neither is left.              *)
OnlyTask(w)  == \A t, u \in tasks : t.review.wallet = w /\ u.review.wallet = w => t = u
TaskAlone(w) ==
    \A t \in tasks : t.review.wallet = w =>
        /\ lastAnswered[w] = None
        /\ t.pc = "sent" => \A x \in txs : x.review.wallet = w =>
                               /\ x.owned /\ x.review = t.review
                               /\ \A y \in txs : y.review.wallet = w => x = y
        /\ t.pc # "sent" => \A x \in txs : x.review.wallet # w
        /\ t.pc = "landed" => Matches(w, t.review)
AnswerStands(w) ==
    lastAnswered[w] # None => quiet(w) /\ Matches(w, lastAnswered[w])
Undisturbed(w) == OnlyTask(w) /\ TaskAlone(w) /\ AnswerStands(w)
RecordInv == \A w \in Wallet \ disturbed : Undisturbed(w)

(* Bookings are told apart by their number, and one that is held by a link  *)
(* or by a start under way is still in startTimes unless it was given back  *)
(* in place of another (Lost), which overfreed counts.                      *)
Slot == [at: Nat, n: Nat]
StartType ==
    /\ booked \in Nat
    /\ startTimes \in [Wallet -> SUBSET Slot]
    /\ links \in [Wallet -> SUBSET Slot]
    /\ overfreed \in [Wallet -> Nat]
    /\ starting \in [Tab -> [wallet: Person, slot: Slot] \cup {None}]
    /\ \A b \in Tab : starting[b] # None => starting[b].slot.at <= now
Numbered ==
    /\ \A w \in Wallet : \A u \in links[w] : u.n <= booked
    /\ \A b \in Tab : starting[b] # None =>
          /\ starting[b].slot.n <= booked
          /\ \A w \in Wallet : starting[b].slot \notin links[w]
          /\ \A c \in Tab : starting[c] # None /\ starting[c].slot = starting[b].slot => c = b
HeldBy(w, u) == \/ u \in links[w]
                \/ \E b \in Tab : starting[b] # None /\ starting[b].wallet = w /\ starting[b].slot = u
Lost(w) == {u \in Slot : HeldBy(w, u) /\ u \notin startTimes[w] /\ now - u.at < HOUR}
WithinHour ==
    \A w \in Wallet :
        /\ IsFiniteSet(startTimes[w])
        /\ Cardinality(recent(w)) <= MaxStarts
        /\ IsFiniteSet(Lost(w)) /\ Cardinality(Lost(w)) <= overfreed[w]
StartInv == StartType /\ Numbered /\ WithinHour

-----------------------------------------------------------------------------
(* The Registry under the backend. *)

(* What any step of the system does to the accounts of the program.         *)
RegistryStep ==
    \/ AdminStep \/ MarketStep \/ RegistryTick
    \/ \E k \in Key, w \in Wallet, expires \in Nat : Attest(k, w, expires)
    \/ \E k \in Key, w \in Wallet : Revoke(k, w)

LEMMA RegistryStart == RegistryInit => RegistryInv
  BY RegistryAssumption DEF RegistryInit, RegistryInv, RegistryTypeOK, Vouched

LEMMA AdminKeeps == ASSUME RegistryInv, AdminStep PROVE RegistryInv'
<1>1. /\ config' \in Config /\ (config'.require_kyc => config'.issuer # NoKey)
      /\ UNCHANGED <<now, attestation, listings, applications, vouches>>
  <2> SUFFICES ASSUME NEW k \in Key,
                      \/ InitConfig(k)
                      \/ \E m \in Mint, allowed \in BOOLEAN : SetMintAllowed(k, m, allowed)
                      \/ \E new \in Key \cup {NoKey} : SetAdmin(k, new) \/ SetIssuer(k, new)
                      \/ \E required \in BOOLEAN : SetRequireKyc(k, required)
               PROVE  /\ config' \in Config /\ (config'.require_kyc => config'.issuer # NoKey)
                      /\ UNCHANGED <<now, attestation, listings, applications, vouches>>
    BY DEF AdminStep
  <2>1. CASE InitConfig(k)
    BY <2>1 DEF InitConfig, Config
  <2>0. config # Absent => config \in Config /\ (config.require_kyc => config.issuer # NoKey)
    BY DEF RegistryInv, RegistryTypeOK
  <2>2. ASSUME NEW m \in Mint, NEW allowed \in BOOLEAN, SetMintAllowed(k, m, allowed)
        PROVE  /\ config' \in Config /\ (config'.require_kyc => config'.issuer # NoKey)
               /\ UNCHANGED <<now, attestation, listings, applications, vouches>>
    BY <2>2, <2>0, RegistryAssumption DEF SetMintAllowed, UpdateConfig, Store, Config
  <2>3. ASSUME NEW new \in Key \cup {NoKey}, SetAdmin(k, new) \/ SetIssuer(k, new)
        PROVE  /\ config' \in Config /\ (config'.require_kyc => config'.issuer # NoKey)
               /\ UNCHANGED <<now, attestation, listings, applications, vouches>>
    BY <2>3, <2>0 DEF SetAdmin, SetIssuer, UpdateConfig, Store, Config
  <2>4. ASSUME NEW required \in BOOLEAN, SetRequireKyc(k, required)
        PROVE  /\ config' \in Config /\ (config'.require_kyc => config'.issuer # NoKey)
               /\ UNCHANGED <<now, attestation, listings, applications, vouches>>
    BY <2>4, <2>0 DEF SetRequireKyc, UpdateConfig, Store, Config
  <2> QED BY <2>1, <2>2, <2>3, <2>4
<1> QED BY <1>1 DEF RegistryInv, RegistryTypeOK, Vouched

LEMMA MarketKeeps == ASSUME RegistryInv, MarketStep PROVE RegistryInv'
<1>0. listings \subseteq Wallet \X ListingId /\ applications \subseteq Application
  BY DEF RegistryInv, RegistryTypeOK
<1>1. /\ UNCHANGED <<now, config, attestation, vouches>>
      /\ listings' \subseteq Wallet \X ListingId /\ applications' \subseteq Application
  <2> PICK w \in Wallet :
          \/ \E id \in ListingId : CreateListing(w, id) \/ CloseListing(w, id)
          \/ \E l \in Wallet, id \in ListingId : Apply(w, l, id)
          \/ \E a \in Application : CloseApplication(w, a)
    BY DEF MarketStep
  <2>1. ASSUME NEW id \in ListingId, CreateListing(w, id) \/ CloseListing(w, id)
        PROVE  <1>1!:
    BY <2>1, <1>0 DEF CreateListing, CloseListing
  <2>2. ASSUME NEW l \in Wallet, NEW id \in ListingId, Apply(w, l, id)
        PROVE  <1>1!:
    <3>1. application(w, l, id) \in Application
      BY DEF application, Application
    <3> QED BY <2>2, <3>1, <1>0 DEF Apply
  <2>3. ASSUME NEW a \in Application, CloseApplication(w, a)
        PROVE  <1>1!:
    BY <2>3, <1>0 DEF CloseApplication
  <2> QED BY <2>1, <2>2, <2>3
<1> QED BY <1>1 DEF RegistryInv, RegistryTypeOK, Vouched

LEMMA AttestKeeps ==
    ASSUME RegistryInv, NEW k \in Key, NEW w \in Wallet, NEW expires \in Nat,
           Attest(k, w, expires)
    PROVE  RegistryInv'
<1> DEFINE new == [issuer |-> k, expires_at |-> expires, revoked |-> FALSE]
<1>1. new \in Attestation
  BY DEF Attestation
<1>2. /\ attestation' = [attestation EXCEPT ![w] = new] /\ vouches' = vouches \cup {<<k, w>>}
      /\ UNCHANGED <<now, config, listings, applications>>
  BY DEF Attest
<1>3. attestation \in [Wallet -> Attestation \cup {Absent}] /\ vouches \subseteq Key \X Wallet
  BY DEF RegistryInv, RegistryTypeOK
<1>4. attestation' \in [Wallet -> Attestation \cup {Absent}] /\ vouches' \subseteq Key \X Wallet
  <2> HIDE DEF new
  <2> QED BY <1>1, <1>2, <1>3
<1>5. Vouched'
  <2> SUFFICES ASSUME NEW v \in Wallet, attestation'[v] # Absent, ~attestation'[v].revoked
               PROVE  <<attestation'[v].issuer, v>> \in vouches'
    BY DEF Vouched
  <2>1. CASE v = w
    BY <2>1, <1>2, <1>3
  <2>2. CASE v # w
    BY <2>2, <1>2, <1>3 DEF RegistryInv, Vouched
  <2> QED BY <2>1, <2>2
<1> QED BY <1>2, <1>4, <1>5 DEF RegistryInv, RegistryTypeOK

LEMMA RevokeKeeps ==
    ASSUME RegistryInv, NEW k \in Key, NEW w \in Wallet, Revoke(k, w)
    PROVE  RegistryInv'
<1>1. /\ attestation' = [attestation EXCEPT ![w] = [@ EXCEPT !.revoked = TRUE]]
      /\ vouches' = {v \in vouches : v[2] # w}
      /\ UNCHANGED <<now, config, listings, applications>>
      /\ attestation[w] # Absent
  BY DEF Revoke
<1>2. attestation \in [Wallet -> Attestation \cup {Absent}] /\ vouches \subseteq Key \X Wallet
  BY DEF RegistryInv, RegistryTypeOK
<1>3. [attestation[w] EXCEPT !.revoked = TRUE] \in Attestation
  BY <1>1, <1>2 DEF Attestation
<1>4. attestation' \in [Wallet -> Attestation \cup {Absent}] /\ vouches' \subseteq Key \X Wallet
  BY <1>1, <1>2, <1>3
<1>5. Vouched'
  <2> SUFFICES ASSUME NEW v \in Wallet, attestation'[v] # Absent, ~attestation'[v].revoked
               PROVE  <<attestation'[v].issuer, v>> \in vouches'
    BY DEF Vouched
  <2>1. CASE v = w
    <3>1. attestation[w] \in Attestation
      BY <1>1, <1>2
    <3>2. attestation'[w].revoked
      BY <1>1, <1>2, <3>1 DEF Attestation
    <3> QED BY <2>1, <3>2
  <2>2. CASE v # w
    <3>1. attestation'[v] = attestation[v]
      BY <2>2, <1>1, <1>2
    <3>2. <<attestation[v].issuer, v>> \in vouches
      BY <3>1 DEF RegistryInv, Vouched
    <3> QED BY <3>1, <3>2, <2>2, <1>1
  <2> QED BY <2>1, <2>2
<1> QED BY <1>1, <1>4, <1>5 DEF RegistryInv, RegistryTypeOK

LEMMA RegistryKeeps ==
    ASSUME RegistryInv, RegistryStep \/ UNCHANGED registryVars
    PROVE  RegistryInv'
<1>1. CASE RegistryTick
  BY <1>1 DEF RegistryTick, RegistryInv, RegistryTypeOK, Vouched
<1>2. CASE UNCHANGED registryVars
  BY <1>2 DEF registryVars, RegistryInv, RegistryTypeOK, Vouched
<1> QED BY <1>1, <1>2, AdminKeeps, MarketKeeps, AttestKeeps, RevokeKeeps DEF RegistryStep

(* Only Apply adds an application, behind enforce_kyc.                      *)
LEMMA ApplyIsVouched ==
    ASSUME RegistryInv, RegistryStep \/ UNCHANGED registryVars,
           NEW a \in applications' \ applications, config.require_kyc
    PROVE  /\ <<config.issuer, a.tenant>> \in vouches
           /\ attestation[a.tenant].expires_at \notin 1 .. now
<1>1. PICK t \in Wallet, l \in Wallet, id \in ListingId : Apply(t, l, id)
  BY DEF RegistryStep, registryVars, AdminStep, InitConfig, SetMintAllowed, SetAdmin, SetIssuer,
         SetRequireKyc, Store, MarketStep, CreateListing, CloseListing, CloseApplication,
         RegistryTick, Attest, Revoke
<1>2. a.tenant = t
  BY <1>1 DEF Apply, application
<1>3. /\ attestation[t] # Absent /\ attestation[t].issuer = config.issuer
      /\ ~attestation[t].revoked
      /\ attestation[t].expires_at = 0 \/ attestation[t].expires_at > now
  BY <1>1 DEF Apply, enforce_kyc, is_valid
<1>4. <<config.issuer, t>> \in vouches
  BY <1>3 DEF RegistryInv, Vouched
<1>5. attestation[t].expires_at \notin 1 .. now
  BY <1>3 DEF RegistryInv, RegistryTypeOK, Attestation
<1> QED BY <1>2, <1>4, <1>5

-----------------------------------------------------------------------------
(* What the backend remembers is well formed. *)

LEMMA OfTask ==
    ASSUME MemoryInv, NEW t \in tasks
    PROVE  /\ t \in Task /\ t.review \in reviews /\ t.review \in Review
           /\ t.at \in Nat /\ t.pc \in {"chain", "sent", "landed"}
           /\ t.review.corr \in Corr /\ t.review.wallet \in Wallet
           /\ t.review.answer \in {"GREEN", "RED"} /\ t.review.created \in Nat
           /\ eventRef(t.review) \in Ref
  BY DEF MemoryInv, NetType, VendorType, Task, Review, eventRef, Ref

LEMMA OfTx ==
    ASSUME MemoryInv, NEW x \in txs
    PROVE  /\ x \in Tx /\ x.review \in reviews /\ x.review \in Review
           /\ x.expires \in Nat /\ x.owned \in BOOLEAN
           /\ x.review.wallet \in Wallet /\ x.review.answer \in {"GREEN", "RED"}
           /\ x.review.created \in Nat
  BY DEF MemoryInv, NetType, VendorType, Tx, Review

LEMMA ExpiryIsNat == ASSUME NEW at \in Nat PROVE expiryFrom(at) \in Nat
  BY KycAssumption DEF expiryFrom

(* Every step is a step of the Registry, or leaves it alone.                *)
LEMMA KycRegistry ==
    ASSUME RegistryInv, MemoryInv, [KycNext]_identityVars
    PROVE  RegistryStep \/ UNCHANGED registryVars
<1>1. CASE ChainStep
  BY <1>1 DEF ChainStep, RegistryStep
<1>2. CASE OtherIssuer
  <2>1. expiryFrom(now) \in Nat /\ Person \subseteq Wallet
    BY ExpiryIsNat, KycAssumption DEF RegistryInv, RegistryTypeOK
  <2> QED BY <1>2, <2>1 DEF OtherIssuer, RegistryStep
<1>3. ASSUME NEW x \in txs, Land(x)
      PROVE  RegistryStep
  <2>1. Attest(IssuerKey, x.review.wallet, x.expires) \/ Revoke(IssuerKey, x.review.wallet)
    BY <1>3 DEF Land, Execute
  <2>2. x.review.wallet \in Wallet /\ x.expires \in Nat /\ IssuerKey \in Key
    BY OfTx, KycAssumption
  <2> HIDE DEF Attest, Revoke
  <2> QED BY <2>1, <2>2 DEF RegistryStep
<1>4. CASE UNCHANGED identityVars
  BY <1>4 DEF identityVars
<1>5. CASE StartStep
  BY <1>5 DEF StartStep, StartBook, StartOk, StartFails
<1>6. CASE ReviewStep
  BY <1>6 DEF ReviewStep, Decide
<1>7. CASE Retry
  BY <1>7 DEF Retry, Deliver, Replay
<1>8. CASE \E t \in tasks : TaskStep(t)
  BY <1>8 DEF TaskStep, NotWritten, NothingToRevoke, SendTransaction, Confirmed
<1>9. CASE \E x \in txs : Refuse(x)
  BY <1>9 DEF Refuse
<1>10. CASE \E t \in tasks : Fail(t)
  BY <1>10 DEF Fail
<1>11. CASE \E x \in txs : Lose(x)
  BY <1>11 DEF Lose
<1>12. CASE Restart
  BY <1>12 DEF Restart
<1> QED BY <1>1, <1>2, <1>3, <1>4, <1>5, <1>6, <1>7, <1>8, <1>9, <1>10, <1>11, <1>12
        DEF KycNext, NetworkStep

LEMMA MemoryStart == IdentityInit => MemoryInv
<1> SUFFICES ASSUME IdentityInit PROVE MemoryInv
  OBVIOUS
<1>1. records = << >> /\ DOMAIN records = {}
  BY DEF IdentityInit, KycInit
<1>2. VendorType /\ NetType
  BY KycAssumption DEF IdentityInit, KycInit, VendorType, NetType
<1>3. RecordType
  BY <1>1 DEF IdentityInit, KycInit, RecordType
<1>4. AnswerType
  BY DEF IdentityInit, KycInit, AnswerType
<1> QED BY <1>2, <1>3, <1>4 DEF MemoryInv

(* keep records the review of a task and takes the task away.               *)
LEMMA KeepMemory ==
    ASSUME MemoryInv, NEW t \in tasks,
           NEW status \in {"attested", "revoked", "nothing-to-revoke", "not-written"},
           keep(t, status), UNCHANGED <<applicants, reviews, keyed, faults>>, txs' = txs,
           disturbed' \subseteq Wallet
    PROVE  MemoryInv'
<1> DEFINE e == t.review
           ref == eventRef(e)
           rec == [wallet |-> e.wallet, answer |-> e.answer, status |-> status]
<1>1. ref \in Ref /\ e \in reviews /\ e.wallet \in Wallet /\ e.answer \in {"GREEN", "RED"}
  BY OfTask
<1>2. rec \in Record
  BY <1>1 DEF Record
<1>3. /\ records' = [r \in DOMAIN records \cup {ref} |-> IF r = ref THEN rec ELSE records[r]]
      /\ lastByWallet' = [lastByWallet EXCEPT ![e.wallet] = ref]
      /\ openSession' = openSession \ {e.wallet}
      /\ answered' = answered \cup {e}
      /\ lastAnswered' = [lastAnswered EXCEPT ![e.wallet] = e]
      /\ tasks' = tasks \ {t}
  BY DEF keep, answer200
<1> HIDE DEF e, ref, rec
<1>4. RecordType'
  BY <1>1, <1>2, <1>3 DEF MemoryInv, RecordType
<1>5. AnswerType'
  BY <1>1, <1>3 DEF MemoryInv, AnswerType
<1>6. NetType'
  BY <1>3 DEF MemoryInv, NetType, Task, Tx
<1>7. VendorType'
  BY DEF MemoryInv, VendorType
<1> QED BY <1>4, <1>5, <1>6, <1>7 DEF MemoryInv

LEMMA MemoryKeeps ==
    ASSUME RegistryInv, MemoryInv, StartType, [KycNext]_identityVars
    PROVE  MemoryInv'
<1> USE DEF netVars, answerVars
<1>0. now \in Nat /\ Person \subseteq Wallet /\ MaxFaults \in Nat
  BY KycAssumption DEF RegistryInv, RegistryTypeOK
<1>1. CASE UNCHANGED identityVars \/ ChainStep
  BY <1>1 DEF identityVars, kycVars, ChainStep, MemoryInv, VendorType, NetType, RecordType,
              AnswerType, Task, Tx
<1>2. CASE OtherIssuer
  BY <1>0, <1>2 DEF OtherIssuer, MemoryInv, VendorType, NetType, RecordType, AnswerType, Task, Tx
<1>3. CASE StartStep
  <2>1. /\ UNCHANGED <<reviews, keyed, tasks, txs, records, lastByWallet, answered, lastAnswered,
                       disturbed>>
        /\ faults' \in 0 .. MaxFaults /\ applicants' \subseteq Person /\ openSession' \subseteq Wallet
    <3>0. MemoryInv /\ faults \in 0 .. MaxFaults /\ applicants \subseteq Person /\ openSession \subseteq Wallet
      BY DEF MemoryInv, VendorType, RecordType
    <3>1. ASSUME NEW b \in Tab, NEW w \in Person, StartBook(b, w) PROVE <2>1!:
      BY <3>1, <3>0 DEF StartBook
    <3>2. ASSUME NEW b \in Tab, StartOk(b) PROVE <2>1!:
      BY <3>2, <3>0, <1>0 DEF StartOk, StartType
    <3>3. ASSUME NEW b \in Tab, StartFails(b) PROVE <2>1!:
      BY <3>3, <3>0, <1>0 DEF StartFails, Fault
    <3> QED BY <1>3, <3>1, <3>2, <3>3 DEF StartStep
  <2> QED BY <2>1 DEF MemoryInv, VendorType, NetType, RecordType, AnswerType, Task, Tx
<1>4. CASE ReviewStep
  <2> PICK c \in Corr, w \in Person, a \in {"GREEN", "RED"} :
          Decide([corr |-> c, wallet |-> w, answer |-> a, created |-> now])
    BY <1>4 DEF ReviewStep
  <2> DEFINE e == [corr |-> c, wallet |-> w, answer |-> a, created |-> now]
  <2>1. e \in Review
    BY <1>0 DEF Review
  <2>2. reviews' = reviews \cup {e} /\ UNCHANGED <<applicants, keyed, faults, tasks, txs, records,
            lastByWallet, openSession, answered, lastAnswered, disturbed>>
    BY DEF Decide
  <2> HIDE DEF e
  <2> QED BY <2>1, <2>2 DEF MemoryInv, VendorType, NetType, RecordType, AnswerType, Task, Tx
<1>5. ASSUME NEW e \in reviews, Deliver(e) \/ Replay(e) PROVE MemoryInv'
  <2>0. e.wallet \in Wallet
    BY DEF MemoryInv, VendorType, Review
  <2>1. CASE Replay(e)
    <3>1. /\ answered' = answered \cup {e}
          /\ lastAnswered' = lastAnswered \/ lastAnswered' = [lastAnswered EXCEPT ![e.wallet] = e]
          /\ UNCHANGED <<applicants, reviews, keyed, faults, tasks, txs, records, lastByWallet,
                         openSession, disturbed>>
      BY <2>1 DEF Replay, answer200
    <3> QED BY <3>1, <2>0 DEF MemoryInv, VendorType, NetType, RecordType, AnswerType, Task, Tx
  <2>2. CASE Deliver(e)
    <3> DEFINE t == [review |-> e, at |-> now, pc |-> "chain"]
    <3>1. t \in Task
      BY <1>0 DEF Task
    <3>2. /\ tasks' = tasks \cup {t}
          /\ disturbed' \subseteq disturbed \cup {e.wallet}
          /\ lastAnswered' = [lastAnswered EXCEPT ![e.wallet] = None]
          /\ UNCHANGED <<applicants, reviews, keyed, faults, txs, records, lastByWallet,
                         openSession, answered>>
      BY <2>2 DEF Deliver
    <3> HIDE DEF t
    <3> QED BY <3>1, <3>2, <2>0 DEF MemoryInv, VendorType, NetType, RecordType, AnswerType, Task, Tx
  <2> QED BY <1>5, <2>1, <2>2
<1>6. ASSUME NEW t \in tasks, TaskStep(t) PROVE MemoryInv'
  <2>0. t.review.wallet \in Wallet /\ disturbed \subseteq Wallet
    BY OfTask DEF MemoryInv, NetType
  <2>1. CASE NotWritten(t)
    BY <2>0, <2>1, KeepMemory DEF NotWritten
  <2>2. CASE NothingToRevoke(t)
    BY <2>0, <2>2, KeepMemory DEF NothingToRevoke
  <2>3. CASE Confirmed(t)
    BY <2>0, <2>3, KeepMemory DEF Confirmed
  <2>4. CASE SendTransaction(t)
    <3>1. transaction(t) \in Tx /\ [t EXCEPT !.pc = "sent"] \in Task
      BY OfTask, ExpiryIsNat DEF transaction, Tx, Task
    <3>2. /\ txs' = txs \cup {transaction(t)}
          /\ tasks' = (tasks \ {t}) \cup {[t EXCEPT !.pc = "sent"]}
          /\ UNCHANGED <<applicants, reviews, keyed, faults, records, lastByWallet,
                         openSession, answered, lastAnswered, disturbed>>
      BY <2>4 DEF SendTransaction
    <3> QED BY <3>1, <3>2 DEF MemoryInv, VendorType, NetType, RecordType, AnswerType, Task, Tx
  <2> QED BY <1>6, <2>1, <2>2, <2>3, <2>4 DEF TaskStep
<1>7. ASSUME NEW x \in txs, Land(x) \/ Refuse(x) \/ Lose(x) PROVE MemoryInv'
  <2>0. x.review.wallet \in Wallet
    BY OfTx
  <2>1. /\ tasks' \subseteq tasks \cup {[t EXCEPT !.pc = "landed"] : t \in taskOf(x)}
        /\ disturbed' \subseteq disturbed \cup {x.review.wallet}
        /\ txs' \subseteq txs /\ faults' \in 0 .. MaxFaults
        /\ UNCHANGED <<applicants, reviews, keyed, records, lastByWallet,
                       openSession, answered, lastAnswered>>
    <3>1. faults \in 0 .. MaxFaults
      BY DEF MemoryInv, VendorType
    <3>2. CASE Land(x)
      BY <3>1, <3>2 DEF Land
    <3>3. CASE Refuse(x)
      BY <3>1, <3>3 DEF Refuse
    <3>4. CASE Lose(x)
      BY <3>1, <3>4, <1>0 DEF Lose, Fault
    <3> QED BY <1>7, <3>2, <3>3, <3>4
  <2>2. \A t \in taskOf(x) : [t EXCEPT !.pc = "landed"] \in Task
    BY OfTask DEF taskOf, Task
  <2>3. tasks' \subseteq Task
    BY <2>1, <2>2 DEF MemoryInv, NetType
  <2> QED BY <2>0, <2>1, <2>3 DEF MemoryInv, VendorType, NetType, RecordType, AnswerType, Task, Tx
<1>8. ASSUME NEW t \in tasks, Fail(t) PROVE MemoryInv'
  <2>0. t.review.wallet \in Wallet /\ faults \in 0 .. MaxFaults
    BY OfTask DEF MemoryInv, VendorType
  <2>1. /\ tasks' \subseteq tasks
        /\ txs' = {IF x.review = t.review THEN [x EXCEPT !.owned = FALSE] ELSE x : x \in txs}
        /\ disturbed' \subseteq disturbed \cup {t.review.wallet} /\ faults' \in 0 .. MaxFaults
        /\ UNCHANGED <<applicants, reviews, keyed, records, lastByWallet,
                       openSession, answered, lastAnswered>>
    BY <1>8, <1>0, <2>0 DEF Fail, Fault
  <2>2. \A x \in txs : [x EXCEPT !.owned = FALSE] \in Tx /\ x \in Tx
    BY OfTx DEF Tx
  <2>3. txs' \subseteq Tx
    BY <2>1, <2>2
  <2> QED BY <2>0, <2>1, <2>3 DEF MemoryInv, VendorType, NetType, RecordType, AnswerType, Task, Tx
<1>9. CASE Restart
  <2>1. /\ tasks' = {} /\ txs' = {[x EXCEPT !.owned = FALSE] : x \in txs}
        /\ records' = << >> /\ openSession' = {} /\ lastByWallet' = [w \in Wallet |-> None]
        /\ lastAnswered' = [w \in Wallet |-> None] /\ keyed' \in BOOLEAN
        /\ UNCHANGED <<applicants, reviews, answered, disturbed>>
    BY <1>9 DEF Restart
  <2>2. \A x \in txs : [x EXCEPT !.owned = FALSE] \in Tx
    BY OfTx DEF Tx
  <2>3. DOMAIN records' = {}
    BY <2>1
  <2>4. NetType'
    BY <2>1, <2>2 DEF MemoryInv, NetType, Tx
  <2>5. RecordType' /\ AnswerType'
    BY <2>1, <2>3 DEF MemoryInv, RecordType, AnswerType
  <2>6. faults' \in 0 .. MaxFaults
    BY <1>9, <1>0 DEF Restart, Fault, MemoryInv, VendorType
  <2>7. VendorType'
    BY <2>1, <2>6 DEF MemoryInv, VendorType
  <2> QED BY <2>4, <2>5, <2>7 DEF MemoryInv
<1> QED BY <1>1, <1>2, <1>3, <1>4, <1>5, <1>6, <1>7, <1>8, <1>9
        DEF KycNext, Retry, NetworkStep

-----------------------------------------------------------------------------
(* An approval lasts no longer than its review allows. *)

(* Whatever carries reviews, times and expiries over keeps what they are    *)
(* worth.                                                                   *)
SameTask(t, u) == t.review = u.review /\ t.at = u.at
SameTx(x, y) == x.review = y.review /\ x.expires = y.expires
Untrusted(w) ==
    attestation'[w] # Absent /\ attestation'[w].issuer = IssuerKey =>
        /\ attestation[w] # Absent /\ attestation[w].issuer = IssuerKey
        /\ attestation'[w].expires_at = attestation[w].expires_at

LEMMA TrustStays ==
    ASSUME TrustExpires, reviews \subseteq reviews', \A w \in Wallet : Untrusted(w)
    PROVE  TrustExpires'
  BY DEF TrustExpires, Untrusted

LEMMA TrustCarried ==
    ASSUME TrustInv, reviews \subseteq reviews', \A w \in Wallet : Untrusted(w),
           \A t \in tasks' : \E u \in tasks : SameTask(t, u),
           \A x \in txs' : \E y \in txs : SameTx(x, y)
    PROVE  TrustInv'
<1>1. TrustExpires'
  BY TrustStays DEF TrustInv
<1>2. ASSUME NEW t \in tasks' PROVE t.at <= t.review.created + MAX_AGE
  BY DEF TrustInv, SameTask
<1>3. ASSUME NEW x \in txs' PROVE Timely(x.review, x.expires)
  <2>1. PICK y \in txs : SameTx(x, y)
    OBVIOUS
  <2> QED BY <2>1 DEF TrustInv, SameTx
<1> QED BY <1>1, <1>2, <1>3 DEF TrustInv, Timely

(* What a fresh delivery leads to is within the bound.                      *)
LEMMA FreshIsTimely ==
    ASSUME NEW at \in Nat, NEW created \in Nat, at <= created + MAX_AGE, VALIDITY # 0
    PROVE  expiryFrom(at) \in 1 .. created + MAX_AGE + VALIDITY
  BY KycAssumption DEF expiryFrom

LEMMA TrustStart == IdentityInit => TrustInv
  BY DEF IdentityInit, RegistryInit, KycInit, TrustInv, TrustExpires

LEMMA TrustKeeps ==
    ASSUME RegistryInv, MemoryInv, TrustInv, [KycNext]_identityVars
    PROVE  TrustInv'
<1> USE DEF netVars, answerVars
<1>0. \A t : SameTask(t, t) /\ \A x : SameTx(x, x)
  BY DEF SameTask, SameTx
<1>a. UNCHANGED attestation => \A w \in Wallet : Untrusted(w)
  BY DEF Untrusted
<1>b. attestation \in [Wallet -> Attestation \cup {Absent}]
  BY DEF RegistryInv, RegistryTypeOK
<1>1. CASE UNCHANGED identityVars
  <2>1. UNCHANGED <<reviews, tasks, txs, attestation>>
    BY <1>1 DEF identityVars, kycVars, registryVars
  <2> QED BY <2>1, <1>0, <1>a, TrustCarried
<1>2. CASE ChainStep
  <2>1. UNCHANGED <<reviews, tasks, txs, attestation>>
    BY <1>2 DEF ChainStep, kycVars, AdminStep, InitConfig, SetMintAllowed, SetAdmin, SetIssuer,
       SetRequireKyc, Store, MarketStep, CreateListing, CloseListing, Apply, CloseApplication,
       RegistryTick
  <2> QED BY <2>1, <1>0, <1>a, TrustCarried
<1>3. CASE OtherIssuer
  <2>1. PICK k \in Key \ {IssuerKey}, w \in Person :
            Attest(k, w, expiryFrom(now)) \/ Revoke(k, w)
    BY <1>3 DEF OtherIssuer
  <2>2. UNCHANGED <<reviews, tasks, txs>>
    BY <1>3 DEF OtherIssuer
  <2>3. ASSUME NEW v \in Wallet PROVE Untrusted(v)
    <3>1. CASE Attest(k, w, expiryFrom(now))
      BY <3>1, <1>b DEF Attest, Untrusted
    <3>2. CASE Revoke(k, w)
      <4>1. attestation' = [attestation EXCEPT ![w] = [@ EXCEPT !.revoked = TRUE]]
        BY <3>2 DEF Revoke
      <4>2. attestation[w] # Absent /\ (v = w => attestation[v] \in Attestation)
        BY <3>2, <1>b DEF Revoke
      <4> QED BY <4>1, <4>2, <1>b DEF Untrusted, Attestation
    <3> QED BY <2>1, <3>1, <3>2
  <2> QED BY <2>2, <2>3, <1>0, TrustCarried
<1>4. CASE StartStep \/ Restart
  <2>1. UNCHANGED <<reviews, attestation>> /\ tasks' \subseteq tasks
        /\ (txs' = txs \/ txs' = {[x EXCEPT !.owned = FALSE] : x \in txs})
    BY <1>4 DEF StartStep, StartBook, StartOk, StartFails, registryVars, Restart
  <2>2. \A x \in txs : SameTx([x EXCEPT !.owned = FALSE], x)
    BY OfTx DEF Tx, SameTx
  <2> QED BY <2>1, <2>2, <1>0, <1>a, TrustCarried
<1>5. CASE ReviewStep
  <2>1. UNCHANGED <<tasks, txs, attestation>> /\ reviews \subseteq reviews'
    BY <1>5 DEF ReviewStep, Decide, registryVars
  <2> QED BY <2>1, <1>0, <1>a, TrustCarried
<1>6. ASSUME NEW e \in reviews, Replay(e) PROVE TrustInv'
  <2>1. UNCHANGED <<reviews, tasks, txs, attestation>>
    BY <1>6 DEF Replay, registryVars
  <2> QED BY <2>1, <1>0, <1>a, TrustCarried
<1>7. ASSUME NEW e \in reviews, Deliver(e) PROVE TrustInv'
  <2>1. /\ tasks' = tasks \cup {[review |-> e, at |-> now, pc |-> "chain"]}
        /\ UNCHANGED <<reviews, txs, attestation>> /\ fresh(e)
    BY <1>7 DEF Deliver, registryVars
  <2>2. now <= e.created + MAX_AGE
    BY <2>1, KycAssumption DEF fresh, MemoryInv, VendorType, Review, RegistryInv, RegistryTypeOK
  <2>3. TrustExpires'
    BY <2>1, <1>a, TrustStays DEF TrustInv
  <2> QED BY <2>1, <2>2, <2>3 DEF TrustInv, Timely
<1>8. ASSUME NEW t \in tasks, NotWritten(t) \/ NothingToRevoke(t) \/ Confirmed(t) PROVE TrustInv'
  <2>1. UNCHANGED <<reviews, txs, attestation>> /\ tasks' \subseteq tasks
    BY <1>8 DEF NotWritten, NothingToRevoke, Confirmed, keep, registryVars
  <2> QED BY <2>1, <1>0, <1>a, TrustCarried
<1>9. ASSUME NEW t \in tasks, SendTransaction(t) PROVE TrustInv'
  <2>1. /\ txs' = txs \cup {transaction(t)}
        /\ tasks' = (tasks \ {t}) \cup {[t EXCEPT !.pc = "sent"]}
        /\ UNCHANGED <<reviews, attestation>>
    BY <1>9 DEF SendTransaction, registryVars
  <2>2. SameTask([t EXCEPT !.pc = "sent"], t)
    BY OfTask DEF Task, SameTask
  <2>3. \A u \in tasks' : u.at <= u.review.created + MAX_AGE
    BY <2>1, <2>2 DEF TrustInv, SameTask
  <2>4. Timely(t.review, expiryFrom(t.at))
    BY OfTask, FreshIsTimely DEF TrustInv, Timely
  <2>5. \A x \in txs' : Timely(x.review, x.expires)
    <3> SUFFICES ASSUME NEW x \in txs' PROVE Timely(x.review, x.expires)
      OBVIOUS
    <3>1. CASE x \in txs
      BY <3>1 DEF TrustInv
    <3>2. CASE x = transaction(t)
      BY <3>2, <2>4 DEF transaction
    <3> QED BY <2>1, <3>1, <3>2
  <2>6. TrustExpires'
    BY <2>1, <1>a, TrustStays DEF TrustInv
  <2> QED BY <2>3, <2>5, <2>6, <2>1 DEF TrustInv, Timely
<1>10. ASSUME NEW x \in txs, Land(x) \/ Refuse(x) \/ Lose(x) PROVE TrustInv'
  <2>1. /\ tasks' \subseteq tasks \cup {[t EXCEPT !.pc = "landed"] : t \in taskOf(x)}
        /\ txs' \subseteq txs /\ UNCHANGED reviews
    BY <1>10 DEF Land, Refuse, Lose
  <2>2. \A t \in taskOf(x) : t \in tasks /\ SameTask([t EXCEPT !.pc = "landed"], t)
    BY OfTask DEF taskOf, Task, SameTask
  <2>3. (\A u \in tasks' : \E t \in tasks : SameTask(u, t)) /\ \A y \in txs' : \E z \in txs : SameTx(y, z)
    BY <2>1, <2>2, <1>0
  <2>4. CASE UNCHANGED attestation
    BY <2>1, <2>3, <2>4, <1>a, TrustCarried
  <2>5. CASE x.review.answer = "GREEN" /\ Attest(IssuerKey, x.review.wallet, x.expires)
    <3> DEFINE w == x.review.wallet
               new == [issuer |-> IssuerKey, expires_at |-> x.expires, revoked |-> FALSE]
    <3>1. attestation' = [attestation EXCEPT ![w] = new]
      BY <2>5 DEF Attest
    <3>2. x.review \in reviews /\ w \in Wallet
      BY OfTx
    <3>3. Timely(x.review, x.expires)
      BY DEF TrustInv
    <3>4. ASSUME NEW v \in Wallet, attestation'[v] # Absent, attestation'[v].issuer = IssuerKey
          PROVE  \E e \in reviews : e.wallet = v /\ e.answer = "GREEN" /\ Timely(e, attestation'[v].expires_at)
      <4>1. CASE v = w
        BY <4>1, <3>1, <3>2, <3>3, <2>5, <1>b
      <4>2. CASE v # w
        <5>1. attestation'[v] = attestation[v]
          BY <4>2, <3>1, <1>b
        <5> QED BY <5>1, <3>4 DEF TrustInv, TrustExpires, Timely
      <4> QED BY <4>1, <4>2
    <3>5. TrustExpires'
      BY <3>4, <2>1 DEF TrustExpires, Timely
    <3>6. ASSUME NEW t \in tasks' PROVE t.at <= t.review.created + MAX_AGE
      BY <2>3 DEF TrustInv, SameTask
    <3>7. ASSUME NEW y \in txs' PROVE Timely(y.review, y.expires)
      BY <2>1 DEF TrustInv
    <3> QED BY <3>5, <3>6, <3>7 DEF TrustInv, Timely
  <2>6. CASE Revoke(IssuerKey, x.review.wallet)
    <3> DEFINE w == x.review.wallet
    <3>1. attestation' = [attestation EXCEPT ![w] = [@ EXCEPT !.revoked = TRUE]]
      BY <2>6 DEF Revoke
    <3>2. attestation[w] # Absent /\ attestation[w] \in Attestation
      BY <2>6, <1>b, OfTx DEF Revoke
    <3>3. \A v \in Wallet : Untrusted(v)
      BY <3>1, <3>2, <1>b DEF Untrusted, Attestation
    <3> QED BY <2>1, <2>3, <3>3, TrustCarried
  <2>7. Land(x) => \/ x.review.answer = "GREEN" /\ Attest(IssuerKey, x.review.wallet, x.expires)
                   \/ Revoke(IssuerKey, x.review.wallet)
    BY DEF Land, Execute
  <2>8. Refuse(x) \/ Lose(x) => UNCHANGED attestation
    BY DEF Refuse, Lose, registryVars
  <2> QED BY <1>10, <2>4, <2>5, <2>6, <2>7, <2>8
<1>11. ASSUME NEW t \in tasks, Fail(t) PROVE TrustInv'
  <2>1. /\ tasks' \subseteq tasks /\ UNCHANGED <<reviews, attestation>>
        /\ txs' = {IF x.review = t.review THEN [x EXCEPT !.owned = FALSE] ELSE x : x \in txs}
    BY <1>11 DEF Fail, registryVars
  <2>2. \A x \in txs : SameTx([x EXCEPT !.owned = FALSE], x)
    BY OfTx DEF Tx, SameTx
  <2>3. \A y \in txs' : \E x \in txs : SameTx(y, x)
    BY <2>1, <2>2, <1>0
  <2> QED BY <2>1, <2>3, <1>0, <1>a, TrustCarried
<1> QED BY <1>1, <1>2, <1>3, <1>4, <1>5, <1>6, <1>7, <1>8, <1>9, <1>10, <1>11
        DEF KycNext, Retry, NetworkStep, TaskStep

-----------------------------------------------------------------------------
(* What was answered is what the chain says. *)

LEMMA RefsStart == IdentityInit => RefsInv
<1>1. IdentityInit => DOMAIN records = {} /\ reviews = {}
  BY DEF IdentityInit, KycInit
<1> QED BY <1>1 DEF RefsInv

(* The vendor does not take the same decision twice in a correlation, and   *)
(* a correlation is about one wallet.                                       *)
LEMMA RefsKeeps ==
    ASSUME MemoryInv, RefsInv, [KycNext]_identityVars
    PROVE  RefsInv'
<1> USE DEF netVars, answerVars
<1>1. CASE ReviewStep
  <2> PICK c \in Corr, w \in Person, a \in {"GREEN", "RED"} :
          Decide([corr |-> c, wallet |-> w, answer |-> a, created |-> now])
    BY <1>1 DEF ReviewStep
  <2> DEFINE e == [corr |-> c, wallet |-> w, answer |-> a, created |-> now]
  <2>1. /\ reviews' = reviews \cup {e} /\ UNCHANGED <<records, answered>>
        /\ ~\E d \in reviews : d.corr = e.corr /\ d.answer = e.answer
    BY DEF Decide
  <2>2. \A d \in reviews : eventRef(d) # eventRef(e)
    BY <2>1 DEF eventRef
  <2> HIDE DEF e
  <2>3. \A d, f \in reviews' : eventRef(d) = eventRef(f) => d = f
    BY <2>1, <2>2 DEF RefsInv
  <2> QED BY <2>1, <2>3 DEF RefsInv, eventRef
<1>2. ASSUME NEW t \in tasks, NEW status, keep(t, status), UNCHANGED reviews PROVE RefsInv'
  <2>1. /\ DOMAIN records' = DOMAIN records \cup {eventRef(t.review)}
        /\ answered' = answered \cup {t.review}
    BY <1>2 DEF keep, answer200
  <2> QED BY <1>2, <2>1 DEF RefsInv, eventRef
<1>3. CASE /\ UNCHANGED reviews /\ answered \subseteq answered'
           /\ records' = records \/ DOMAIN records' = {}
  BY <1>3 DEF RefsInv, eventRef
<1>4. ASSUME NEW t \in tasks, TaskStep(t) PROVE RefsInv'
  <2>1. CASE NotWritten(t)
    BY <2>1, <1>2 DEF NotWritten
  <2>2. CASE NothingToRevoke(t)
    BY <2>2, <1>2 DEF NothingToRevoke
  <2>3. CASE Confirmed(t)
    BY <2>3, <1>2 DEF Confirmed
  <2>4. CASE SendTransaction(t)
    BY <2>4, <1>3 DEF SendTransaction
  <2> QED BY <1>4, <2>1, <2>2, <2>3, <2>4 DEF TaskStep
<1>5. CASE Restart
  <2>1. records' = << >> /\ UNCHANGED <<reviews, answered>>
    BY <1>5 DEF Restart
  <2>2. DOMAIN records' = {}
    BY <2>1
  <2> QED BY <2>1, <2>2, <1>3
<1>6. CASE UNCHANGED identityVars \/ ChainStep \/ OtherIssuer
  <2>1. UNCHANGED <<reviews, answered, records>>
    BY <1>6 DEF identityVars, kycVars, ChainStep, OtherIssuer
  <2> QED BY <2>1, <1>3
<1>7. CASE StartStep
  <2>1. UNCHANGED <<reviews, answered, records>>
    BY <1>7 DEF StartStep, StartBook, StartOk, StartFails
  <2> QED BY <2>1, <1>3
<1>8. CASE Retry
  <2>1. UNCHANGED <<reviews, records>> /\ answered \subseteq answered'
    BY <1>8 DEF Retry, Deliver, Replay, answer200
  <2> QED BY <2>1, <1>3
<1>9. CASE (\E t \in tasks : Fail(t)) \/ \E x \in txs : Land(x) \/ Refuse(x) \/ Lose(x)
  <2>1. UNCHANGED <<reviews, answered, records>>
    BY <1>9 DEF Fail, Land, Refuse, Lose
  <2> QED BY <2>1, <1>3
<1> QED BY <1>1, <1>4, <1>5, <1>6, <1>7, <1>8, <1>9 DEF KycNext, NetworkStep

(* A review with a record has been answered: a replay records nothing new.  *)
LEMMA ReplayIsOld ==
    ASSUME MemoryInv, RefsInv, NEW e \in reviews, Replay(e)
    PROVE  e \in answered /\ lastAnswered' = lastAnswered
<1>1. PICK d \in answered : eventRef(d) = eventRef(e)
  BY DEF Replay, RefsInv
<1>2. d = e
  BY <1>1 DEF RefsInv, MemoryInv, AnswerType
<1> QED BY <1>2 DEF Replay

About(S, w) == {r \in S : r.review.wallet = w}
Untouched(w) ==
    /\ About(tasks', w) = About(tasks, w) /\ About(txs', w) = About(txs, w)
    /\ lastAnswered'[w] = lastAnswered[w] /\ attestation'[w] = attestation[w]

LEMMA UndisturbedKept ==
    ASSUME NEW w, Undisturbed(w), Untouched(w)
    PROVE  Undisturbed(w)'
<1>1. /\ \A t \in tasks' : t.review.wallet = w => t \in tasks
      /\ \A x \in txs' : x.review.wallet = w => x \in txs
  BY DEF Untouched, About
<1>2. OnlyTask(w)'
  BY <1>1 DEF Undisturbed, OnlyTask
<1>3. Matches(w, lastAnswered[w]) => Matches(w, lastAnswered[w])'
  BY DEF Matches, Untouched
<1>4. AnswerStands(w)'
  BY <1>1, <1>3 DEF Undisturbed, AnswerStands, quiet, Untouched, Matches
<1>5. TaskAlone(w)'
  BY <1>1 DEF Undisturbed, TaskAlone, Untouched, Matches
<1> QED BY <1>2, <1>4, <1>5 DEF Undisturbed

(* A wallet with nothing on its way and no answer is in order.              *)
LEMMA EmptyIsUndisturbed ==
    ASSUME NEW w, \A t \in tasks' : t.review.wallet # w, lastAnswered'[w] = None
    PROVE  Undisturbed(w)'
  BY DEF Undisturbed, OnlyTask, TaskAlone, AnswerStands

(* An answer recorded for a wallet with nothing else on its way, of which   *)
(* the chain says the same.                                                 *)
LEMMA KeepUndisturbed ==
    ASSUME MemoryInv, RecordInv, NEW t \in tasks, NEW status, keep(t, status),
           UNCHANGED <<txs, attestation>>, disturbed \subseteq disturbed',
           t.pc # "sent", Matches(t.review.wallet, t.review) \/ t.review.wallet \in disturbed'
    PROVE  RecordInv'
<1> SUFFICES ASSUME NEW w \in Wallet, w \notin disturbed' PROVE Undisturbed(w)'
  BY DEF RecordInv
<1>0. Undisturbed(w)
  BY DEF RecordInv
<1>1. /\ lastAnswered' = [lastAnswered EXCEPT ![t.review.wallet] = t.review]
      /\ tasks' = tasks \ {t}
      /\ lastAnswered \in [Wallet -> answered \cup {None}]
  BY DEF keep, MemoryInv, AnswerType
<1>2. CASE t.review.wallet # w
  <2>1. Untouched(w)
    BY <1>1, <1>2 DEF Untouched, About
  <2> QED BY <2>1, <1>0, UndisturbedKept
<1>3. CASE t.review.wallet = w
  <2>1. \A u \in tasks' : u.review.wallet # w
    BY <1>0, <1>1, <1>3 DEF Undisturbed, OnlyTask
  <2>2. \A x \in txs' : x.review.wallet # w
    BY <1>0, <1>3 DEF Undisturbed, TaskAlone
  <2>3. Matches(w, t.review) /\ lastAnswered'[w] = t.review
    BY <1>1, <1>3
  <2>4. AnswerStands(w)'
    BY <2>1, <2>2, <2>3 DEF AnswerStands, quiet, Matches
  <2> QED BY <2>1, <2>4 DEF Undisturbed, OnlyTask, TaskAlone
<1> QED BY <1>2, <1>3

(* A transaction of an undisturbed wallet belongs to its one task, if there *)
(* is any, and to no answer.                                                *)
LEMMA OneTransaction ==
    ASSUME MemoryInv, NEW x \in txs, Undisturbed(x.review.wallet)
    PROVE  /\ lastAnswered[x.review.wallet] = None
           /\ \A t \in tasks : t.review.wallet = x.review.wallet =>
                 /\ x.owned /\ taskOf(x) = {t} /\ t.review = x.review /\ t.pc = "sent"
                 /\ \A y \in txs \ {x} : y.review.wallet # x.review.wallet
<1>1. lastAnswered[x.review.wallet] = None
  BY DEF Undisturbed, AnswerStands, quiet
<1>2. ASSUME NEW t \in tasks, t.review.wallet = x.review.wallet
      PROVE  /\ x.owned /\ taskOf(x) = {t} /\ t.review = x.review /\ t.pc = "sent"
             /\ \A y \in txs \ {x} : y.review.wallet # x.review.wallet
  <2>1. t.pc = "sent" /\ x.owned /\ x.review = t.review
    BY <1>2 DEF Undisturbed, TaskAlone
  <2>2. \A y \in txs : y.review.wallet = x.review.wallet => x = y
    BY <1>2, <2>1 DEF Undisturbed, TaskAlone
  <2>3. taskOf(x) = {t}
    BY <1>2, <2>1 DEF Undisturbed, OnlyTask, taskOf
  <2> QED BY <2>1, <2>2, <2>3
<1> QED BY <1>1, <1>2

(* What an executed transaction writes is what its review says.             *)
LEMMA ExecuteMatches ==
    ASSUME RegistryInv, MemoryInv, NEW x \in txs, Execute(x)
    PROVE  /\ Matches(x.review.wallet, x.review)'
           /\ \A v \in Wallet \ {x.review.wallet} : attestation'[v] = attestation[v]
<1>0. /\ attestation \in [Wallet -> Attestation \cup {Absent}]
      /\ x.review.wallet \in Wallet /\ x.review.answer \in {"GREEN", "RED"}
      /\ x.expires \in Nat
  BY OfTx DEF RegistryInv, RegistryTypeOK
<1>1. CASE x.review.answer = "GREEN"
  <2> DEFINE new == [issuer |-> IssuerKey, expires_at |-> x.expires, revoked |-> FALSE]
  <2>1. attestation' = [attestation EXCEPT ![x.review.wallet] = new]
    BY <1>1 DEF Execute, Attest
  <2>2. new \in Attestation
    BY <1>0, KycAssumption DEF Attestation
  <2>3. new # Absent
    BY <2>2, AbsentAssumption
  <2>4. new.issuer = IssuerKey /\ ~new.revoked
    OBVIOUS
  <2> HIDE DEF new
  <2> QED BY <1>0, <1>1, <2>1, <2>3, <2>4 DEF Matches
<1>2. CASE x.review.answer # "GREEN"
  <2>1. /\ attestation' = [attestation EXCEPT ![x.review.wallet] = [@ EXCEPT !.revoked = TRUE]]
        /\ attestation[x.review.wallet] # Absent
    BY <1>2 DEF Execute, Revoke
  <2>2. [attestation[x.review.wallet] EXCEPT !.revoked = TRUE].revoked
    BY <1>0, <2>1 DEF Attestation
  <2> QED BY <1>0, <1>2, <2>1, <2>2 DEF Matches
<1> QED BY <1>1, <1>2

LEMMA LandKeeps ==
    ASSUME RegistryInv, MemoryInv, RecordInv, NEW x \in txs, Land(x)
    PROVE  RecordInv'
<1> SUFFICES ASSUME NEW v \in Wallet, v \notin disturbed' PROVE Undisturbed(v)'
  BY DEF RecordInv
<1>1. /\ txs' = txs \ {x} /\ lastAnswered' = lastAnswered
      /\ tasks' = IF x.owned
                  THEN (tasks \ taskOf(x)) \cup {[t EXCEPT !.pc = "landed"] : t \in taskOf(x)}
                  ELSE tasks
      /\ disturbed' = IF x.owned THEN disturbed ELSE disturbed \cup {x.review.wallet}
      /\ Execute(x)
  BY DEF Land, answerVars
<1>2. v \notin disturbed /\ Undisturbed(v)
  BY <1>1 DEF RecordInv
<1>3. \A t \in taskOf(x) : /\ t \in tasks /\ t.review = x.review
                           /\ [t EXCEPT !.pc = "landed"].review = x.review
                           /\ [t EXCEPT !.pc = "landed"].pc = "landed"
  BY OfTask DEF taskOf, Task
<1>4. CASE v # x.review.wallet
  <2>1. About(tasks', v) = About(tasks, v)
    BY <1>1, <1>3, <1>4 DEF About
  <2>2. Untouched(v)
    BY <1>1, <1>4, <2>1, ExecuteMatches DEF Untouched, About
  <2> QED BY <1>2, <2>2, UndisturbedKept
<1>5. CASE v = x.review.wallet
  <2>1. x.owned
    BY <1>1, <1>5
  <2>2. lastAnswered'[v] = None
    BY <1>1, <1>2, <1>5, OneTransaction
  <2>3. CASE \A t \in tasks : t.review.wallet # v
    <3>1. \A t \in tasks' : t.review.wallet # v
      BY <1>1, <1>3, <1>5, <2>3
    <3> QED BY <2>2, <3>1, EmptyIsUndisturbed
  <2>4. ASSUME NEW t \in tasks, t.review.wallet = v PROVE Undisturbed(v)'
    <3>1. taskOf(x) = {t} /\ t.review = x.review /\ \A y \in txs \ {x} : y.review.wallet # v
      BY <1>2, <1>5, <2>4, OneTransaction
    <3> DEFINE u == [t EXCEPT !.pc = "landed"]
    <3>2. u.review = x.review /\ u.pc = "landed"
      BY <1>3, <3>1
    <3>3. tasks' = (tasks \ {t}) \cup {u}
      BY <1>1, <2>1, <3>1
    <3> HIDE DEF u
    <3>4. \A s \in tasks' : s.review.wallet = v => s = u
      BY <3>3, <2>4, <1>2 DEF Undisturbed, OnlyTask
    <3>5. \A y \in txs' : y.review.wallet # v
      BY <1>1, <3>1
    <3>6. Matches(v, u.review)'
      BY <1>1, <1>5, <3>2, ExecuteMatches DEF Matches
    <3>7. TaskAlone(v)'
      BY <2>2, <3>2, <3>4, <3>5, <3>6 DEF TaskAlone, Matches
    <3>8. OnlyTask(v)'
      BY <3>4 DEF OnlyTask
    <3>9. AnswerStands(v)'
      BY <2>2 DEF AnswerStands
    <3> QED BY <3>7, <3>8, <3>9 DEF Undisturbed
  <2> QED BY <2>3, <2>4
<1> QED BY <1>4, <1>5

(* A transaction that does not land takes its task with it.                 *)
LEMMA DropKeeps ==
    ASSUME MemoryInv, RecordInv, NEW x \in txs, Refuse(x) \/ Lose(x)
    PROVE  RecordInv'
<1> SUFFICES ASSUME NEW v \in Wallet, v \notin disturbed' PROVE Undisturbed(v)'
  BY DEF RecordInv
<1>1. /\ txs' = txs \ {x} /\ UNCHANGED <<lastAnswered, attestation, disturbed>>
      /\ tasks' = IF x.owned THEN tasks \ taskOf(x) ELSE tasks
  BY DEF Refuse, Lose, answerVars, registryVars
<1>2. Undisturbed(v)
  BY <1>1 DEF RecordInv
<1>3. CASE v # x.review.wallet
  <2>1. Untouched(v)
    BY <1>1, <1>3 DEF Untouched, About, taskOf
  <2> QED BY <1>2, <2>1, UndisturbedKept
<1>4. CASE v = x.review.wallet
  <2>1. lastAnswered'[v] = None
    BY <1>1, <1>2, <1>4, OneTransaction
  <2>2. \A t \in tasks' : t.review.wallet # v
    BY <1>1, <1>2, <1>4, OneTransaction
  <2> QED BY <2>1, <2>2, EmptyIsUndisturbed
<1> QED BY <1>3, <1>4

LEMMA FailKeeps ==
    ASSUME MemoryInv, RecordInv, NEW t \in tasks, Fail(t)
    PROVE  RecordInv'
<1> SUFFICES ASSUME NEW v \in Wallet, v \notin disturbed' PROVE Undisturbed(v)'
  BY DEF RecordInv
<1>1. /\ tasks' = tasks \ {t} /\ UNCHANGED <<lastAnswered, attestation>>
      /\ txs' = {IF x.review = t.review THEN [x EXCEPT !.owned = FALSE] ELSE x : x \in txs}
      /\ disturbed' = IF t.pc = "chain" THEN disturbed ELSE disturbed \cup {t.review.wallet}
  BY DEF Fail, answerVars, registryVars
<1>2. Undisturbed(v)
  BY <1>1 DEF RecordInv
<1>3. CASE v # t.review.wallet
  <2>0. \A x \in txs : [x EXCEPT !.owned = FALSE].review = x.review
    BY OfTx DEF Tx
  <2>1. About(txs', v) = About(txs, v)
    <3>1. ASSUME NEW y \in About(txs', v) PROVE y \in About(txs, v)
      BY <1>1, <1>3, <2>0 DEF About
    <3>2. ASSUME NEW y \in About(txs, v) PROVE y \in About(txs', v)
      <4>1. y \in txs /\ y.review.wallet = v /\ y.review # t.review
        BY <1>3 DEF About
      <4>2. y \in txs'
        BY <1>1, <4>1
      <4> QED BY <4>1, <4>2 DEF About
    <3> QED BY <3>1, <3>2
  <2>2. Untouched(v)
    BY <1>1, <1>3, <2>1 DEF Untouched, About
  <2> QED BY <1>2, <2>2, UndisturbedKept
<1>4. CASE v = t.review.wallet
  <2>1. \A u \in tasks' : u.review.wallet # v
    BY <1>1, <1>2, <1>4 DEF Undisturbed, OnlyTask
  <2>2. lastAnswered'[v] = None
    BY <1>1, <1>2, <1>4 DEF Undisturbed, TaskAlone
  <2> QED BY <2>1, <2>2, EmptyIsUndisturbed
<1> QED BY <1>3, <1>4

LEMMA SendKeeps ==
    ASSUME MemoryInv, RecordInv, NEW t \in tasks, SendTransaction(t)
    PROVE  RecordInv'
<1> SUFFICES ASSUME NEW v \in Wallet, v \notin disturbed' PROVE Undisturbed(v)'
  BY DEF RecordInv
<1> DEFINE u == [t EXCEPT !.pc = "sent"]
           x == transaction(t)
<1>1. /\ tasks' = (tasks \ {t}) \cup {u} /\ txs' = txs \cup {x} /\ t.pc = "chain"
      /\ UNCHANGED <<lastAnswered, attestation, disturbed>>
  BY DEF SendTransaction, answerVars, registryVars
<1>2. u.review = t.review /\ u.pc = "sent" /\ x.review = t.review /\ x.owned
  BY OfTask DEF Task, transaction
<1> HIDE DEF u, x
<1>3. Undisturbed(v)
  BY <1>1 DEF RecordInv
<1>4. CASE v # t.review.wallet
  <2>1. Untouched(v)
    BY <1>1, <1>2, <1>4 DEF Untouched, About
  <2> QED BY <1>3, <2>1, UndisturbedKept
<1>5. CASE v = t.review.wallet
  <2>1. lastAnswered'[v] = None /\ \A y \in txs : y.review.wallet # v
    BY <1>1, <1>3, <1>5 DEF Undisturbed, TaskAlone
  <2>2. \A s \in tasks' : s.review.wallet = v => s = u
    BY <1>1, <1>3, <1>5 DEF Undisturbed, OnlyTask
  <2>3. \A y \in txs' : y.review.wallet = v => y = x
    BY <1>1, <2>1
  <2>4. TaskAlone(v)'
    BY <1>2, <2>1, <2>2, <2>3 DEF TaskAlone
  <2>5. OnlyTask(v)' /\ AnswerStands(v)'
    BY <2>1, <2>2 DEF OnlyTask, AnswerStands
  <2> QED BY <2>4, <2>5 DEF Undisturbed
<1> QED BY <1>4, <1>5

LEMMA DeliverKeeps ==
    ASSUME MemoryInv, RecordInv, NEW e \in reviews, Deliver(e)
    PROVE  RecordInv'
<1> SUFFICES ASSUME NEW v \in Wallet, v \notin disturbed' PROVE Undisturbed(v)'
  BY DEF RecordInv
<1> DEFINE t == [review |-> e, at |-> now, pc |-> "chain"]
<1>1. /\ tasks' = tasks \cup {t} /\ UNCHANGED <<txs, attestation>>
      /\ lastAnswered' = [lastAnswered EXCEPT ![e.wallet] = None]
      /\ disturbed' = IF quiet(e.wallet) THEN disturbed \ {e.wallet}
                                        ELSE disturbed \cup {e.wallet}
      /\ lastAnswered \in [Wallet -> answered \cup {None}]
  BY DEF Deliver, registryVars, MemoryInv, AnswerType
<1>2. t.review = e /\ t.pc = "chain"
  OBVIOUS
<1> HIDE DEF t
<1>3. CASE v # e.wallet
  <2>1. Undisturbed(v)
    BY <1>1, <1>3 DEF RecordInv
  <2>2. Untouched(v)
    BY <1>1, <1>2, <1>3 DEF Untouched, About
  <2> QED BY <2>1, <2>2, UndisturbedKept
<1>4. CASE v = e.wallet
  <2>1. quiet(v)
    BY <1>1, <1>4
  <2>2. lastAnswered'[v] = None
    BY <1>1, <1>4
  <2>3. \A s \in tasks' : s.review.wallet = v => s = t
    BY <1>1, <2>1 DEF quiet
  <2>4. \A y \in txs' : y.review.wallet # v
    BY <1>1, <2>1 DEF quiet
  <2> QED BY <1>2, <2>2, <2>3, <2>4 DEF Undisturbed, OnlyTask, TaskAlone, AnswerStands
<1> QED BY <1>3, <1>4

LEMMA RecordStart == IdentityInit => RecordInv
  BY DEF IdentityInit, KycInit, RecordInv, Undisturbed, OnlyTask, TaskAlone, AnswerStands

LEMMA RecordKeeps ==
    ASSUME RegistryInv, MemoryInv, RefsInv, RecordInv, [KycNext]_identityVars
    PROVE  RecordInv'
<1>a. ASSUME \A v \in Wallet \ disturbed' : v \notin disturbed /\ Untouched(v)
      PROVE  RecordInv'
  BY <1>a, UndisturbedKept DEF RecordInv
<1>b. UNCHANGED <<tasks, txs, lastAnswered, attestation, disturbed>> => RecordInv'
  BY <1>a DEF Untouched
<1>1. CASE UNCHANGED identityVars
  BY <1>1, <1>b DEF identityVars, kycVars, registryVars
<1>2. CASE ChainStep
  BY <1>2, <1>b DEF ChainStep, kycVars, AdminStep, InitConfig, SetMintAllowed, SetAdmin, SetIssuer,
       SetRequireKyc, Store, MarketStep, CreateListing, CloseListing, Apply, CloseApplication,
       RegistryTick
<1>3. CASE OtherIssuer
  <2>1. PICK k \in Key \ {IssuerKey}, w \in Person :
            (Attest(k, w, expiryFrom(now)) \/ Revoke(k, w)) /\ disturbed' = disturbed \cup {w}
    BY <1>3 DEF OtherIssuer
  <2>2. UNCHANGED <<tasks, txs, lastAnswered>>
    BY <1>3 DEF OtherIssuer, answerVars
  <2>3. \A v \in Wallet \ {w} : attestation'[v] = attestation[v]
    BY <2>1 DEF Attest, Revoke, RegistryInv, RegistryTypeOK
  <2> QED BY <2>1, <2>2, <2>3, <1>a DEF Untouched
<1>4. CASE StartStep
  BY <1>4, <1>b DEF StartStep, StartBook, StartOk, StartFails, registryVars, answerVars
<1>5. CASE ReviewStep
  BY <1>5, <1>b DEF ReviewStep, Decide, registryVars, answerVars
<1>6. ASSUME NEW e \in reviews, Replay(e) PROVE RecordInv'
  <2>1. lastAnswered' = lastAnswered
    BY <1>6, ReplayIsOld
  <2> QED BY <1>6, <2>1, <1>b DEF Replay, registryVars
<1>7. ASSUME NEW e \in reviews, Deliver(e) PROVE RecordInv'
  BY <1>7, DeliverKeeps
<1>8. ASSUME NEW t \in tasks, TaskStep(t) PROVE RecordInv'
  <2>1. CASE NotWritten(t)
    <3>1. /\ keep(t, "not-written") /\ t.pc = "chain" /\ UNCHANGED <<txs, attestation>>
          /\ disturbed' = disturbed \cup {t.review.wallet}
      BY <2>1 DEF NotWritten, registryVars
    <3> QED BY <3>1, KeepUndisturbed
  <2>2. CASE NothingToRevoke(t)
    <3>1. /\ keep(t, "nothing-to-revoke") /\ t.pc = "chain"
          /\ UNCHANGED <<txs, attestation, disturbed>>
          /\ Matches(t.review.wallet, t.review)
      BY <2>2 DEF NothingToRevoke, registryVars, Matches
    <3> QED BY <3>1, KeepUndisturbed
  <2>3. CASE Confirmed(t)
    <3> DEFINE status == IF t.review.answer = "GREEN" THEN "attested" ELSE "revoked"
    <3>1. keep(t, status) /\ t.pc = "landed" /\ UNCHANGED <<txs, attestation, disturbed>>
      BY <2>3 DEF Confirmed, registryVars
    <3>2. t.review.wallet \in disturbed \/ Matches(t.review.wallet, t.review)
      BY <3>1, OfTask DEF RecordInv, Undisturbed, TaskAlone
    <3> HIDE DEF status
    <3> QED BY <3>1, <3>2, KeepUndisturbed
  <2>4. CASE SendTransaction(t)
    BY <2>4, SendKeeps
  <2> QED BY <1>8, <2>1, <2>2, <2>3, <2>4 DEF TaskStep
<1>9. ASSUME NEW x \in txs, Land(x) \/ Refuse(x) \/ Lose(x) PROVE RecordInv'
  BY <1>9, LandKeeps, DropKeeps
<1>10. ASSUME NEW t \in tasks, Fail(t) PROVE RecordInv'
  BY <1>10, FailKeeps
<1>11. CASE Restart
  <2>1. tasks' = {} /\ lastAnswered' = [w \in Wallet |-> None]
    BY <1>11 DEF Restart
  <2> QED BY <2>1, EmptyIsUndisturbed DEF RecordInv
<1> QED BY <1>1, <1>2, <1>3, <1>4, <1>5, <1>6, <1>7, <1>8, <1>9, <1>10, <1>11
        DEF KycNext, Retry, NetworkStep

-----------------------------------------------------------------------------
(* How many verifications a wallet starts. *)

LEMMA SubsetCount ==
    ASSUME NEW S, NEW T, IsFiniteSet(T), S \subseteq T
    PROVE  IsFiniteSet(S) /\ Cardinality(S) \in Nat /\ Cardinality(T) \in Nat
           /\ Cardinality(S) <= Cardinality(T)
  BY FS_Subset, FS_CardinalityType

LEMMA UnionCount ==
    ASSUME NEW S, NEW T, IsFiniteSet(S), IsFiniteSet(T)
    PROVE  /\ IsFiniteSet(S \cup T) /\ Cardinality(S \cup T) \in Nat
           /\ Cardinality(S) \in Nat /\ Cardinality(T) \in Nat
           /\ Cardinality(S \cup T) <= Cardinality(S) + Cardinality(T)
<1>1. IsFiniteSet(S \cup T) /\ Cardinality(S \cup T) =
          Cardinality(S) + Cardinality(T) - Cardinality(S \cap T)
  BY FS_Union
<1>2. Cardinality(S \cap T) \in Nat /\ Cardinality(S) \in Nat /\ Cardinality(T) \in Nat
      /\ Cardinality(S \cup T) \in Nat
  BY <1>1, SubsetCount, FS_CardinalityType
<1> QED BY <1>1, <1>2

LEMMA StartsEmpty ==
    ASSUME \A w \in Wallet : startTimes[w] = {} /\ links[w] = {} /\ overfreed[w] = 0,
           \A b \in Tab : starting[b] = None
    PROVE  WithinHour
<1> SUFFICES ASSUME NEW w \in Wallet
             PROVE  /\ IsFiniteSet(startTimes[w]) /\ Cardinality(recent(w)) <= MaxStarts
                    /\ IsFiniteSet(Lost(w)) /\ Cardinality(Lost(w)) <= overfreed[w]
  BY DEF WithinHour
<1>1. recent(w) = {} /\ Lost(w) = {}
  BY DEF recent, Lost, HeldBy
<1> QED BY <1>1, FS_EmptySet, KycAssumption

LEMMA StartStart == IdentityInit => StartInv
<1> SUFFICES ASSUME IdentityInit PROVE StartInv
  OBVIOUS
<1>1. /\ booked = 0 /\ startTimes = [w \in Wallet |-> {}] /\ links = [w \in Wallet |-> {}]
      /\ overfreed = [w \in Wallet |-> 0] /\ starting = [b \in Tab |-> None]
  BY DEF IdentityInit, KycInit
<1>2. WithinHour
  BY <1>1, StartsEmpty
<1>3. StartType /\ Numbered
  BY <1>1 DEF StartType, Numbered
<1> QED BY <1>2, <1>3 DEF StartInv

(* As time goes by, bookings leave the hour. *)
LEMMA TimePasses ==
    ASSUME RegistryInv, StartInv, UNCHANGED startVars, now' \in Nat, now' >= now
    PROVE  StartInv'
<1> USE DEF startVars
<1>0. now \in Nat
  BY DEF RegistryInv, RegistryTypeOK
<1>1. StartType'
  BY <1>0 DEF StartInv, StartType, Slot
<1>2. Numbered'
  BY DEF StartInv, Numbered
<1>3. ASSUME NEW w \in Wallet
      PROVE  /\ IsFiniteSet(startTimes'[w]) /\ Cardinality(recent(w)') <= MaxStarts
             /\ IsFiniteSet(Lost(w)') /\ Cardinality(Lost(w)') <= overfreed'[w]
  <2>1. /\ IsFiniteSet(startTimes[w]) /\ Cardinality(recent(w)) <= MaxStarts
        /\ IsFiniteSet(Lost(w)) /\ Cardinality(Lost(w)) <= overfreed[w]
        /\ startTimes[w] \subseteq Slot /\ overfreed[w] \in Nat
    BY DEF StartInv, WithinHour, StartType
  <2>a. \A u \in Slot : now' - u.at < HOUR => now - u.at < HOUR
    BY <1>0, KycAssumption DEF Slot
  <2>b. recent(w)' \subseteq recent(w)
    BY <2>1, <2>a DEF recent
  <2>c. \A u : HeldBy(w, u)' = HeldBy(w, u)
    BY DEF HeldBy
  <2>2. recent(w)' \subseteq recent(w) /\ Lost(w)' \subseteq Lost(w)
    BY <2>a, <2>b, <2>c DEF Lost
  <2>3. recent(w) \subseteq startTimes[w]
    BY DEF recent
  <2>4. /\ Cardinality(recent(w)') \in Nat /\ Cardinality(recent(w)) \in Nat
        /\ Cardinality(recent(w)') <= Cardinality(recent(w))
    BY <2>1, <2>2, <2>3, SubsetCount
  <2>5. /\ IsFiniteSet(Lost(w)') /\ Cardinality(Lost(w)') \in Nat /\ Cardinality(Lost(w)) \in Nat
        /\ Cardinality(Lost(w)') <= Cardinality(Lost(w))
    BY <2>1, <2>2, SubsetCount
  <2> QED BY <2>1, <2>4, <2>5, KycAssumption
<1>4. WithinHour'
  BY <1>3 DEF WithinHour, recent
<1> QED BY <1>1, <1>2, <1>4 DEF StartInv

(* The bookings of another wallet, or none of this one's that counts. *)
LEMMA WalletKept ==
    ASSUME RegistryInv, StartInv, UNCHANGED now, NEW w \in Wallet,
           startTimes'[w] = startTimes[w], overfreed'[w] = overfreed[w],
           \A u \in Slot : HeldBy(w, u)' => HeldBy(w, u)
    PROVE  /\ IsFiniteSet(startTimes'[w]) /\ Cardinality(recent(w)') <= MaxStarts
           /\ IsFiniteSet(Lost(w)') /\ Cardinality(Lost(w)') <= overfreed'[w]
<1>1. /\ IsFiniteSet(startTimes[w]) /\ Cardinality(recent(w)) <= MaxStarts
      /\ IsFiniteSet(Lost(w)) /\ Cardinality(Lost(w)) <= overfreed[w] /\ overfreed[w] \in Nat
  BY DEF StartInv, StartType, WithinHour
<1>2. recent(w)' = recent(w)
  BY DEF recent
<1>3. Lost(w)' \subseteq Lost(w)
  BY DEF Lost
<1>4. /\ IsFiniteSet(Lost(w)') /\ Cardinality(Lost(w)') \in Nat /\ Cardinality(Lost(w)) \in Nat
      /\ Cardinality(Lost(w)') <= Cardinality(Lost(w))
  BY <1>1, <1>3, SubsetCount
<1> QED BY <1>1, <1>2, <1>4

LEMMA BookKeeps ==
    ASSUME RegistryInv, StartInv, NEW b \in Tab, NEW w \in Person, StartBook(b, w)
    PROVE  StartInv'
<1> DEFINE new == Booking
           entry == [wallet |-> w, slot |-> new]
<1>0. now \in Nat /\ booked \in Nat /\ w \in Wallet /\ StartType /\ Numbered /\ WithinHour
  BY KycAssumption DEF RegistryInv, RegistryTypeOK, StartInv, StartType
<1>1. /\ starting[b] = None /\ Cardinality(recent(w)) < MaxStarts
      /\ startTimes' = [startTimes EXCEPT ![w] = recent(w) \cup {new}]
      /\ booked' = booked + 1 /\ starting' = [starting EXCEPT ![b] = entry]
      /\ UNCHANGED <<now, links, overfreed>>
  BY DEF StartBook, registryVars
<1>2. new \in Slot /\ new.at = now /\ new.n = booked + 1
  BY <1>0 DEF Booking, Slot
<1>3. entry \in [wallet: Person, slot: Slot] /\ entry.wallet = w /\ entry.slot = new
  BY <1>2
<1> HIDE DEF new, entry
<1>4. recent(w) \subseteq startTimes[w] /\ recent(w) \subseteq Slot
  BY <1>0 DEF recent, StartType
<1>5. StartType'
  <2>1. startTimes' \in [Wallet -> SUBSET Slot]
    BY <1>0, <1>1, <1>2, <1>4 DEF StartType
  <2>2. starting' \in [Tab -> [wallet: Person, slot: Slot] \cup {None}]
    BY <1>0, <1>1, <1>3 DEF StartType
  <2>3. \A c \in Tab : starting'[c] # None => starting'[c].slot.at <= now'
    BY <1>0, <1>1, <1>2, <1>3 DEF StartType
  <2>4. booked' \in Nat /\ links' \in [Wallet -> SUBSET Slot] /\ overfreed' \in [Wallet -> Nat]
    BY <1>0, <1>1 DEF StartType
  <2> QED BY <2>1, <2>2, <2>3, <2>4 DEF StartType, Slot
(* The booking is new: every other number is smaller. *)
<1>6. /\ \A v \in Wallet : new \notin links[v]
      /\ \A c \in Tab : starting[c] # None => starting[c].slot # new
  BY <1>0, <1>2 DEF Numbered
<1>a. \A c \in Tab : starting'[c] = IF c = b THEN entry ELSE starting[c]
  BY <1>0, <1>1 DEF StartType
<1>7. Numbered'
  <2>1. \A v \in Wallet : \A u \in links'[v] : u.n <= booked'
    <3>1. ASSUME NEW v \in Wallet, NEW u \in links[v] PROVE u.n <= booked + 1
      <4>1. u \in Slot /\ u.n <= booked
        BY <1>0 DEF StartType, Numbered
      <4> QED BY <4>1, <1>0 DEF Slot
    <3> QED BY <3>1, <1>1
  <2>2. ASSUME NEW c \in Tab, starting'[c] # None
        PROVE  /\ starting'[c].slot.n <= booked'
               /\ \A v \in Wallet : starting'[c].slot \notin links'[v]
               /\ \A d \in Tab : starting'[d] # None /\ starting'[d].slot = starting'[c].slot => d = c
    <3>1. CASE c = b
      BY <3>1, <1>0, <1>1, <1>2, <1>3, <1>6, <1>a
    <3>2. CASE c # b
      <4>1. starting'[c] = starting[c] /\ starting[c].slot \in Slot /\ starting[c].slot.n <= booked
        BY <3>2, <2>2, <1>0, <1>a DEF StartType, Numbered
      <4>2. starting'[c].slot.n <= booked'
        BY <4>1, <1>0, <1>1 DEF Slot
      <4>3. \A v \in Wallet : starting'[c].slot \notin links'[v]
        BY <4>1, <2>2, <1>0, <1>1 DEF Numbered
      <4>4. ASSUME NEW d \in Tab, starting'[d] # None, starting'[d].slot = starting'[c].slot
            PROVE  d = c
        BY <4>4, <4>1, <2>2, <1>0, <1>3, <1>6, <1>a DEF Numbered
      <4> QED BY <4>2, <4>3, <4>4
    <3> QED BY <3>1, <3>2
  <2> QED BY <2>1, <2>2 DEF Numbered
<1>8. ASSUME NEW v \in Wallet
      PROVE  /\ IsFiniteSet(startTimes'[v]) /\ Cardinality(recent(v)') <= MaxStarts
             /\ IsFiniteSet(Lost(v)') /\ Cardinality(Lost(v)') <= overfreed'[v]
  <2>1. ASSUME NEW u \in Slot, HeldBy(v, u)' PROVE HeldBy(v, u) \/ (v = w /\ u = new)
    BY <2>1, <1>0, <1>1, <1>3, <1>a DEF HeldBy
  <2>2. CASE v # w
    <3>1. startTimes'[v] = startTimes[v] /\ overfreed'[v] = overfreed[v]
      BY <2>2, <1>0, <1>1 DEF StartType
    <3> QED BY <3>1, <2>1, <2>2, <1>1, WalletKept
  <2>3. CASE v = w
    <3>1. startTimes'[w] = recent(w) \cup {new}
      BY <1>0, <1>1 DEF StartType
    <3>2. /\ IsFiniteSet(recent(w)) /\ Cardinality(recent(w)) \in Nat
      BY <1>0, <1>4, SubsetCount DEF WithinHour
    <3>3. /\ IsFiniteSet(startTimes'[w]) /\ Cardinality(startTimes'[w]) \in Nat
          /\ Cardinality(startTimes'[w]) <= Cardinality(recent(w)) + 1
      <4> DEFINE S == recent(w)
      <4>1. IsFiniteSet(S) /\ Cardinality(S) \in Nat
        BY <3>2
      <4> HIDE DEF S
      <4>2. /\ IsFiniteSet(S \cup {new})
            /\ Cardinality(S \cup {new}) = IF new \in S THEN Cardinality(S) ELSE Cardinality(S) + 1
        BY <4>1, FS_AddElement
      <4>3. Cardinality(S \cup {new}) \in Nat /\ Cardinality(S \cup {new}) <= Cardinality(S) + 1
        BY <4>1, <4>2
      <4> QED BY <4>2, <4>3, <3>1 DEF S
    <3>4. recent(w)' \subseteq startTimes'[w]
      BY DEF recent
    <3>5. Cardinality(recent(w)') <= MaxStarts
      BY <3>2, <3>3, <3>4, <1>1, SubsetCount, KycAssumption
    <3>6. Lost(w)' \subseteq Lost(w)
      <4>1. ASSUME NEW u \in Slot, HeldBy(w, u)', u \notin startTimes'[w], now - u.at < HOUR
            PROVE  HeldBy(w, u) /\ u \notin startTimes[w]
        BY <4>1, <2>1, <2>3, <3>1 DEF recent
      <4> QED BY <4>1, <1>1 DEF Lost
    <3>7. IsFiniteSet(Lost(w)) /\ Cardinality(Lost(w)) <= overfreed[w] /\ overfreed[w] \in Nat
      BY <1>0 DEF WithinHour, StartType
    <3>8. /\ IsFiniteSet(Lost(w)') /\ Cardinality(Lost(w)') \in Nat /\ Cardinality(Lost(w)) \in Nat
          /\ Cardinality(Lost(w)') <= Cardinality(Lost(w))
      BY <3>6, <3>7, SubsetCount
    <3> QED BY <2>3, <3>3, <3>5, <3>7, <3>8, <1>1
  <2> QED BY <2>2, <2>3
<1>9. WithinHour'
  BY <1>8 DEF WithinHour
<1> QED BY <1>5, <1>7, <1>9 DEF StartInv

LEMMA OkKeeps ==
    ASSUME RegistryInv, StartInv, NEW b \in Tab, StartOk(b)
    PROVE  StartInv'
<1> DEFINE w == starting[b].wallet
           s == starting[b].slot
<1>0. now \in Nat /\ StartType /\ Numbered /\ WithinHour
  BY DEF RegistryInv, RegistryTypeOK, StartInv
<1>1. /\ starting[b] # None /\ links' = [links EXCEPT ![w] = @ \cup {s}]
      /\ starting' = [starting EXCEPT ![b] = None]
      /\ UNCHANGED <<now, startTimes, booked, overfreed>>
  BY DEF StartOk, registryVars
<1>2. starting[b] \in [wallet: Person, slot: Slot] /\ w \in Wallet /\ s \in Slot
  BY <1>0, <1>1, KycAssumption DEF StartType
<1>3. s.n <= booked
      /\ \A c \in Tab : c # b /\ starting[c] # None => starting[c].slot # s
  BY <1>0, <1>1 DEF Numbered
<1>4. \A v \in Wallet : links'[v] = IF v = w THEN links[v] \cup {s} ELSE links[v]
  BY <1>0, <1>1 DEF StartType
<1>5. \A c \in Tab : starting'[c] = IF c = b THEN None ELSE starting[c]
  BY <1>0, <1>1 DEF StartType
<1>a. \A v \in Wallet, u \in Slot : HeldBy(v, u)' => HeldBy(v, u)
  BY <1>1, <1>4, <1>5 DEF HeldBy
<1> HIDE DEF w, s
<1>6. StartType'
  BY <1>0, <1>1, <1>2, <1>5 DEF StartType, Slot
<1>7. Numbered'
  <2>1. \A v \in Wallet : \A u \in links'[v] : u.n <= booked'
    BY <1>0, <1>1, <1>3, <1>4 DEF Numbered
  <2>2. ASSUME NEW c \in Tab, starting'[c] # None
        PROVE  /\ starting'[c].slot.n <= booked'
               /\ \A v \in Wallet : starting'[c].slot \notin links'[v]
               /\ \A d \in Tab : starting'[d] # None /\ starting'[d].slot = starting'[c].slot => d = c
    <3>1. c # b /\ starting'[c] = starting[c]
      BY <2>2, <1>5
    <3> QED BY <3>1, <2>2, <1>0, <1>1, <1>3, <1>4, <1>5 DEF Numbered
  <2> QED BY <2>1, <2>2 DEF Numbered
<1>8. WithinHour'
  BY <1>1, <1>a, WalletKept DEF WithinHour
<1> QED BY <1>6, <1>7, <1>8 DEF StartInv

(* A start that fails gives back the bookings of its instant.  Its own is   *)
(* one of them or was lost before, so one less is lost than were given back. *)
LEMMA StartFailsKeeps ==
    ASSUME RegistryInv, StartInv, NEW b \in Tab, StartFails(b)
    PROVE  StartInv'
<1> PICK w, s : w = starting[b].wallet /\ s = starting[b].slot
  OBVIOUS
<1> DEFINE removed == startTimes[w] \ released(w, s)
           freed == Cardinality(removed)
<1>0. now \in Nat /\ StartType /\ Numbered /\ WithinHour
  BY DEF RegistryInv, RegistryTypeOK, StartInv
<1>1. /\ starting[b] # None
      /\ startTimes' = [startTimes EXCEPT ![w] = released(w, s)]
      /\ overfreed' = [overfreed EXCEPT ![w] = IF freed > 1 THEN @ + freed - 1 ELSE @]
      /\ starting' = [starting EXCEPT ![b] = None]
      /\ UNCHANGED <<now, links, booked>>
  BY DEF StartFails, registryVars
<1>2. starting[b] \in [wallet: Person, slot: Slot] /\ w \in Wallet /\ s \in Slot
  BY <1>0, <1>1, KycAssumption DEF StartType
<1>3. /\ \A v \in Wallet : s \notin links[v]
      /\ \A c \in Tab : c # b /\ starting[c] # None => starting[c].slot # s
  BY <1>0, <1>1 DEF Numbered
<1>4. \A c \in Tab : starting'[c] = IF c = b THEN None ELSE starting[c]
  BY <1>0, <1>1 DEF StartType
<1>5. /\ HeldBy(w, s)
      /\ \A v \in Wallet, u \in Slot : HeldBy(v, u)' => HeldBy(v, u) /\ u # s
  BY <1>1, <1>2, <1>3, <1>4 DEF HeldBy
<1>6. /\ startTimes[w] \subseteq Slot /\ released(w, s) \subseteq startTimes[w]
      /\ removed = {u \in startTimes[w] : u.at = s.at}
      /\ IsFiniteSet(startTimes[w]) /\ IsFiniteSet(removed) /\ freed \in Nat
  <2>1. startTimes[w] \subseteq Slot /\ IsFiniteSet(startTimes[w])
    BY <1>0, <1>2 DEF StartType, WithinHour
  <2>2. released(w, s) \subseteq startTimes[w] /\ removed = {u \in startTimes[w] : u.at = s.at}
    BY DEF released
  <2> QED BY <2>1, <2>2, SubsetCount
<1>b. overfreed[w] \in Nat
  BY <1>0, <1>2 DEF StartType
<1> HIDE DEF removed, freed
<1>7. StartType'
  <2>1. startTimes' \in [Wallet -> SUBSET Slot]
    BY <1>0, <1>1, <1>2, <1>6 DEF StartType
  <2>2. (IF freed > 1 THEN overfreed[w] + freed - 1 ELSE overfreed[w]) \in Nat
    BY <1>6, <1>b
  <2>3. overfreed' \in [Wallet -> Nat]
    BY <1>0, <1>1, <1>2, <2>2 DEF StartType
  <2>4. starting' \in [Tab -> [wallet: Person, slot: Slot] \cup {None}]
    BY <1>0, <1>1 DEF StartType
  <2>5. \A c \in Tab : starting'[c] # None => starting'[c].slot.at <= now'
    BY <1>0, <1>1, <1>4 DEF StartType
  <2>6. booked' \in Nat /\ links' \in [Wallet -> SUBSET Slot]
    BY <1>0, <1>1 DEF StartType
  <2> QED BY <2>1, <2>3, <2>4, <2>5, <2>6 DEF StartType, Slot
<1>8. Numbered'
  <2>1. \A v \in Wallet : \A u \in links'[v] : u.n <= booked'
    BY <1>0, <1>1 DEF Numbered
  <2>2. ASSUME NEW c \in Tab, starting'[c] # None
        PROVE  /\ starting'[c].slot.n <= booked'
               /\ \A v \in Wallet : starting'[c].slot \notin links'[v]
               /\ \A d \in Tab : starting'[d] # None /\ starting'[d].slot = starting'[c].slot => d = c
    <3>1. c # b /\ starting'[c] = starting[c]
      BY <2>2, <1>4
    <3> QED BY <3>1, <2>2, <1>0, <1>1, <1>4 DEF Numbered
  <2> QED BY <2>1, <2>2 DEF Numbered
<1>9. ASSUME NEW v \in Wallet
      PROVE  /\ IsFiniteSet(startTimes'[v]) /\ Cardinality(recent(v)') <= MaxStarts
             /\ IsFiniteSet(Lost(v)') /\ Cardinality(Lost(v)') <= overfreed'[v]
  <2>1. CASE v # w
    <3>1. startTimes'[v] = startTimes[v] /\ overfreed'[v] = overfreed[v]
      BY <2>1, <1>0, <1>1 DEF StartType
    <3> QED BY <3>1, <1>1, <1>5, WalletKept
  <2>2. CASE v = w
    <3>1. /\ startTimes'[w] = released(w, s)
          /\ overfreed'[w] = IF freed > 1 THEN overfreed[w] + freed - 1 ELSE overfreed[w]
      BY <1>0, <1>1, <1>2 DEF StartType
    <3>2. IsFiniteSet(startTimes'[w])
      BY <3>1, <1>6, SubsetCount
    <3>3. recent(w)' \subseteq recent(w) /\ recent(w) \subseteq startTimes[w]
      BY <3>1, <1>1, <1>6 DEF recent
    <3>4. Cardinality(recent(w)') <= MaxStarts
      <4>1. /\ Cardinality(recent(w)') \in Nat /\ Cardinality(recent(w)) \in Nat
            /\ Cardinality(recent(w)') <= Cardinality(recent(w))
        BY <3>3, <1>6, SubsetCount
      <4>2. Cardinality(recent(w)) <= MaxStarts
        BY <1>0, <1>2 DEF WithinHour
      <4> QED BY <4>1, <4>2, KycAssumption
    <3>5. IsFiniteSet(Lost(w)) /\ Cardinality(Lost(w)) \in Nat /\ Cardinality(Lost(w)) <= overfreed[w]
      BY <1>0, <1>2, FS_CardinalityType DEF WithinHour
    <3>6. \A u \in Lost(w)' : /\ u \in Slot /\ u # s /\ now - u.at < HOUR
                              /\ u \in Lost(w) \cup removed
      BY <3>1, <1>1, <1>2, <1>5 DEF Lost, removed
    <3>7. IsFiniteSet(Lost(w)') /\ Cardinality(Lost(w)') <= overfreed'[w]
      <4>1. CASE now - s.at < HOUR
        <5> DEFINE L == Lost(w) \cup removed
        <5>1. s \in L
          BY <4>1, <1>2, <1>5, <1>6 DEF Lost
        <5>2. /\ IsFiniteSet(L) /\ Cardinality(L) \in Nat
              /\ Cardinality(L) <= Cardinality(Lost(w)) + freed
          BY <3>5, <1>6, UnionCount DEF freed
        <5>3. Lost(w)' \subseteq L \ {s}
          BY <3>6
        <5> HIDE DEF L
        <5>4. IsFiniteSet(L \ {s}) /\ Cardinality(L \ {s}) = Cardinality(L) - 1
          BY <5>1, <5>2, FS_RemoveElement
        <5>5. /\ IsFiniteSet(Lost(w)') /\ Cardinality(Lost(w)') \in Nat
              /\ Cardinality(Lost(w)') <= Cardinality(L \ {s})
          BY <5>3, <5>4, SubsetCount
        <5> QED BY <3>1, <3>5, <5>2, <5>4, <5>5, <1>6, <1>b
      <4>2. CASE ~(now - s.at < HOUR)
        <5>1. Lost(w)' \subseteq Lost(w)
          BY <3>6, <4>2, <1>6
        <5>2. /\ IsFiniteSet(Lost(w)') /\ Cardinality(Lost(w)') \in Nat
              /\ Cardinality(Lost(w)') <= Cardinality(Lost(w))
          BY <5>1, <3>5, SubsetCount
        <5> QED BY <3>1, <3>5, <5>2, <1>6, <1>b
      <4> QED BY <4>1, <4>2
    <3> QED BY <2>2, <3>2, <3>4, <3>7
  <2> QED BY <2>1, <2>2
<1>c. WithinHour'
  BY <1>9 DEF WithinHour
<1> QED BY <1>7, <1>8, <1>c DEF StartInv

LEMMA StartKeeps ==
    ASSUME RegistryInv, StartInv, [KycNext]_identityVars
    PROVE  StartInv'
<1>0. now \in Nat
  BY DEF RegistryInv, RegistryTypeOK
<1>1. CASE StartStep
  BY <1>1, BookKeeps, OkKeeps, StartFailsKeeps DEF StartStep
<1>2. CASE Restart
  <2>1. /\ booked' = 0 /\ startTimes' = [w \in Wallet |-> {}] /\ links' = [w \in Wallet |-> {}]
        /\ overfreed' = [w \in Wallet |-> 0] /\ starting' = [b \in Tab |-> None]
    BY <1>2 DEF Restart
  <2>2. WithinHour'
    <3>1. ASSUME NEW w \in Wallet
          PROVE  /\ IsFiniteSet(startTimes'[w]) /\ Cardinality(recent(w)') <= MaxStarts
                 /\ IsFiniteSet(Lost(w)') /\ Cardinality(Lost(w)') <= overfreed'[w]
      <4>1. recent(w)' = {} /\ Lost(w)' = {} /\ startTimes'[w] = {} /\ overfreed'[w] = 0
        BY <2>1 DEF recent, Lost, HeldBy
      <4> QED BY <4>1, FS_EmptySet, KycAssumption
    <3> QED BY <3>1 DEF WithinHour
  <2>3. StartType' /\ Numbered'
    BY <2>1 DEF StartType, Numbered, Slot
  <2> QED BY <2>2, <2>3 DEF StartInv
<1>3. CASE UNCHANGED startVars /\ now' \in Nat /\ now' >= now
  BY <1>3, TimePasses
<1>4. CASE ChainStep
  <2>1. UNCHANGED startVars
    BY <1>4 DEF ChainStep, kycVars, startVars
  <2>2. now' = now \/ now' = now + 1
    BY <1>4 DEF ChainStep, AdminStep, InitConfig, SetMintAllowed, SetAdmin, SetIssuer,
       SetRequireKyc, Store, MarketStep, CreateListing, CloseListing, Apply, CloseApplication,
       RegistryTick
  <2> QED BY <2>1, <2>2, <1>0, <1>3
<1>5. CASE OtherIssuer \/ \E x \in txs : Land(x)
  <2>1. UNCHANGED <<startVars, now>>
    BY <1>5 DEF OtherIssuer, Land, Execute, Attest, Revoke
  <2> QED BY <2>1, <1>0, <1>3
<1>6. CASE UNCHANGED identityVars
  BY <1>6, <1>0, <1>3 DEF identityVars, kycVars, startVars, registryVars
<1>7. CASE ReviewStep \/ Retry \/ (\E t \in tasks : TaskStep(t) \/ Fail(t))
           \/ \E x \in txs : Refuse(x) \/ Lose(x)
  <2>1. UNCHANGED <<startVars, now>>
    BY <1>7 DEF ReviewStep, Decide, Retry, Deliver, Replay, TaskStep, NotWritten, NothingToRevoke,
       SendTransaction, Confirmed, Fail, Refuse, Lose, registryVars
  <2> QED BY <2>1, <1>0, <1>3
<1> QED BY <1>1, <1>2, <1>4, <1>5, <1>6, <1>7 DEF KycNext, NetworkStep

(* The links of the last hour are bookings of it or lost ones. *)
LEMMA LinksBounded == ASSUME RegistryInv, StartInv PROVE StartsBounded
<1> SUFFICES ASSUME NEW w \in Person
             PROVE  Cardinality({l \in links[w] : now - l.at < HOUR}) <= MaxStarts + overfreed[w]
  BY DEF StartsBounded
<1> DEFINE L == {l \in links[w] : now - l.at < HOUR}
           R == recent(w)
           B == Lost(w)
<1>1. /\ links[w] \subseteq Slot /\ IsFiniteSet(startTimes[w]) /\ overfreed[w] \in Nat
      /\ Cardinality(R) <= MaxStarts /\ IsFiniteSet(B) /\ Cardinality(B) <= overfreed[w]
  BY KycAssumption DEF StartInv, StartType, WithinHour
<1>2. L \subseteq R \cup B
  BY <1>1 DEF recent, Lost, HeldBy
<1>3. IsFiniteSet(R)
  BY <1>1, SubsetCount DEF recent
<1> HIDE DEF L, R, B
<1>4. /\ IsFiniteSet(R \cup B) /\ Cardinality(R) \in Nat /\ Cardinality(B) \in Nat
      /\ Cardinality(R \cup B) <= Cardinality(R) + Cardinality(B)
  BY <1>1, <1>3, UnionCount
<1>5. Cardinality(L) \in Nat /\ Cardinality(L) <= Cardinality(R \cup B)
      /\ Cardinality(R \cup B) \in Nat
  BY <1>2, <1>4, SubsetCount
<1>6. Cardinality(L) <= MaxStarts + overfreed[w]
  BY <1>1, <1>4, <1>5, KycAssumption
<1> QED BY <1>6 DEF L

-----------------------------------------------------------------------------
(* The invariant, and what follows from it. *)
KycInv == RegistryInv /\ MemoryInv /\ TrustInv /\ RefsInv /\ RecordInv /\ StartInv

LEMMA KycInvInit == IdentityInit => KycInv
  BY RegistryStart, MemoryStart, TrustStart, RefsStart, RecordStart, StartStart
     DEF KycInv, IdentityInit

LEMMA KycInvStep == ASSUME KycInv, [KycNext]_identityVars PROVE KycInv'
<1>1. /\ RegistryInv /\ MemoryInv /\ TrustInv /\ RefsInv /\ RecordInv /\ StartInv /\ StartType
  BY DEF KycInv, StartInv
<1>2. RegistryInv'
  BY <1>1, KycRegistry, RegistryKeeps
<1>3. MemoryInv' /\ TrustInv' /\ RefsInv' /\ RecordInv' /\ StartInv'
  BY <1>1, MemoryKeeps, TrustKeeps, RefsKeeps, RecordKeeps, StartKeeps
<1> QED BY <1>2, <1>3 DEF KycInv

(* Every reachable state of the identity service and the chain satisfies    *)
(* the invariant.                                                           *)
THEOREM KycInvariant == IdentitySpec => []KycInv
<1>1. KycInv /\ [KycNext]_identityVars => KycInv'
  BY KycInvStep
<1> QED BY KycInvInit, <1>1, PTL DEF IdentitySpec

(* While the gate is on, an application names a wallet the issuer of the    *)
(* moment has vouched for and not revoked since: apply.rs behind            *)
(* enforce_kyc, whoever administers the program and whatever lands.         *)
THEOREM ApplicationsVouched == IdentitySpec => AppliedOnlyVouched
<1>1. ASSUME KycInv, [KycNext]_identityVars
      PROVE  [\A a \in applications' \ applications :
                  config.require_kyc =>
                      /\ <<config.issuer, a.tenant>> \in vouches
                      /\ attestation[a.tenant].expires_at \notin 1 .. now]_registryVars
  <2>1. RegistryInv /\ (RegistryStep \/ UNCHANGED registryVars)
    BY <1>1, KycRegistry DEF KycInv
  <2> QED BY <2>1, ApplyIsVouched
<1>2. KycInv /\ [KycNext]_identityVars =>
          [\A a \in applications' \ applications :
                  config.require_kyc =>
                      /\ <<config.issuer, a.tenant>> \in vouches
                      /\ attestation[a.tenant].expires_at \notin 1 .. now]_registryVars
  BY <1>1
<1> QED BY KycInvariant, <1>2, PTL DEF IdentitySpec, AppliedOnlyVouched

(* An attestation of the backend's key rests on an approval of that wallet  *)
(* and ends within MAX_AGE + VALIDITY of it, however often and late the     *)
(* webhook is delivered, lost, retried or landed after a restart (kyc.ts).  *)
THEOREM TrustAlwaysExpires == IdentitySpec => []TrustExpires
<1>1. KycInv => TrustExpires
  BY DEF KycInv, TrustInv
<1> QED BY KycInvariant, <1>1, PTL

(* The review answered last about a wallet is what the chain says of it,    *)
(* unless another writer was on its way at the time (applyEvent).           *)
THEOREM AnswersMatchChain == IdentitySpec => []RecordMatchesChain
<1>1. KycInv => RecordMatchesChain
  BY KycAssumption DEF KycInv, RecordInv, Undisturbed, AnswerStands, Matches, RecordMatchesChain
<1> QED BY KycInvariant, <1>1, PTL

(* The bookings of start hold a wallet to MaxStarts links an hour, up to    *)
(* the bookings given back in place of another, and the memory of the       *)
(* process stays consistent (start, release, keep).                         *)
THEOREM StartsAlwaysSound == IdentitySpec => []StartsSound
<1>1. KycInv => KycTypeOK
  BY DEF KycInv, RegistryInv, MemoryInv, VendorType, NetType, RecordType, AnswerType, StartInv,
         StartType, Task, Tx, KycTypeOK
<1>2. KycInv => StartsBounded
  BY LinksBounded DEF KycInv
<1>3. KycInv => StartsSound
  BY <1>1, <1>2 DEF StartsSound
<1> QED BY KycInvariant, <1>3, PTL
=============================================================================
