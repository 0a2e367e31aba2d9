------------------------------- MODULE MCKyc -------------------------------
(***************************************************************************)
(* A small instance of Kyc for TLC.  The counters that bound it are the    *)
(* clock, the steps of the administrator and the vendor's reviews; several *)
(* starts and several reviews are not explored together, nor an open       *)
(* market and a review that is being handled.                              *)
(***************************************************************************)
EXTENDS Kyc

CONSTANTS MaxNow, MaxReviews, alice, lord, boot, spare

wallets == {alice, lord}
people  == {alice}
keys    == {boot, spare}

(* Mints and the hand-over of the admin are tried out before there is an    *)
(* issuer.                                                                  *)
MCAdminStep ==
    /\ AdminStep
    /\ config # Absent =>
          /\ config'.mints # config.mints \/ config'.admin # config.admin
                => config.issuer = NoKey
          /\ config'.issuer # config.issuer
                => config.mints = {} /\ config.admin = boot /\ tasks = {}
(* Only one wallet lets, and only at the last instant. *)
MCMarketStep ==
    /\ now = MaxNow /\ tasks = {} /\ txs = {}
    /\ MarketStep /\ listings' \subseteq {<<lord, 1>>}

(* A behaviour has one start, at once, and then administration and reviews, *)
(* or it has several starts.                                                *)
oneStart == links[alice] = {[at |-> 0, n |-> 1]} /\ \A b \in Tab : starting[b] = None
MCStartStep  == reviews = {} /\ config = Absent /\ StartStep
MCReviewStep == config # Absent /\ now = 0 /\ Cardinality(reviews) < MaxReviews /\ ReviewStep
MCChainStep ==
    /\ \/ oneStart /\ MCAdminStep
       \/ config # Absent /\ MCAdminStep
       \/ MCMarketStep
       \/ now < MaxNow /\ RegistryTick
    /\ UNCHANGED kycVars

MCKycNext ==
    \/ MCChainStep \/ (now > 0 /\ OtherIssuer) \/ MCStartStep \/ MCReviewStep
    \/ Retry \/ (\E t \in tasks : TaskStep(t)) \/ NetworkStep
    \/ (\E t \in tasks : Fail(t)) \/ (\E x \in txs : Lose(x)) \/ Restart

(* Fairness: the vendor repeats a delivery until it is answered, the        *)
(* process runs its tasks, and the network executes what it does not lose;  *)
(* no order among them is assumed.                                          *)
BackendStep ==
    \/ \E e \in reviews \ answered : Deliver(e) \/ Replay(e)
    \/ \E t \in tasks : TaskStep(t)
    \/ NetworkStep
MCIdentitySpec ==
    IdentityInit /\ [][MCKycNext]_identityVars /\ WF_identityVars(BackendStep)
=============================================================================
