------------------------------ MODULE MCExits ------------------------------
(***************************************************************************)
(* The ways out of a lease, for liveness.  The initial state chooses who   *)
(* can be counted on; of everybody else nothing is assumed.                *)
(***************************************************************************)
EXTENDS MCLease

VARIABLE diligent   \* the tenant pays in time and rejects in time

(* A diligent tenant: pays in time, answers every proposal with a rejection *)
(* before its window closes and signs nothing else away.  The landlord and  *)
(* the clock are free otherwise.                                            *)
DiligentTenant == FundDeposit \/ PayRent(terms.rent) \/ AbandonDispute
                  \/ EscalateToMediation \/ ClaimDeposit \/ ExpireMediation("tenant")
NothingDueFromTenant ==
    /\ status = "Active" /\ paid_count < terms.term => now < due
    /\ status = "Disputed" => now + 1 < dispute_deadline
PatientTick == NothingDueFromTenant /\ BoundedTick
DiligentNext ==
    \/ LandlordStep \/ DiligentTenant \/ ExpireMediation("landlord")
    \/ (\E list \in CandidateLists : ProposeAppraisers("landlord", list))
    \/ (\E s \in Spellings : PickAppraiser("landlord", s))
    \/ KycChange \/ PatientTick \/ Finished

ExitsNext ==
    /\ UNCHANGED diligent
    /\ \/ diligent /\ DiligentNext
       \/ ~diligent /\ MCNext

DiligentActs ==
    /\ WF_vars(PatientTick) /\ WF_vars(PayRent(terms.rent))
    /\ WF_vars(AbandonDispute) /\ WF_vars(EscalateToMediation)
    /\ WF_vars(ClaimDeposit) /\ WF_vars(ExpireMediation("tenant"))

(* Either a diligent tenant, or one party alone that eventually uses its    *)
(* exits.                                                                   *)
Exits ==
    /\ Init /\ diligent \in BOOLEAN
    /\ [][ExitsNext]_<<vars, diligent>>
    /\ diligent  => DiligentActs
    /\ ~diligent => (TenantActs \/ LandlordActs)

(* A tenant who pays in time and rejects every deduction in time gets the   *)
(* whole deposit back, whatever the landlord does and with no appraiser.    *)
DiligentTenantMadeWhole ==
    diligent => (vault > 0 ~> (vault = 0 /\ payout["tenant"] = terms.deposit))
=============================================================================
