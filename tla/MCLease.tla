------------------------------ MODULE MCLease ------------------------------
(***************************************************************************)
(* Small instances of Lease for TLC.                                       *)
(*                                                                         *)
(* The clock is the only unbounded part.  BoundedTick stops it at the last *)
(* instant that any guard of the current status can tell apart (Horizon):  *)
(* past it the guards of that status keep their values, and a wait it cuts *)
(* short can be made up for after the next step, whose Horizon is later.   *)
(***************************************************************************)
EXTENDS Lease

offer(rent, standard, term, period, grace, mint) ==
    [rent |-> rent, standard_deposit |-> standard, term |-> term,
     period |-> period, grace |-> grace, mint |-> mint]

goodTenant == [FreshProfile EXCEPT !.leases_completed = 1, !.paid_on_time = 2,
                  !.rent_paid_total = 2, !.deposits_returned_full = 1,
                  !.deposit_total = 20, !.deposit_events = 1,
                  !.last_deposit_return_bps = BPS_FULL]
lateTenant == [goodTenant EXCEPT !.paid_on_time = 1, !.paid_late = 1]

(* Lifecycle: two periods, a discounted and a plain deposit, offers that    *)
(* propose_lease must refuse.                                               *)
lifeOffers == {offer(1, 2, 2, 2, 1, "public"), offer(1, 2, 2, 2, 0, "confidential"),
               offer(5, 2, 1, 1, 1, "public"),
               offer(1, 1, 1, 1, 1, "public"), offer(0, 2, 1, 1, 0, "public"),
               offer(1, 2, 3, 2, 0, "public"), offer(1, 2, 1, 1, 2, "public"),
               offer(1, 2, 1, 1, 1, "unlisted")}
lifeTenants == {FreshProfile, goodTenant, lateTenant}
smallDeductions == 0 .. 3
oneName   == {"acme"}
oneCanon  == [s \in {"acme"} |-> "acme"]

(* Liveness: the smallest lease that can be paid late, disputed twice and   *)
(* mediated.                                                                *)
liveOffers == {offer(1, 2, 2, 1, 0, "public")}

(* Mediation: a deposit large enough for a fee, two companies, one of them  *)
(* under two spellings and one spelling that is refused.                    *)
mediationOffers == {offer(1, 20, 1, 1, 0, "public")}
newTenants      == {FreshProfile}
mediationDeductions == {0, 1, 10, 11, 19, 20, 21}
names     == {"acme", "best", "core", "dean"}
spellings == {"Acme", "ACME ", "Best", "Core", "Dean", "\t"}
canon     == [s \in spellings |-> CASE s \in {"Acme", "ACME "} -> "acme"
                                    [] s = "Best" -> "best"
                                    [] s = "Core" -> "core"
                                    [] s = "Dean" -> "dean"
                                    [] s = "\t"   -> NoName]
for(s, f) == [spelling |-> s, fee |-> f]
(* Two fair lists and the ones propose_appraisers must refuse: empty, above *)
(* the cap, the same company twice, an invisible name, too long.            *)
lists == {{for("Acme", 2)}, {for("ACME ", 1), for("Best", 2)}, {for("Best", 1)},
          {}, {for("Best", 3)}, {for("Acme", 1), for("ACME ", 2)}, {for("\t", 1)},
          {for("Acme", 0), for("Best", 0), for("Core", 0), for("Dean", 0)}}
oneList == {{for("acme", 0)}}

Max2(a, b) == IF a >= b THEN a ELSE b
Horizon ==
    CASE status = "Active" /\ paid_count < terms.term
           -> Max2(end_ts, due + terms.grace + terms.period + 1)
      [] status = "Active" /\ paid_count = terms.term -> claim_deadline
      [] status = "Disputed"  -> dispute_deadline
      [] status = "Mediation" /\ is_bound(dispute)  -> dispute.verdict_deadline
      [] status = "Mediation" /\ ~is_bound(dispute) -> dispute.selection_deadline
      [] OTHER -> now

BoundedTick == now < Horizon /\ Tick

(* A finished lease stops; anything else that cannot step is a deadlock. *)
Finished == status \in {"Closed", "Defaulted"} /\ UNCHANGED vars

MCNext == Instruction \/ KycChange \/ BoundedTick \/ Finished
MCSpec == Init /\ [][MCNext]_vars

-----------------------------------------------------------------------------
(* Fairness: the clock runs, and ONE party eventually uses the exits it can *)
(* take alone.  Nothing is assumed of the other party or of an appraiser.   *)
TenantActs ==
    /\ WF_vars(BoundedTick)
    /\ WF_vars(\E a \in 0 .. terms.rent : PayRent(a))
    /\ WF_vars(AcceptDeduction)
    /\ WF_vars(ClaimDeposit)
    /\ WF_vars(ExpireMediation("tenant"))

LandlordActs ==
    /\ WF_vars(BoundedTick)
    /\ WF_vars(MarkDefault)
    /\ WF_vars(ReleaseDeposit)
    /\ WF_vars(FinalizeDeduction)
    /\ WF_vars(ExpireMediation("landlord"))
=============================================================================
