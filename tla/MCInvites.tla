----------------------------- MODULE MCInvites -----------------------------
(***************************************************************************)
(* The mediation instance with invitations.  The parties' lists, picks and *)
(* proposals of accounts are explored in full without invitations, and     *)
(* invitations in full on the plain road: see Scenario.                    *)
(***************************************************************************)
EXTENDS MCLease, Invites, TLC

symmetry == Permutations(Others)

MCInvitesNext == (MCNext /\ UNCHANGED inviteVars) \/ InviteStep
MCInvitesSpec == InvitesInit /\ [][MCInvitesNext]_<<vars, inviteVars>>

(* An ACTION_CONSTRAINT.  Once a party has begun to invite, the mediation   *)
(* is one with no second dispute clock to tell apart, one company on both   *)
(* lists and the landlord proposing the account, and the lease's life after *)
(* it is left to the steps that do not invite.                              *)
inviting   == lastId' > 0 \/ \E p \in Party : issuing'[p] # Idle \/ issuing[p] # Idle
plainLists == [p \in Party |-> {[name |-> "best", fee |-> 1]}]
Scenario ==
    /\ restarts' # restarts => inviting
    /\ inviting =>
           /\ cleared = Party
           /\ status = "Mediation" \/ UNCHANGED <<status, now>>
           /\ status # "Mediation" \/ claim_pause_secs = 0
           /\ vault' # vault => payout'["landlord"] = terms.deposit
           /\ dispute # NoDispute =>
                 /\ dispute.candidates = plainLists
                 /\ dispute.key_proposals["landlord"] <= 1
                 /\ dispute.key_proposals["tenant"] = 0
           /\ \A p \in Party : issuing'[p].pc = "dispute" =>
                                  issuing'[p].spelling \in {"Best", "Core"}
=============================================================================
