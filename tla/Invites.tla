------------------------------ MODULE Invites ------------------------------
(***************************************************************************)
(* Appraiser invitations (backend/src/invites.ts): the carrier between the *)
(* company name the parties agreed on and the wallet it will sign with.    *)
(* The store is in memory, one live invitation per lease.  Issuing reads   *)
(* the chain twice and commits later, so both parties' requests, the chain *)
(* and a restart interleave with it; everything else is one step.          *)
(*                                                                         *)
(* The chain never reads an invitation: a party may put any account        *)
(* forward (it is shown the claimed one, and may type another), so Lease's *)
(* steps are unconstrained here.  Times are the Clock's seconds.           *)
(***************************************************************************)
EXTENDS Lease

CONSTANTS
    INVITE_TTL_SECS,          \* inviteTtlSeconds()
    MaxInvites, MaxRestarts   \* bounds of the links issued and of the restarts

ASSUME InvitesAssumption ==
    INVITE_TTL_SECS \in Nat \ {0} /\ MaxInvites \in Nat /\ MaxRestarts \in Nat

NoInvite == 0

VARIABLES
    byId,        \* the invitation records
    idByLease,   \* this lease's live invitation, or NoInvite
    issuing,     \* party -> its request in progress
    lastId, restarts,
    (* History variable. *)
    accepted     \* <<id, wallet, when>>: the link answered that wallet with a success

inviteVars == <<byId, idByLease, issuing, lastId, restarts, accepted>>

Idle == [pc |-> "idle"]
Waiting(s) == [pc |-> "dispute", spelling |-> s]
Deciding(s, d) == [pc |-> "commit", spelling |-> s, dispute |-> d]

InvitesInit ==
    /\ Init
    /\ byId = {} /\ idByLease = NoInvite /\ lastId = 0 /\ restarts = 0
    /\ issuing = [p \in Party |-> Idle]
    /\ accepted = {}

-----------------------------------------------------------------------------
(* sweep *)
Live       == {r \in byId : r.expiresAt > now}
SweptIndex == IF \E r \in byId \ Live : r.id = idByLease THEN NoInvite ELSE idByLease
Swept      == byId' = Live /\ idByLease' = SweptIndex

(* resolve: an id without a record was replaced, swept or lost in a restart. *)
Resolved(id) == {r \in Live : r.id = id}

(* issue, up to the answer about the lease. *)
IssueStart(p, spelling) ==
    /\ issuing[p] = Idle
    /\ status = "Mediation"
    /\ Swept
    /\ issuing' = [issuing EXCEPT ![p] = Waiting(spelling)]
    /\ UNCHANGED <<vars, lastId, restarts, accepted>>

(* issue, the answer about the Dispute account: what it says now is what    *)
(* the request decides on when it resumes.                                  *)
may_invite(d, spelling) ==
    /\ d # NoDispute
    /\ ~is_bound(d)
    /\ name_agreed(d)
    /\ Canon[spelling] = d.agreed_name

ReadDispute(p) ==
    /\ issuing[p].pc = "dispute"
    /\ LET s == issuing[p].spelling IN
       issuing' = [issuing EXCEPT ![p] =
                      IF may_invite(dispute, s) THEN Deciding(s, dispute) ELSE Idle]
    /\ UNCHANGED <<vars, byId, idByLease, lastId, restarts, accepted>>

expiry(d) == Smaller(now + INVITE_TTL_SECS, d.selection_deadline)
(* Replacing drops the previous record, and with it the previous link. *)
BadReplaceKeepsOld == byId
WithoutPrevious    == {r \in byId : r.id # idByLease}

Issue(p) ==
    LET d == issuing[p].dispute IN
    /\ issuing[p].pc = "commit"
    /\ issuing' = [issuing EXCEPT ![p] = Idle]
    /\ IF expiry(d) > now
         THEN /\ lastId < MaxInvites
              /\ lastId' = lastId + 1
              /\ byId' = WithoutPrevious \cup
                   {[id |-> lastId + 1, name |-> d.agreed_name, agreedFee |-> d.agreed_fee,
                     issuedBy |-> p, expiresAt |-> expiry(d), wallet |-> NoKey,
                     claimedAt |-> 0, selectionDeadline |-> d.selection_deadline]}
              /\ idByLease' = lastId + 1
         ELSE UNCHANGED <<byId, idByLease, lastId>>
    /\ UNCHANGED <<vars, restarts, accepted>>

(* claim, by the holder of link id with the wallet of its session. *)
may_claim(r, w) == r.wallet = w \/ (r.wallet = NoKey /\ w \notin Party)

Claim(id, w) ==
    /\ \E r \in Resolved(id) :
          /\ may_claim(r, w)
          /\ LET claimed == IF r.wallet = w THEN r
                            ELSE [r EXCEPT !.wallet = w, !.claimedAt = now]
             IN byId' = (Live \ {r}) \cup {claimed}
          /\ accepted' = accepted \cup {<<id, w, IF r.wallet = w THEN r.claimedAt ELSE now>>}
    /\ idByLease' = SweptIndex
    /\ UNCHANGED <<vars, issuing, lastId, restarts>>

(* read, pending and every refused request leave only a sweep behind. *)
Sweep ==
    /\ Live # byId
    /\ Swept
    /\ UNCHANGED <<vars, issuing, lastId, restarts, accepted>>

(* The process starts again: the store and the requests are gone. *)
Restart ==
    /\ restarts < MaxRestarts
    /\ restarts' = restarts + 1
    /\ byId' = {} /\ idByLease' = NoInvite
    /\ issuing' = [p \in Party |-> Idle]
    /\ UNCHANGED <<vars, lastId, accepted>>

InviteStep ==
    \/ \E p \in Party, s \in Spellings : IssueStart(p, s)
    \/ \E p \in Party : ReadDispute(p)
    \/ \E p \in Party : Issue(p)
    \/ \E id \in 1 .. lastId, w \in Wallet : Claim(id, w)
    \/ Sweep
    \/ Restart

(* The lease goes on beside it. *)
InvitesNext == (Next /\ UNCHANGED inviteVars) \/ InviteStep
InvitesSpec == InvitesInit /\ [][InvitesNext]_<<vars, inviteVars>>

-----------------------------------------------------------------------------
(* Both parties may be issuing at once: whichever commits last leaves the   *)
(* only link that works, and the index names it.                            *)
OneLink ==
    /\ \A r, q \in byId : r = q
    /\ {r.id : r \in byId} = {idByLease} \ {NoInvite}

(* An invitation decided on a stale read still says what the parties agreed *)
(* on, and never outlives the window in which they could bind the account.  *)
LinkFitsAgreement ==
    \A r \in byId :
        /\ r.expiresAt <= r.selectionDeadline
        /\ dispute # NoDispute =>
              /\ r.name = dispute.agreed_name /\ r.agreedFee = dispute.agreed_fee
              /\ r.selectionDeadline = dispute.selection_deadline

(* A link is good for one account, whoever opens it and however often; that *)
(* account is no party's, and took it while the parties could still use it. *)
AcceptedOnce ==
    \A a, b \in accepted :
        /\ a[1] = b[1] => a = b
        /\ a[2] \in Others
        /\ disputed_at # 0 => a[3] < disputed_at + SELECTION_WINDOW_SECS

InvitesSound == OneLink /\ LinkFitsAgreement /\ AcceptedOnce
=============================================================================
