----------------------------- MODULE MCRentPlan -----------------------------
(* Small instances of RentPlan and Sponsor for TLC.  Every transaction is  *)
(* written as its instructions and passes the rules of its route.           *)
EXTENDS Sponsor

CONSTANTS w1, w2, A, B

wallets  == {w1, w2}
contexts == {A, B}
accounts == [w \in wallets |-> IF w = w1 THEN "token of w1" ELSE "token of w2"]
policy   == [instructions |-> 4, units |-> 2, price |-> 1, fee |-> 4, rent |-> 3]
rules    == [lamports |-> 1, space |-> 2, creates |-> 1, rangeSpace |-> 2, rangeLamports |-> 1]

by(payer, others, ixs) ==
    [payer |-> payer, signers |-> {payer} \cup others, signed |-> others, junk |-> {},
     plain |-> TRUE, ixs |-> ixs]

-----------------------------------------------------------------------------
(* The plan of one payment, transaction by transaction: a context created   *)
(* and verified at once, one created and verified after, and the payment    *)
(* that closes both.  Beside it a payment that closes too little, a close   *)
(* nobody signs, one that creates what it closes, and the other wallet's.   *)
create(c, space) ==
    [Instruction("system", "createAccount", [funder |-> Treasury, account |-> c], 1)
        EXCEPT !.space = space]
verify(c) == Instruction("zk", "verify", [context |-> c, authority |-> Treasury], 0)
close(c)  ==
    Instruction("zk", "close", [context |-> c, destination |-> Treasury, authority |-> Treasury], 0)
transfer(w) ==
    Instruction("token", "confidentialTransfer",
                [source |-> accounts[w], mint |-> "mint", authority |-> w], 0)
payRent(w) ==
    Instruction("relstate", "pay_rent",
                [tenant |-> w, mint |-> "mint", tenantToken |-> accounts[w]], 0)

createA == by(Treasury, {A}, <<create(A, 1), verify(A)>>)
createB == by(Treasury, {B}, <<create(B, 2)>>)
verifyB == by(Treasury, {}, <<verify(B)>>)
pay     == by(Treasury, {w1}, <<transfer(w1), payRent(w1), close(A), close(B)>>)
payA    == by(Treasury, {w1}, <<transfer(w1), payRent(w1), close(A)>>)
closeA  == by(Treasury, {}, <<close(A)>>)
blend   == by(Treasury, {w1, B}, <<create(B, 1), verify(B), close(B)>>)
otherPay == by(Treasury, {w2}, <<transfer(w2), payRent(w2), close(A)>>)

mine   == {createA, createB, verifyB, pay, payA, closeA, blend}
theirs == {createA, otherPay}

(* What the simulation measures: a context costs a lamport, and gives it back. *)
net(t) == Cardinality(contextUse(t).created) - Cardinality(contextUse(t).closed)
payment ==
    {RentMessage(t, w1, net(t), 0) : t \in mine} \cup {RentMessage(t, w2, net(t), 0) : t \in theirs}
messages == payment   \* TLC evaluates `payment` once, but not what a constant is replaced by

ASSUME PaymentAccepted ==
    /\ \A t \in mine : RentAccepts(t, w1, Treasury)
    /\ \A t \in theirs : RentAccepts(t, w2, Treasury)

(* Over every transaction of up to three of these instructions, starting    *)
(* with each context absent, open or the treasury's: what the rules of a    *)
(* rent payment accept leaves every context it creates gone, or one that    *)
(* the treasury can close, or alone as the range context; and contextUse    *)
(* names the contexts that exist afterwards.                                *)
letters ==
    {create(c, space) : c \in contexts, space \in {1, 2}} \cup {close(c) : c \in contexts}
    \cup {Instruction("zk", "verify", [context |-> c, authority |-> a], 0) :
             c \in contexts, a \in {Treasury, w1}}
    \cup {transfer(w1), payRent(w1)}
drafts == {by(Treasury, {w1, A, B}, ixs) : ixs \in UNION {[1 .. n -> letters] : n \in 1 .. 3}}
starts == [contexts -> {Absent, Open, Treasury}]

ASSUME ContextsStayOurs ==
    \A t \in {d \in drafts : RentAccepts(d, w1, Treasury)}, start \in starts :
        LET end == Executed(t, start)
            use == contextUse(t)
        IN end.ok => \A c \in use.created :
              /\ end.auth[c] \in {Absent, Treasury, Open}
              /\ end.auth[c] = Open =>
                    \E i \in DOMAIN t.ixs :
                        t.ixs[i].op = "createAccount" /\ Created(t.ixs[i]) = c
                        /\ t.ixs[i].space = Rules.rangeSpace
              /\ c \in use.closed /\ start[c] = Absent => end.auth[c] = Absent
              /\ c \notin use.closed => end.auth[c] # Absent

-----------------------------------------------------------------------------
(* What the sponsor is sent: a call of a party, with a price for its units  *)
(* that does not divide evenly, and a verdict with the account it pays into;*)
(* and the set-up of an account that the treasury pays for, one that asks   *)
(* for too much of it, and one the wallet pays for itself.                  *)
call == by(FeePayer, {w1},
    <<Instruction("budget", "limit", [none |-> "none"], 1),
      Instruction("budget", "price", [none |-> "none"], 1),
      Instruction("relstate", "apply", [tenant |-> w1], 0)>>)
verdict == by(FeePayer, {w2},
    <<Instruction("ata", "createIdempotent",
          [payer |-> FeePayer, ata |-> accounts[w2], owner |-> w2, mint |-> "mint",
           systemProgram |-> "system", tokenProgram |-> "token"], 0),
      Instruction("relstate", "submit_verdict",
          [appraiser |-> w2, mint |-> "mint", appraiserAta |-> accounts[w2],
           tokenProgram |-> "token"], 0)>>)

open(w, payer) ==
    Instruction("ata", "create",
        [payer |-> payer, ata |-> accounts[w], owner |-> w, mint |-> "mint",
         systemProgram |-> "system", tokenProgram |-> "token"], 0)
grow(w, payer, n) ==
    Instruction("token", "reallocate",
        [account |-> accounts[w], payer |-> payer, systemProgram |-> "system", owner |-> w], n)
configure(w) ==
    Instruction("token", "configureAccount", [account |-> accounts[w], mint |-> "mint", owner |-> w], 0)
setting(w, payer, n) == by(Treasury, {w}, <<open(w, payer), grow(w, payer, n), configure(w)>>)

sponsorable == {call, verdict}
setups      == {setting(w1, Treasury, 1), setting(w2, Treasury, 2), setting(w1, w1, 1)}

caps ==
    [sponsor |-> [walletRate |-> 2, globalRate |-> 3, wallet |-> 6, global |-> 8],
     setup   |-> [walletRate |-> 2, globalRate |-> 3, wallet |-> 8, global |-> 10],
     dust    |-> [walletRate |-> 1, globalRate |-> 2, wallet |-> 9, global |-> 2]]

-----------------------------------------------------------------------------
(* The routes share the clock, the process and the treasury's balance; each *)
(* is explored with the others idle, RentMoves standing for what the other  *)
(* routes do to the balance.  A restart is explored with dust alone: what   *)
(* the limiters promise they promise within one life of the process.        *)
VARIABLE explored

MCInit == SponsorInit /\ explored \in Route \cup {"rent"}

others == <<sponsorVars, explored>>
MCNext ==
    \/ \E m \in Message : explored = "rent" /\ (Admit(m) \/ Refuse(m)) /\ UNCHANGED others
    \/ \E r \in pending : Cosign(r) /\ UNCHANGED others
    \/ \E r \in pending : Fail(r) /\ UNCHANGED others
    \/ Tick /\ UNCHANGED others
    \/ explored # "rent" /\ SponsorStep /\ UNCHANGED explored
    \/ explored = "dust" /\ Restart /\ UNCHANGED explored

MCSpec == MCInit /\ [][MCNext]_<<vars, others>>

(* Beside, the balance moves only while someone compares two reads of it,   *)
(* and the first to ask for dust is w1.                                     *)
Scenario ==
    /\ \A r \in asks' : r.route = explored
    /\ \A r \in asks' : r.route = "dust" /\ r.id = 1 => r.wallet = w1
    /\ purse' # purse => held' # held \/ \E r \in asks : r.pc \in Reading
=============================================================================
