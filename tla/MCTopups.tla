------------------------------ MODULE MCTopups ------------------------------
(***************************************************************************)
(* Onramp where things go wrong, or where many come at once.  Two top-ups  *)
(* of a wallet meet faults, repeated deliveries and a restart; or nothing  *)
(* fails, and they compete with operators for the headroom, or with a      *)
(* third for the cap, all paid for before the first webhook.  Payouts      *)
(* touch nothing of this and are tried on their own; days pass between     *)
(* requests.                                                               *)
(***************************************************************************)
EXTENDS MCOnramp

crowdAmount == [e \in Event |-> IF e = e2 THEN 1 ELSE 2]

Trouble == faults + seedFaults + crashes + dupes > 0
Crowd   == now > 0 \/ adminOps > 0 \/ payment[e3] # "none"
Paying  == \E w \in Wallet : payoutLog[w] # NoEntries
Idle    == task = [t \in Slot |-> IdleTask]
AtRest  == mockReserve = 0 /\ seeding = "no" /\ Idle
Bought  == \A e \in Event : payment[e] = "paid" \/ (e = e3 /\ adminOps > 0)

Scenario ==
    /\ ~(Trouble' /\ Crowd')
    /\ Paying' => \A e \in Event : payment'[e] = "none"
    /\ ~(adminOps' > 0 /\ payment'[e3] # "none")
    /\ now' # now => Idle
    /\ Crowd' \/ Paying' => Bought' \/ AtRest'
=============================================================================
