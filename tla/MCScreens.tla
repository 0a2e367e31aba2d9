----------------------------- MODULE MCScreens -----------------------------
(***************************************************************************)
(* A small instance of Screens for TLC: one lease of one period with a     *)
(* deposit that allows a fee.                                              *)
(***************************************************************************)
EXTENDS Screens, MCLease, TLC

CONSTANTS w1, w2

twoWallets == {w1, w2}
screenOffers     == {offer(1, 20, 1, 1, 0, "public")}
screenDeductions == {0, 1, 11}
screenNames      == {"acme", "best"}
screenSpellings  == {"Acme", "ACME ", "Best"}
screenCanon      == [s \in screenSpellings |-> IF s = "Best" THEN "best" ELSE "acme"]
screenLists == {{for("Acme", 2)}, {for("ACME ", 1), for("Best", 2)},
                {for("Acme", 3)}, {for("Acme", 1), for("ACME ", 2)}}

MCScreenNext ==
    \/ Refresh
    \/ Press
    \/ Elsewhere
    \/ KycChange /\ UNCHANGED screenVars
    \/ BoundedTick /\ UNCHANGED screenVars
    \/ Finished /\ UNCHANGED screenVars
MCScreenSpec == ScreenInit /\ [][MCScreenNext]_<<vars, screenVars>>

(* What the screens and the properties depend on: the records, the vault    *)
(* and the history variables of Lease are left out.  The records have room  *)
(* for every rent here, and the vault follows from the status.              *)
ScreenView == <<now, dispute, Seen, IF status \in {"None", "Proposed"} THEN cleared ELSE {},
                terms, payout, screenVars>>
WalletSymmetry == Permutations(twoWallets)
=============================================================================
