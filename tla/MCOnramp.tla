------------------------------ MODULE MCOnramp ------------------------------
(* Small instances of Onramp for TLC. *)
EXTENDS Onramp, TLC

CONSTANTS e1, e2, e3, w1, w2, s1, s2

oneEvent     == {e1}
twoEvents    == {e1, e2}
threeEvents  == {e1, e2, e3}
oneWallet    == {w1}
sameWallet   == [e \in Event |-> w1]
unequal      == [e \in Event |-> IF e = e1 THEN 2 ELSE 1]
twoSlots     == {s1, s2}

(* Slots are interchangeable. *)
SlotSymmetry == Permutations(Slot)
=============================================================================
