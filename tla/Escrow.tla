------------------------------- MODULE Escrow -------------------------------
(***************************************************************************)
(* What the program promises about a deposit, with no word on how: an      *)
(* amount is taken once, held untouched, and leaves in one step that gives *)
(* all of it to the three payees, the appraiser at most a tenth.           *)
(***************************************************************************)
EXTENDS Integers

VARIABLES stage,    \* "empty", "held" or "paid"
          amount,   \* what was taken
          shares    \* what each payee has received

Payees == {"tenant", "landlord", "appraiser"}
Nothing == [k \in Payees |-> 0]

Init == stage = "empty" /\ amount = 0 /\ shares = Nothing

Take ==
    /\ stage = "empty"
    /\ stage' = "held"
    /\ amount' \in Nat \ {0}
    /\ UNCHANGED shares

PayOut ==
    /\ stage = "held"
    /\ stage' = "paid"
    /\ shares' \in [Payees -> Nat]
    /\ shares'["tenant"] + shares'["landlord"] + shares'["appraiser"] = amount
    /\ 10 * shares'["appraiser"] <= amount
    /\ UNCHANGED amount

Next == Take \/ PayOut

Spec == Init /\ [][Next]_<<stage, amount, shares>>
=============================================================================
