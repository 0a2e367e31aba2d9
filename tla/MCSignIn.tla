------------------------------ MODULE MCSignIn ------------------------------
(***************************************************************************)
(* One person's tab(s) and strangers.  Floods of challenges are explored   *)
(* around one login and nothing else; logins, calls, restarts and          *)
(* sign-outs in full without strangers.                                    *)
(***************************************************************************)
EXTENDS SignIn, TLC

symmetry == Permutations(Request)
owner == [t \in Tab |-> "ada"]

Strange(challenges, ls) ==
    Len(challenges) - Cardinality({l \in DOMAIN ls : ls[l].nonce # None})
Guesses == {n \in DOMAIN tickets' : tickets'[n].attempts > 0}

(* An ACTION_CONSTRAINT. *)
Scenario ==
    Strange(tickets', logins') > 0 \/ Guesses # {} =>
        /\ Len(logins') <= 1 /\ Cardinality(Guesses) <= 1 /\ restarts' = 0
        /\ \A t \in Tab : account'[t] # "idle" => account'[t] = "linking"
=============================================================================
