----------------------------- MODULE MCBalance -----------------------------
(* A small instance of Balance for TLC. *)
EXTENDS Balance

(* An ACTION_CONSTRAINT.  At most a call that hangs and one that fails, or *)
(* a tab closed, and no rent paid if both went wrong; a hung call that     *)
(* wakes in time is only a slow one; the account is also set up from       *)
(* elsewhere only before rent is paid and with one thing going wrong; with *)
(* two top-ups nothing goes wrong, the tenant buys the second with nothing *)
(* of the first in progress, since that is like closing the tab, and       *)
(* starts nothing else once a lease needs it.                              *)
Scenario ==
    /\ faults' + closes' <= 1 /\ (closes' = 0 \/ hangs' = 0)
    /\ faults' + hangs' = 2 => rent'.says = "nothing"
    /\ \A r \in Task : task[r].hung /\ ~task'[r].hung => ~task[r].heard
    /\ \A r \in Enabling : task'[r].pc # "idle" =>
          rents' = 0 /\ rent'.says # "paying" /\ faults' + hangs' <= 1 /\ Len(topUps') < 2
    /\ Len(topUps') = 2 => faults' + hangs' + closes' = 0
    /\ need' # None => \A r \in Task : task'[r].pc = "idle"
    /\ Len(topUps') > Len(topUps) => \A r \in Task : task[r].pc = "idle"
=============================================================================
