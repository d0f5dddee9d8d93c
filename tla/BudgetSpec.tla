---------------------------- MODULE BudgetSpec ----------------------------
(***************************************************************************)
(* What the global budget promises (README.md, "Budget and scope"): a paid *)
(* model call happens only under a reservation, reservations of a month    *)
(* never pass the limit when they are made, and known usage replaces a     *)
(* reservation once, in the month it was made.                             *)
(***************************************************************************)
EXTENDS Integers, FiniteSetsExt

CONSTANTS Id, Month, Amount, Cost, Limit

\* What a reservation id stands for: nothing, a reserved amount, or a cost.
VARIABLE account

None == [state |-> "none", month |-> 0, amount |-> 0]

Charge(a, month) == IF a.state # "none" /\ a.month = month THEN a.amount ELSE 0

Spent(accounts, month) == MapThenSumSet(LAMBDA i : Charge(accounts[i], month), Id)

Init == account = [i \in Id |-> None]

Reserve(i, month, amount) ==
    /\ account[i] = None
    /\ Spent(account, month) + amount <= Limit
    /\ account' = [account EXCEPT ![i] =
                     [state |-> "reserved", month |-> month, amount |-> amount]]

Settle(i, cost) ==
    /\ account[i].state = "reserved"
    /\ account' = [account EXCEPT ![i].state = "settled", ![i].amount = cost]

Next == \E i \in Id : \/ \E month \in Month, amount \in Amount : Reserve(i, month, amount)
                      \/ \E cost \in Cost : Settle(i, cost)

Spec == Init /\ [][Next]_account
=============================================================================
