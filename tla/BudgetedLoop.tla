----------------------------- MODULE BudgetedLoop -----------------------------
(***************************************************************************)
(* What a Stage 2 investigation promises about money: turns are bought one *)
(* at a time, each only while the budget and the turn limit are not used   *)
(* up and nothing has been concluded; the investigation ends once, and     *)
(* then the account equals what was spent.                                 *)
(***************************************************************************)
EXTENDS Naturals

CONSTANTS Budget, Limits, Prices

VARIABLES spent, turns, limit, concluded, account

vars == <<spent, turns, limit, concluded, account>>

Unsettled == [spent |-> 0, turns |-> 0, state |-> "open"]

Init ==
    /\ spent = 0
    /\ turns = 0
    /\ limit \in Limits
    /\ concluded = FALSE
    /\ account = Unsettled

BuyTurn(price) ==
    /\ account.state = "open"
    /\ ~concluded
    /\ spent < Budget
    /\ turns < limit
    /\ spent' = spent + price
    /\ turns' = turns + 1
    /\ UNCHANGED <<limit, concluded, account>>

Conclude ==
    /\ account.state = "open"
    /\ concluded' = TRUE
    /\ UNCHANGED <<spent, turns, limit, account>>

Settle ==
    /\ account.state = "open"
    /\ account' = [spent |-> spent, turns |-> turns, state |-> "settled"]
    /\ UNCHANGED <<spent, turns, limit, concluded>>

Next == (\E price \in Prices : BuyTurn(price)) \/ Conclude \/ Settle

Spec == Init /\ [][Next]_vars

=============================================================================
