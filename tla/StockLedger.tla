----------------------------- MODULE StockLedger -----------------------------
(***************************************************************************)
(* What the shop promises about its stock: units leave the shelf in one    *)
(* step, together with the order they leave for, and never come back.  The *)
(* one thing besides an order that takes units away is an accident: the    *)
(* program ends while it is charging an order, and nothing else loses any, *)
(* not even its end at any other time.                                     *)
(***************************************************************************)
EXTENDS ShoppingCart

CONSTANTS
    Stock,          \* the units of each product there are at first
    TIDs,           \* the ids of orders
    SampleOrders    \* the orders there are at first

VARIABLES
    avail,    \* units of each product that are in no order
    placed,   \* the items of each order placed
    till      \* "closed" when no program runs, "charging" an order, or "open"

ledger == <<avail, placed, till>>

Init ==
    /\ avail = Stock
    /\ placed = SampleOrders
    /\ till = "closed"

\* The program starts, ends, or begins to charge an order.
Move(from, to) ==
    /\ till = from
    /\ till' = to
    /\ UNCHANGED <<avail, placed>>

\* An order takes all its units or is not placed.
Place(t, items) ==
    /\ till = "charging"
    /\ till' = "open"
    /\ t \notin DOMAIN placed
    /\ \A s \in DOMAIN items : items[s] <= avail[s]
    /\ avail' = [s \in SKU |->
                    IF s \in DOMAIN items THEN avail[s] - items[s] ELSE avail[s]]
    /\ placed' = [x \in DOMAIN placed \cup {t} |->
                    IF x = t THEN items ELSE placed[x]]

\* The program ends while it charges an order.
Lose ==
    /\ till = "charging"
    /\ till' = "closed"
    /\ \A s \in SKU : avail'[s] <= avail[s]
    /\ UNCHANGED placed

Next ==
    \/ Move("closed", "open") \/ Move("open", "closed") \/ Move("open", "charging")
    \/ \E t \in TIDs, items \in ItemList : Place(t, items)
    \/ Lose

Spec == Init /\ [][Next]_ledger

=============================================================================
