---------------------------- MODULE OrderStages ----------------------------
(***************************************************************************)
(* Abstract specification of the dialogue of main.cpp: an order goes       *)
(* through address, card and confirmation, in this order.  What is on file *)
(* changes between orders, and within one only as its address or its card  *)
(* is settled.  This is the dialogue as OnlineShop has it.                 *)
(***************************************************************************)
CONSTANTS Addresses, Cards

VARIABLES
    stage,      \* "menu", or what the order is waiting for
    addr,       \* what is on file
    card

Stages == {"menu", "orderaddr", "ordercc", "confirm"}

Init ==
    /\ stage = "menu"
    /\ addr \in Addresses
    /\ card \in Cards

\* Logging in and the account menu.
Edit ==
    /\ stage = "menu"
    /\ stage' = "menu"
    /\ addr' \in Addresses
    /\ card' \in Cards

Checkout ==
    /\ stage = "menu"
    /\ stage' = "orderaddr"
    /\ UNCHANGED <<addr, card>>

SettleAddress ==
    /\ stage = "orderaddr"
    /\ stage' = "ordercc"
    /\ addr' \in Addresses
    /\ UNCHANGED card

SettleCard ==
    /\ stage = "ordercc"
    /\ stage' = "confirm"
    /\ card' \in Cards
    /\ UNCHANGED addr

\* The order is placed, declined, or its process ends.
Leave ==
    /\ stage' = "menu"
    /\ UNCHANGED <<addr, card>>

Next == Edit \/ Checkout \/ SettleAddress \/ SettleCard \/ Leave

Spec == Init /\ [][Next]_<<stage, addr, card>>

=============================================================================
