----------------------------- MODULE SessionCart ----------------------------
(***************************************************************************)
(* OnlineShop with a history variable that says which sessions have begun  *)
(* to keep their cart.                                                     *)
(*                                                                         *)
(* getUser stores the user before it has read the cart, so that a login    *)
(* leaves an empty cart on disk, and it puts the items back in memory only.*)
(* The cart is kept again from the first command on that changes it, or    *)
(* that stores the user for another reason: what is on disk then depends   *)
(* on what the session did, which no variable of the program remembers.    *)
(***************************************************************************)
EXTENDS OnlineShop

VARIABLE
    touched     \* per process: whether this session changed or stored its cart

\* A command changes the cart; getUser filling it is not a command.
ChangesCart(p) == pc[p] # "gu_add" /\ cart'[p] # cart[p]

\* storeUser ends, called by a command and not by the loading of the user.
EndsStore(p) ==
    /\ pc[p] = "su_write"
    /\ pc'[p] = ret[p]
    /\ ret[p] \notin {"gu_cc", "gu_cart"}

Observe ==
    touched' = [p \in Procs |->
        pc'[p] # "off" /\ (touched[p] \/ ChangesCart(p) \/ EndsStore(p))]

InitH == Init /\ touched = [p \in Procs |-> FALSE]

NextH == Next /\ Observe

varsH == <<vars, touched>>

SpecH == InitH /\ [][NextH]_varsH

\* Whenever a process waits for input, the cart on disk is the one on the
\* screen if the session has changed or stored it, and otherwise empty,
\* whatever is on the screen: storeUser in main's commands, and the store of
\* changeShippingAddress in the middle of getUser.
CartStored ==
    \A p \in Procs : pc[p] \in Prompts =>
        users[user[p]].cart = IF touched[p] THEN ItemsOf(cart[p]) ELSE EmptyList

=============================================================================
