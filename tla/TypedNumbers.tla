---------------------------- MODULE TypedNumbers ----------------------------
(***************************************************************************)
(* Numbers that main.cpp converts for its commands: the quantity of        *)
(* addtocart and changeqty, which becomes an unsigned int and in the end   *)
(* is subtracted from the quantity of the product, and the index           *)
(* of the order viewer, which becomes an unsigned int, then an int, then   *)
(* the size_t of vector::at.  One product, one session.                    *)
(***************************************************************************)
EXTENDS Account, Integers

CONSTANTS
    Stock,      \* units of the product there are at first
    MaxOrders,  \* longest history looked at
    Typed       \* lines typed where a number is asked for

ASSUME TypedAssumption ==
    /\ Stock \in UInt
    /\ MaxOrders \in Nat
    /\ 2 * MaxOrders < UIntMax
    /\ Typed \subseteq Line

VARIABLES
    pc,         \* the menu, or "checkout" when one has begun
    onHand,     \* the quantity of the product in the database
    cart,       \* the entry of the product in the cart, if it is there: its
                \* own copy of the on-hand quantity, and how many are asked for
    size,       \* transaction_list.size()
    shown       \* index of the order displayed last, 0 if none was

VARIABLES       \* history variables, not in the program
    asked,      \* the number that was typed for the quantity in the cart
    sold,       \* the sum of these numbers, cut to unsigned int, over all orders
    index       \* the number last typed as an index

vars == <<pc, onHand, cart, size, shown, asked, sold, index>>

Item == [onHand : UInt, qty : UInt]

\* Types of the variables.
TypeOK ==
    /\ pc \in {"shell", "cart", "orders", "checkout", "off"}
    /\ onHand \in UInt
    /\ cart \in {{}} \cup {{i} : i \in Item}
    /\ size \in 0 .. MaxOrders
    /\ shown \in 0 .. MaxOrders
    /\ asked \in ULong
    /\ sold \in Nat
    /\ index \in ULong

Init ==
    /\ pc = "shell"
    /\ onHand = Stock
    /\ cart = {}
    /\ size \in 0 .. MaxOrders
    /\ shown = 0
    /\ asked = 0
    /\ sold = 0
    /\ index = 0

\* The menus; a history without orders is not opened.
Goto(m) ==
    /\ pc # "off"
    /\ m = "orders" => size > 0
    /\ pc' = m
    /\ shown' = 0
    /\ index' = 0
    /\ UNCHANGED <<onHand, cart, size, asked, sold>>

\* Only invalid_argument is caught.
TooLong ==
    /\ pc \in {"shell", "cart", "orders"}
    /\ \E l \in Typed : Converts(l) /\ ~ Fits(l)
    /\ pc' = "off"
    /\ UNCHANGED <<onHand, cart, size, shown, asked, sold, index>>

-----------------------------------------------------------------------------
(* Quantities.                                                             *)

InCart == \E i \in cart : i.qty > 0

\* cart[p.getUPC()] = make_pair(p, qty), of the Product that was just fetched.
Put(l) ==
    /\ Converts(l) /\ Fits(l)
    /\ cart' = {[onHand |-> onHand, qty |-> Cast(stoul(l))]}
    /\ asked' = stoul(l)
    /\ UNCHANGED <<pc, onHand, size, shown, sold, index>>

\* addProduct(p), which is called for a quantity of 1, leaves a product alone
\* that is in the cart already; addProduct(p, qty) replaces its quantity.
AddToCart(l) ==
    /\ pc = "shell"
    /\ ~ (Cast(stoul(l)) = 1 /\ InCart)
    /\ Put(l)

ChangeQty(l) ==
    /\ pc = "cart"
    /\ InCart
    /\ Put(l)

TakeOut ==
    /\ cart' = {}
    /\ asked' = 0
    /\ UNCHANGED <<onHand, size, shown, sold, index>>

RemoveItem ==
    /\ pc = "cart"
    /\ InCart
    /\ TakeOut
    /\ UNCHANGED pc

Clear ==
    /\ pc = "cart"
    /\ cart # {}
    /\ TakeOut
    /\ pc' = "shell"

\* The cart is not empty and has no invalid quantity.
Checkout ==
    /\ pc = "cart"
    /\ cart # {}
    /\ \A i \in cart : i.qty <= i.onHand
    /\ pc' = "checkout"
    /\ UNCHANGED <<onHand, cart, size, shown, asked, sold, index>>

\* chargeCreditCard: an unsigned subtraction from the copy in the cart is the
\* new quantity of the product.
Charge ==
    /\ \E i \in cart : onHand' = Cast(i.onHand - i.qty)
    /\ sold' = sold + Cast(asked)

\* Mutant of PlaceOrder: the cart is not emptied.
PlaceOrderKeepsCart ==
    /\ pc = "checkout"
    /\ size < MaxOrders
    /\ Charge
    /\ size' = size + 1
    /\ pc' = "shell"
    /\ UNCHANGED <<cart, asked, shown, index>>

\* The order comes to the end of the history and the cart is new.
PlaceOrder ==
    /\ pc = "checkout"
    /\ size < MaxOrders
    /\ Charge
    /\ size' = size + 1
    /\ cart' = {}
    /\ asked' = 0
    /\ pc' = "shell"
    /\ UNCHANGED <<shown, index>>

-----------------------------------------------------------------------------
(* The order viewer.                                                       *)

\* int t_idx = (unsigned int)stoul(...)
IntMin == - ((UIntMax + 1) \div 2)
ToInt(u) == IF u >= - IntMin THEN u - (UIntMax + 1) ELSE u

\* t_idx-1, which overflows for the smallest int: compiled code computes it in
\* the width of an int or in that of the size_t it is converted to.
MinusOne(i) == IF i = IntMin THEN {- IntMin - 1, IntMin - 1} ELSE {i - 1}

\* Mutant of ToSize: the index stays signed.
ToSizeSigned(i) == i

ToSize(i) == i % (ULongMax + 1)

\* vector::at throws, and main catches it, unless the index is in bounds.
InBounds(i) == i < size

ViewOrder(l) ==
    /\ pc = "orders"
    /\ Converts(l) /\ Fits(l)
    /\ \E i \in MinusOne(ToInt(Cast(stoul(l)))) :
        shown' = IF InBounds(ToSize(i)) THEN ToSize(i) + 1 ELSE 0
    /\ index' = stoul(l)
    /\ UNCHANGED <<pc, onHand, cart, size, asked, sold>>

Next ==
    \/ \E m \in {"shell", "cart", "orders"} : Goto(m)
    \/ \E l \in Typed : AddToCart(l) \/ ChangeQty(l) \/ ViewOrder(l)
    \/ TooLong
    \/ RemoveItem \/ Clear \/ Checkout \/ PlaceOrder

Spec == Init /\ [][Next]_vars

-----------------------------------------------------------------------------
(* Properties.                                                             *)

\* For every number typed, through two conversions, a subtraction that may
\* overflow and a third conversion, the viewer shows the order listed under
\* that number cut to an unsigned int, or none if there is none.
ShowsListedOrder ==
    pc = "orders" => shown = IF Cast(index) \in 1 .. size THEN Cast(index) ELSE 0

\* Whatever is typed for quantities, order after order, the stock goes down by
\* the numbers typed last, cut to unsigned int, and by nothing else: no order is
\* charged from a copy of the product that an earlier order made out of date,
\* and no subtraction wraps around.
StockAsTyped == onHand + sold = Stock

=============================================================================
