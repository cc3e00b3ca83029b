---------------------------- MODULE ShoppingCart ----------------------------
(***************************************************************************)
(* The data of a shopping cart (shoppingcart.h, shoppingcart.cpp) and what *)
(* each method of the class does to it.  A cart is the code's             *)
(* map<SKU, pair<Product, unsigned int>>: a function whose domain is the   *)
(* set of SKUs in the map.  Of a Product only the UPC and the on-hand      *)
(* quantity are kept; name, category and price never change and no         *)
(* property depends on them.                                               *)
(*                                                                         *)
(* The store that most methods end with is not here: it is a call into     *)
(* StorageSystem that other processes can interleave with, so the actions  *)
(* of OnlineShop make it.                                                  *)
(***************************************************************************)
EXTENDS Integers

CONSTANTS
    SKU,      \* the UPCs of the products database
    UIntMax   \* the largest unsigned int

ASSUME CartAssumption == SKU # {} /\ UIntMax \in Nat \ {0}

UInt == 0 .. UIntMax

\* Mutants of Minus: the units are put back, or stay where they are.
MinusAdds(a, b) == a + b
MinusNothing(a, b) == a

\* Subtraction of unsigned ints, which wraps around below zero.
Minus(a, b) == (a - b) % (UIntMax + 1)

Product == [upc : SKU, quantity : UInt]

\* An entry of the map: the on-hand quantity in the copy of the Product made
\* when the entry was written, and the quantity the user asked for.
Item == [onHand : UInt, qty : UInt]

Cart == UNION {[S -> Item] : S \in SUBSET SKU}

\* What is stored of a cart: "upc:qty" lines, without the copy of the Product.
ItemList == UNION {[S -> UInt] : S \in SUBSET SKU}

EmptyCart == [s \in {} |-> [onHand |-> 0, qty |-> 0]]

EmptyList == [s \in {} |-> 0]

-----------------------------------------------------------------------------

\* cart[p.getUPC()] = make_pair(p, q)
Insert(cart, p, q) ==
    [s \in DOMAIN cart \cup {p.upc} |->
        IF s = p.upc THEN [onHand |-> p.quantity, qty |-> q] ELSE cart[s]]

\* deleteProduct: cart.erase(UPC)
Erase(cart, s) == [x \in DOMAIN cart \ {s} |-> cart[x]]

\* An entry whose quantity is 0 is in the map and not in the cart.
checkCart(cart, s) == s \in DOMAIN cart /\ cart[s].qty > 0

isEmpty(cart) == DOMAIN cart = {}

\* The test of the cart menu (invalid_qty), of buyCart and of
\* chargeCreditCard: an entry asks for more than its copy has on hand.
InvalidQty(cart) == \E s \in DOMAIN cart : cart[s].qty > cart[s].onHand

\* The lines "upc:qty" that storeUser and storeTransaction write.
ItemsOf(cart) == [s \in DOMAIN cart |-> cart[s].qty]

=============================================================================
