----------------------------- MODULE OnlineShop -----------------------------
(***************************************************************************)
(* The program: main.cpp's menus, ShoppingCart, Transaction and User over  *)
(* StorageSystem, run by any number of processes that share the databases  *)
(* of one directory.                                                       *)
(*                                                                         *)
(* A process is a label (pc) and the memory of the program.  Every access  *)
(* to a database is a step of its own; what happens in memory between two  *)
(* accesses belongs to the step before.  A call that writes a database is  *)
(* two labels, "sp_*" for storeProduct and "su_*" for storeUser, after     *)
(* which the process goes on at ret.                                       *)
(*                                                                         *)
(* getProduct is a read followed by storeProduct of what was read, because *)
(* Product::setQuantity stores the product: showing the inventory, logging *)
(* in and adding to the cart all write the products database.             *)
(*                                                                         *)
(* Address, card and the dialogue that asks for them are abstracted to the *)
(* calls of storeUser they make.                                           *)
(***************************************************************************)
EXTENDS StorageSystem, SequencesExt

CONSTANT
    Qtys      \* the quantities a user types, after the cast to unsigned int

ASSUME ShopAssumption ==
    /\ Qtys \subseteq UInt
    /\ Users # {}

VARIABLES
    pc,         \* where the process is
    ret,        \* where it goes on after the store it is in
    user,       \* logged_in.user_name
    cart,       \* logged_in.shopping_cart.cart
    history,    \* logged_in.transaction_history, as transaction ids
    userdb,     \* getUser: what its read-only handle shows
    todo,       \* SKUs that a loop over products still has to visit
    prod,       \* the Product the process has in hand
    qty,        \* the quantity of the command being carried out
    menu,       \* the menu that command came from
    order,      \* the Transaction being checked out
    listed      \* storeTransaction: column families it has listed

VARIABLES       \* history variables, not in the program
    sold,       \* units in the orders written since --init
    killed      \* whether some process ended other than by "exit"

memVars == <<user, cart, history, userdb, todo, prod, qty, menu, order, listed>>
ghostVars == <<sold, killed>>
vars == <<dbVars, pc, ret, memVars, ghostVars>>

Prompts == {"shell", "cart", "account", "orderaddr", "ordercc", "confirm"}

Labels == Prompts \cup
    {"off", "gu_orders", "gu_items", "gu_cc", "gu_cart", "gu_add", "list",
     "add", "put", "insert", "charge", "charge2", "st_list", "st_open", "st_write",
     "finish", "sp_open", "sp_write", "su_open", "su_write"}

Order == [id : TIDs \cup {NoTID}, items : Cart]

NoOrder == [id |-> NoTID, items |-> EmptyCart]

\* Memory of a process that has not logged in.
AnyUser == CHOOSE u \in Users : TRUE

NoProduct == [upc |-> CHOOSE s \in SKU : TRUE, quantity |-> 0]

\* Types of the variables.
TypeOK ==
    /\ StorageTypeOK
    /\ pc \in [Procs -> Labels]
    /\ ret \in [Procs -> Labels]
    /\ user \in [Procs -> Users]
    /\ cart \in [Procs -> Cart]
    /\ history \in [Procs -> Seq(TIDs)]
    /\ userdb \in [Procs -> UserRecord]
    /\ todo \in [Procs -> SUBSET SKU]
    /\ prod \in [Procs -> Product]
    /\ qty \in [Procs -> UInt]
    /\ menu \in [Procs -> {"shell", "cart"}]
    /\ order \in [Procs -> Order]
    /\ listed \in [Procs -> SUBSET TIDs]
    /\ sold \in [SKU -> Nat]
    /\ killed \in BOOLEAN

Init ==
    /\ StorageInit
    /\ pc = [p \in Procs |-> "off"]
    /\ ret = [p \in Procs |-> "off"]
    /\ user = [p \in Procs |-> AnyUser]
    /\ cart = [p \in Procs |-> EmptyCart]
    /\ history = [p \in Procs |-> <<>>]
    /\ userdb = [p \in Procs |-> BlankRecord]
    /\ todo = [p \in Procs |-> {}]
    /\ prod = [p \in Procs |-> NoProduct]
    /\ qty = [p \in Procs |-> 0]
    /\ menu = [p \in Procs |-> "shell"]
    /\ order = [p \in Procs |-> NoOrder]
    /\ listed = [p \in Procs |-> {}]
    /\ sold = [s \in SKU |-> 0]
    /\ killed = FALSE

-----------------------------------------------------------------------------
(* Control and calls.                                                      *)

Goto(p, l) == pc' = [pc EXCEPT ![p] = l] /\ UNCHANGED ret

Call(p, l, r) == pc' = [pc EXCEPT ![p] = l] /\ ret' = [ret EXCEPT ![p] = r]

\* storeUser(logged_in), then r.
StoreUser(p, r) == Call(p, "su_open", r)

\* getProduct(s), then r.  The read is part of this step; storing what was
\* read is the rest of the call.
GetProduct(p, s, r) ==
    /\ prod' = [prod EXCEPT ![p] = ReadProduct(s)]
    /\ Call(p, "sp_open", r)

\* The top of main's loop shows the inventory: getProduct of every product.
GotoList(p) == Goto(p, "list") /\ todo' = [todo EXCEPT ![p] = SKU]

SpOpen(p) ==
    /\ pc[p] = "sp_open"
    /\ storeProductOpen(p)
    /\ Goto(p, "sp_write")
    /\ UNCHANGED <<memVars, ghostVars>>

\* Where the process goes on with the Product it has in hand; anywhere else
\* the object is gone.
UsesProduct == {"gu_add", "add", "put", "charge2"}

SpWrite(p) ==
    /\ pc[p] = "sp_write"
    /\ storeProductWrite(prod[p])
    /\ prod' = IF ret[p] \in UsesProduct THEN prod
               ELSE [prod EXCEPT ![p] = NoProduct]
    /\ Call(p, ret[p], "off")
    /\ UNCHANGED <<user, cart, history, userdb, todo, qty, menu, order, listed,
                   ghostVars>>

SuOpen(p) ==
    /\ pc[p] = "su_open"
    /\ storeUserOpen(p)
    /\ Goto(p, "su_write")
    /\ UNCHANGED <<memVars, ghostVars>>

SuWrite(p) ==
    /\ pc[p] = "su_write"
    /\ storeUserWrite(user[p], cart[p], history[p])
    /\ Call(p, ret[p], "off")
    /\ UNCHANGED <<memVars, ghostVars>>

-----------------------------------------------------------------------------
(* The end of a process.  What it had in memory is gone.                   *)

Forget(p) ==
    /\ Call(p, "off", "off")
    /\ cart' = [cart EXCEPT ![p] = EmptyCart]
    /\ history' = [history EXCEPT ![p] = <<>>]
    /\ userdb' = [userdb EXCEPT ![p] = BlankRecord]
    /\ todo' = [todo EXCEPT ![p] = {}]
    /\ prod' = [prod EXCEPT ![p] = NoProduct]
    /\ qty' = [qty EXCEPT ![p] = 0]
    /\ menu' = [menu EXCEPT ![p] = "shell"]
    /\ order' = [order EXCEPT ![p] = NoOrder]
    /\ listed' = [listed EXCEPT ![p] = {}]
    /\ user' = [user EXCEPT ![p] = AnyUser]

\* chargeCreditCard is between its first and its last store of a product, or
\* between that and the store of the transaction.
Charging(p) ==
    \/ pc[p] \in {"charge", "charge2", "st_list", "st_open", "st_write"}
    \/ pc[p] \in {"sp_open", "sp_write"} /\ ret[p] \in {"charge", "charge2"}

\* The products of the order whose units it has already taken: all but those
\* it has still to visit and the one whose first store is under way.
Taken(p) ==
    IF Charging(p)
    THEN {s \in DOMAIN order[p].items :
            /\ s \notin todo[p]
            /\ ~ (/\ pc[p] \in {"sp_open", "sp_write"}
                  /\ ret[p] = "charge2"
                  /\ s = prod[p].upc)}
    ELSE {}

InFlight(p, s) == IF s \in Taken(p) THEN order[p].items[s].qty ELSE 0

Killed(p) ==
    /\ ReleaseAll(p)
    /\ killed' = TRUE
    /\ Forget(p)
    /\ UNCHANGED <<products, users, entries, orders, sold>>

\* A signal, or an exception that nobody catches, at any point.
Crash(p) == pc[p] # "off" /\ Killed(p)

\* DB::Open failed: the vector of handles is empty and the code indexes it.
OpenFails(p) ==
    /\ \/ pc[p] = "sp_open" /\ ~ IsFree("products")
       \/ pc[p] = "su_open" /\ ~ IsFree("users")
       \/ pc[p] = "st_open" /\ ~ CanOpenOrders(listed[p])
    /\ Killed(p)

Exit(p) ==
    /\ pc[p] \in {"shell", "cart", "account"}
    /\ Forget(p)
    /\ UNCHANGED <<dbVars, ghostVars>>

-----------------------------------------------------------------------------
(* main's login: getUser, then the inventory.                              *)

\* getUser opens the users database; the handle keeps showing this state.
Login(p, u) ==
    /\ pc[p] = "off"
    /\ user' = [user EXCEPT ![p] = u]
    /\ userdb' = [userdb EXCEPT ![p] = users[u]]
    /\ Goto(p, "gu_orders")
    /\ UNCHANGED <<dbVars, cart, history, todo, prod, qty, menu, order, listed,
                   ghostVars>>

NextOrder(p) == userdb[p].orders[Len(history[p]) + 1]

\* getTransaction of the next order: its items, then getProduct of each.  Of
\* an order that was never written there is no handle, or no total to parse.
GuOrder(p) ==
    /\ pc[p] = "gu_orders"
    /\ Len(history[p]) < Len(userdb[p].orders)
    /\ IF NextOrder(p) \notin DOMAIN orders
       THEN Killed(p)
       ELSE /\ todo' = [todo EXCEPT ![p] = DOMAIN orders[NextOrder(p)]]
            /\ Goto(p, "gu_items")
            /\ UNCHANGED <<dbVars, user, cart, history, userdb, prod, qty, menu,
                           order, listed, ghostVars>>

GuItem(p) ==
    /\ pc[p] = "gu_items"
    /\ \E s \in todo[p] :
          /\ todo' = [todo EXCEPT ![p] = @ \ {s}]
          /\ GetProduct(p, s, "gu_items")
    /\ UNCHANGED <<dbVars, user, cart, history, userdb, qty, menu, order, listed,
                   ghostVars>>

GuOrderDone(p) ==
    /\ pc[p] = "gu_items"
    /\ todo[p] = {}
    /\ history' = [history EXCEPT ![p] = Append(@, NextOrder(p))]
    /\ Goto(p, "gu_orders")
    /\ UNCHANGED <<dbVars, user, cart, userdb, todo, prod, qty, menu, order,
                   listed, ghostVars>>

\* Mutant of GuAddress: the user is stored before the orders are loaded.
GuAddressEarly(p) ==
    /\ pc[p] = "gu_orders"
    /\ StoreUser(p, "gu_cc")
    /\ UNCHANGED <<dbVars, memVars, ghostVars>>

\* changeShippingAddress stores the user, whose cart is not loaded yet.
GuAddress(p) ==
    /\ pc[p] = "gu_orders"
    /\ Len(history[p]) = Len(userdb[p].orders)
    /\ StoreUser(p, "gu_cc")
    /\ UNCHANGED <<dbVars, memVars, ghostVars>>

\* changeCreditCard does so again when a card is on file.
GuCard(p) ==
    /\ pc[p] = "gu_cc"
    /\ StoreUser(p, "gu_cart") \/ Goto(p, "gu_cart")
    /\ todo' = [todo EXCEPT ![p] = DOMAIN userdb[p].cart]
    /\ UNCHANGED <<dbVars, user, cart, history, userdb, prod, qty, menu, order,
                   listed, ghostVars>>

GuCart(p) ==
    /\ pc[p] = "gu_cart"
    /\ \E s \in todo[p] :
          /\ todo' = [todo EXCEPT ![p] = @ \ {s}]
          /\ GetProduct(p, s, "gu_add")
    /\ UNCHANGED <<dbVars, user, cart, history, userdb, qty, menu, order, listed,
                   ghostVars>>

\* addProduct on a cart that is not yet logged_in's: nothing is stored.
GuAdd(p) ==
    /\ pc[p] = "gu_add"
    /\ cart' = [cart EXCEPT ![p] = Insert(@, prod[p], userdb[p].cart[prod[p].upc])]
    /\ prod' = [prod EXCEPT ![p] = NoProduct]
    /\ Goto(p, "gu_cart")
    /\ UNCHANGED <<dbVars, user, history, userdb, todo, qty, menu, order, listed,
                   ghostVars>>

LoggedIn(p) ==
    /\ pc[p] = "gu_cart"
    /\ todo[p] = {}
    /\ userdb' = [userdb EXCEPT ![p] = BlankRecord]
    /\ GotoList(p)
    /\ UNCHANGED <<dbVars, user, cart, history, prod, qty, menu, order, listed,
                   ghostVars>>

ListItem(p) ==
    /\ pc[p] = "list"
    /\ \E s \in todo[p] :
          /\ todo' = [todo EXCEPT ![p] = @ \ {s}]
          /\ GetProduct(p, s, "list")
    /\ UNCHANGED <<dbVars, user, cart, history, userdb, qty, menu, order, listed,
                   ghostVars>>

ListDone(p) ==
    /\ pc[p] = "list"
    /\ todo[p] = {}
    /\ Goto(p, "shell")
    /\ UNCHANGED <<dbVars, memVars, ghostVars>>

-----------------------------------------------------------------------------
(* Commands of the main menu.                                              *)

AddToCart(p, s, q) ==
    /\ pc[p] = "shell"
    /\ qty' = [qty EXCEPT ![p] = q]
    /\ menu' = [menu EXCEPT ![p] = "shell"]
    /\ GetProduct(p, s, IF q = 1 THEN "add" ELSE "put")
    /\ UNCHANGED <<dbVars, user, cart, history, userdb, todo, order, listed,
                   ghostVars>>

\* A UPC that is not a number or not in the database: the inventory again.
AddToCartBadUpc(p) ==
    /\ pc[p] = "shell"
    /\ GotoList(p)
    /\ UNCHANGED <<dbVars, user, cart, history, userdb, prod, qty, menu, order,
                   listed, ghostVars>>

\* A quantity that is not a number is noticed after getProduct.
AddToCartBadQty(p, s) ==
    /\ pc[p] = "shell"
    /\ GetProduct(p, s, "shell")
    /\ UNCHANGED <<dbVars, user, cart, history, userdb, todo, qty, menu, order,
                   listed, ghostVars>>

\* Mutant of AddOne: addProduct does not store the user.
AddOneUnstored(p) ==
    /\ pc[p] = "add"
    /\ cart' = IF checkCart(cart[p], prod[p].upc) THEN cart
               ELSE [cart EXCEPT ![p] = Insert(@, prod[p], 1)]
    /\ Goto(p, "shell")
    /\ prod' = [prod EXCEPT ![p] = NoProduct]
    /\ qty' = [qty EXCEPT ![p] = 0]
    /\ UNCHANGED <<dbVars, user, history, userdb, todo, menu, order, listed,
                   ghostVars>>

\* addProduct(Product): only if the product is not in the cart already.
AddOne(p) ==
    /\ pc[p] = "add"
    /\ IF checkCart(cart[p], prod[p].upc)
       THEN Goto(p, "shell") /\ UNCHANGED cart
       ELSE /\ cart' = [cart EXCEPT ![p] = Insert(@, prod[p], 1)]
            /\ StoreUser(p, "shell")
    /\ prod' = [prod EXCEPT ![p] = NoProduct]
    /\ qty' = [qty EXCEPT ![p] = 0]
    /\ UNCHANGED <<dbVars, user, history, userdb, todo, menu, order, listed,
                   ghostVars>>

\* addProduct(Product, qty).  When qty is 0 it deletes the product, which
\* stores the user, and then goes on to insert it with quantity 0.
PutZero(p) ==
    /\ pc[p] = "put"
    /\ qty[p] = 0
    /\ cart' = [cart EXCEPT ![p] = Erase(@, prod[p].upc)]
    /\ StoreUser(p, "insert")
    /\ UNCHANGED <<dbVars, user, history, userdb, todo, prod, qty, menu, order,
                   listed, ghostVars>>

Put(p) ==
    /\ pc[p] = "insert" \/ (pc[p] = "put" /\ qty[p] # 0)
    /\ cart' = [cart EXCEPT ![p] = Insert(@, prod[p], qty[p])]
    /\ StoreUser(p, menu[p])
    /\ prod' = [prod EXCEPT ![p] = NoProduct]
    /\ qty' = [qty EXCEPT ![p] = 0]
    /\ menu' = [menu EXCEPT ![p] = "shell"]
    /\ UNCHANGED <<dbVars, user, history, userdb, todo, order, listed, ghostVars>>

OpenMenu(p) ==
    /\ pc[p] = "shell"
    /\ Goto(p, "cart") \/ Goto(p, "account")
    /\ UNCHANGED <<dbVars, memVars, ghostVars>>

\* "back" leaves the loop of the menu for the top of main's loop.
Back(p) ==
    /\ pc[p] \in {"cart", "account"}
    /\ GotoList(p)
    /\ UNCHANGED <<dbVars, user, cart, history, userdb, prod, qty, menu, order,
                   listed, ghostVars>>

\* "addr" and "pay" of the account menu, once confirmed.
ChangeAccount(p) ==
    /\ pc[p] = "account"
    /\ StoreUser(p, "account")
    /\ UNCHANGED <<dbVars, memVars, ghostVars>>

-----------------------------------------------------------------------------
(* Commands of the cart menu.                                              *)

RemoveItem(p, s) ==
    /\ pc[p] = "cart"
    /\ checkCart(cart[p], s)
    /\ cart' = [cart EXCEPT ![p] = Erase(@, s)]
    /\ StoreUser(p, "cart")
    /\ UNCHANGED <<dbVars, user, history, userdb, todo, prod, qty, menu, order,
                   listed, ghostVars>>

\* changeQuantity(UPC, qty) fetches the product again: a fresh copy.
ChangeQty(p, s, q) ==
    /\ pc[p] = "cart"
    /\ checkCart(cart[p], s)
    /\ qty' = [qty EXCEPT ![p] = q]
    /\ menu' = [menu EXCEPT ![p] = "cart"]
    /\ GetProduct(p, s, "put")
    /\ UNCHANGED <<dbVars, user, cart, history, userdb, todo, order, listed,
                   ghostVars>>

Clear(p) ==
    /\ pc[p] = "cart"
    /\ ~ isEmpty(cart[p])
    /\ cart' = [cart EXCEPT ![p] = EmptyCart]
    /\ todo' = [todo EXCEPT ![p] = SKU]
    /\ StoreUser(p, "list")
    /\ UNCHANGED <<dbVars, user, history, userdb, prod, qty, menu, order, listed,
                   ghostVars>>

\* uuid_generate: an id no order has, stored or being checked out.
FreshIDs == TIDs \ (entries \cup {order[p].id : p \in Procs})

\* Mutant of Checkout: quantities are not checked.
CheckoutAny(p) ==
    /\ pc[p] = "cart"
    /\ ~ isEmpty(cart[p])
    /\ \E id \in FreshIDs :
          order' = [order EXCEPT ![p] = [id |-> id, items |-> cart[p]]]
    /\ Goto(p, "orderaddr")
    /\ UNCHANGED <<dbVars, user, cart, history, userdb, todo, prod, qty, menu,
                   listed, ghostVars>>

\* "checkout" and buyCart: the transaction has a copy of the cart.
Checkout(p) ==
    /\ pc[p] = "cart"
    /\ ~ isEmpty(cart[p])
    /\ ~ InvalidQty(cart[p])
    /\ \E id \in FreshIDs :
          order' = [order EXCEPT ![p] = [id |-> id, items |-> cart[p]]]
    /\ Goto(p, "orderaddr")
    /\ UNCHANGED <<dbVars, user, cart, history, userdb, todo, prod, qty, menu,
                   listed, ghostVars>>

\* A new address is stored with the user; the one on file is not.
OrderAddress(p) ==
    /\ pc[p] = "orderaddr"
    /\ StoreUser(p, "ordercc") \/ Goto(p, "ordercc")
    /\ UNCHANGED <<dbVars, memVars, ghostVars>>

\* The same for the card.  Refusing the card just entered goes back to the
\* address, which is set by then: back to the card without a store.
OrderCard(p) ==
    /\ pc[p] = "ordercc"
    /\ StoreUser(p, "confirm") \/ Goto(p, "confirm")
    /\ UNCHANGED <<dbVars, memVars, ghostVars>>

Decline(p) ==
    /\ pc[p] = "confirm"
    /\ order' = [order EXCEPT ![p] = NoOrder]
    /\ Goto(p, "cart")
    /\ UNCHANGED <<dbVars, user, cart, history, userdb, todo, prod, qty, menu,
                   listed, ghostVars>>

\* Mutant of PlaceOrder: chargeCreditCard leaves the stock alone.
PlaceOrderUncounted(p) ==
    /\ pc[p] = "confirm"
    /\ todo' = [todo EXCEPT ![p] = {}]
    /\ Goto(p, "charge")
    /\ UNCHANGED <<dbVars, user, cart, history, userdb, prod, qty, menu, order,
                   listed, ghostVars>>

PlaceOrder(p) ==
    /\ pc[p] = "confirm"
    /\ todo' = [todo EXCEPT ![p] = DOMAIN order[p].items]
    /\ Goto(p, "charge")
    /\ UNCHANGED <<dbVars, user, cart, history, userdb, prod, qty, menu, order,
                   listed, ghostVars>>

-----------------------------------------------------------------------------
(* chargeCreditCard.                                                       *)

\* Mutant of Charge: the loop does not advance.
ChargeForever(p) ==
    /\ pc[p] = "charge"
    /\ \E s \in todo[p] :
        prod' = [prod EXCEPT ![p] =
            [upc |-> s, quantity |-> Minus(order[p].items[s].onHand,
                                           order[p].items[s].qty)]]
    /\ Call(p, "sp_open", "charge2")
    /\ UNCHANGED <<dbVars, user, cart, history, userdb, todo, qty, menu, order,
                   listed, ghostVars>>

\* One turn of the loop: the test, and setQuantity, which stores the product.
Charge(p) ==
    /\ pc[p] = "charge"
    /\ \E s \in todo[p] :
        LET item == order[p].items[s] IN
        IF item.onHand < item.qty
        THEN Killed(p)
        ELSE /\ prod' = [prod EXCEPT ![p] =
                    [upc |-> s, quantity |-> Minus(item.onHand, item.qty)]]
             /\ todo' = [todo EXCEPT ![p] = @ \ {s}]
             /\ Call(p, "sp_open", "charge2")
             /\ UNCHANGED <<dbVars, user, cart, history, userdb, qty, menu,
                            order, listed, ghostVars>>

\* The turn ends with storeProduct, of what setQuantity has just stored.
ChargeAgain(p) ==
    /\ pc[p] = "charge2"
    /\ Call(p, "sp_open", "charge")
    /\ UNCHANGED <<dbVars, memVars, ghostVars>>

\* Mutant of Charged: the user is stored and the transaction is not.
ChargedUnwritten(p) ==
    /\ pc[p] = "charge"
    /\ todo[p] = {}
    /\ Goto(p, "finish")
    /\ UNCHANGED <<dbVars, memVars, ghostVars>>

Charged(p) ==
    /\ pc[p] = "charge"
    /\ todo[p] = {}
    /\ Goto(p, "st_list")
    /\ UNCHANGED <<dbVars, memVars, ghostVars>>

\* storeTransaction.
StList(p) ==
    /\ pc[p] = "st_list"
    /\ listed' = [listed EXCEPT ![p] = entries]
    /\ Goto(p, "st_open")
    /\ UNCHANGED <<dbVars, user, cart, history, userdb, todo, prod, qty, menu,
                   order, ghostVars>>

StOpen(p) ==
    /\ pc[p] = "st_open"
    /\ storeTransactionOpen(p, order[p].id, listed[p])
    /\ Goto(p, "st_write")
    /\ UNCHANGED <<memVars, ghostVars>>

StWrite(p) ==
    /\ pc[p] = "st_write"
    /\ storeTransactionWrite(order[p].id, order[p].items)
    /\ sold' = [s \in SKU |-> sold[s] + InFlight(p, s)]
    /\ Goto(p, "finish")
    /\ UNCHANGED <<memVars, killed>>

\* Mutant of Finish: the transaction is not added to the history.
FinishForgetful(p) ==
    /\ pc[p] = "finish"
    /\ cart' = [cart EXCEPT ![p] = EmptyCart]
    /\ StoreUser(p, "list")
    /\ todo' = [todo EXCEPT ![p] = SKU]
    /\ order' = [order EXCEPT ![p] = NoOrder]
    /\ listed' = [listed EXCEPT ![p] = {}]
    /\ UNCHANGED <<dbVars, user, history, userdb, prod, qty, menu, ghostVars>>

\* A new cart, the transaction into the history, and storeUser.
Finish(p) ==
    /\ pc[p] = "finish"
    /\ cart' = [cart EXCEPT ![p] = EmptyCart]
    /\ history' = [history EXCEPT ![p] = Append(@, order[p].id)]
    /\ StoreUser(p, "list")
    /\ todo' = [todo EXCEPT ![p] = SKU]
    /\ order' = [order EXCEPT ![p] = NoOrder]
    /\ listed' = [listed EXCEPT ![p] = {}]
    /\ UNCHANGED <<dbVars, user, userdb, prod, qty, menu, ghostVars>>

-----------------------------------------------------------------------------

\* What a process does by itself, between two inputs.
Step(p) ==
    \/ SpOpen(p) \/ SpWrite(p) \/ SuOpen(p) \/ SuWrite(p) \/ OpenFails(p)
    \/ GuOrder(p) \/ GuItem(p) \/ GuOrderDone(p) \/ GuAddress(p) \/ GuCard(p)
    \/ GuCart(p) \/ GuAdd(p) \/ LoggedIn(p) \/ ListItem(p) \/ ListDone(p)
    \/ AddOne(p) \/ PutZero(p) \/ Put(p)
    \/ Charge(p) \/ ChargeAgain(p) \/ Charged(p)
    \/ StList(p) \/ StOpen(p) \/ StWrite(p) \/ Finish(p)

\* What the person at the terminal does.
Input(p) ==
    \/ \E u \in Users : Login(p, u)
    \/ \E s \in SKU, q \in Qtys : AddToCart(p, s, q) \/ ChangeQty(p, s, q)
    \/ \E s \in SKU : RemoveItem(p, s) \/ AddToCartBadQty(p, s)
    \/ AddToCartBadUpc(p) \/ OpenMenu(p) \/ Back(p) \/ ChangeAccount(p)
    \/ Clear(p) \/ Checkout(p) \/ OrderAddress(p) \/ OrderCard(p)
    \/ Decline(p) \/ PlaceOrder(p) \/ Exit(p)

Next == \E p \in Procs : Step(p) \/ Input(p) \/ Crash(p)

Spec == Init /\ [][Next]_vars

\* A process that needs no input runs: nothing in it waits for a lock.
FairSpec == Spec /\ \A p \in Procs : WF_vars(Step(p))

-----------------------------------------------------------------------------
(* Properties that hold however many processes share the databases.        *)

\* Where a process is while it has a database open for writing.
WriteLabel == [db \in DBs |-> CASE db = "users"    -> "su_write"
                                [] db = "products" -> "sp_write"
                                [] db = "orders"   -> "st_write"]

\* A LOCK file is held exactly while its owner is between DB::Open and the
\* delete of the database in one of the three store methods, so no two of
\* them write the same database and no ended process leaves it locked.
LockOwned ==
    \A p \in Procs, db \in DBs : lock[db] = p <=> pc[p] = WriteLabel[db]

Written(s) == \A i \in DOMAIN s : s[i] \in DOMAIN orders

\* Whoever opens the users database finds every order it names written:
\* chargeCreditCard writes the order before the user, so getTransaction, which
\* ignores the status of its open, never meets a missing order at login,
\* whatever crashed and whoever else wrote the user in between.
OrdersExist ==
    /\ \A u \in Users : Written(users[u].orders)
    /\ \A p \in Procs : Written(history[p]) /\ Written(userdb[p].orders)

\* From checkout to the end of chargeCreditCard the transaction asks for no
\* more than its own copies of the products have on hand: the runtime_error
\* of chargeCreditCard, thrown halfway through an order, is unreachable and
\* the unsigned subtraction does not wrap around.
ChargeWithinCopy == \A p \in Procs : ~ InvalidQty(order[p].items)

\* No product ever has more units on hand than --init gave it, although every
\* look at the inventory writes a number back that may be out of date.
StockBounded == \A s \in SKU : products[s] <= Stock[s]

\* An order that storeTransaction has written is never changed or removed.
OrdersImmutable ==
    [][\A t \in DOMAIN orders : t \in DOMAIN orders' /\ orders'[t] = orders[t]]_orders

\* A process that has read its input asks for the next one or ends: no
\* command, login or order hangs.
AlwaysAnswers ==
    \A p \in Procs : pc[p] \notin Prompts ~> pc[p] \in Prompts \cup {"off"}

-----------------------------------------------------------------------------
(* Properties of a database that one process at a time uses.               *)

\* Of the units --init put on the shelf, those on the shelf, in the orders
\* written and taken by the order being charged are never more than there
\* were, and fewer only if a process was killed.
StockAccounted ==
    \A p \in Procs, s \in SKU :
        LET known == products[s] + sold[s] + InFlight(p, s) IN
        known <= Stock[s] /\ (~ killed => known = Stock[s])

\* What the orders placed since --init add up to for a product.
UnitsOrdered(s) ==
    FoldFunction(+, 0,
        [t \in DOMAIN orders \ DOMAIN SampleOrders |->
            IF s \in DOMAIN orders[t] THEN orders[t][s] ELSE 0])

\* The shop does not sell what it does not have: main.cpp tells the customer
\* that items cannot be placed on backorder.
NoBackorder == \A s \in SKU : UnitsOrdered(s) <= Stock[s]

\* storeUser never shortens or rewrites the list of a user's past orders,
\* which getUser has to rebuild completely before its first store.
HistoryGrows ==
    [][\A u \in Users : IsPrefix(users[u].orders, users'[u].orders)]_users

\* As long as no process was killed, every order written is in some user's
\* history or about to be put there.
OrdersOwned ==
    ~ killed => \A t \in DOMAIN orders :
        \/ \E u \in Users : t \in Range(users[u].orders)
        \/ \E p \in Procs : \/ pc[p] = "finish" /\ order[p].id = t
                            \/ pc[p] \in {"su_open", "su_write"} /\ t \in Range(history[p])

\* The only process, and the units of each product that are in no order: what
\* is on the shelf and what that process has taken for an order not written.
Session == CHOOSE p \in Procs : TRUE

Shelf == [s \in SKU |-> products[s] + InFlight(Session, s)]

Till ==
    IF pc[Session] = "off" THEN "closed"
    ELSE IF Charging(Session) THEN "charging"
    ELSE "open"

Ledger == INSTANCE StockLedger WITH avail <- Shelf, placed <- orders, till <- Till

\* One process sells the way the ledger says: an order takes its units and is
\* written in one step, although chargeCreditCard stores two databases one
\* product at a time and every other command stores products, too; units are
\* lost if the process ends inside chargeCreditCard, and at no other step.
ImplementsLedger == Ledger!Spec

-----------------------------------------------------------------------------
(* What the program says of itself and does not keep.                      *)

\* Every entry the cart menu shows is an item that remove and changeqty find:
\* otherwise they answer "No item with UPC %lu exists in the cart."
ShownIsInCart ==
    \A p \in Procs : pc[p] = "cart" =>
        \A s \in DOMAIN cart[p] : checkCart(cart[p], s)

=============================================================================
