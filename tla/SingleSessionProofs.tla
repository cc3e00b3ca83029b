------------------------- MODULE SingleSessionProofs -------------------------
(***************************************************************************)
(* Proofs about a database that one process at a time uses.                *)
(*                                                                         *)
(* The program works on copies of products: the Product it has just        *)
(* fetched, the ones in the cart and the ones in the transaction.  It      *)
(* keeps its accounts because, alone, it never has a copy that is out of   *)
(* date where it counts (Fresh): storing a copy then changes nothing, and  *)
(* what chargeCreditCard subtracts from is the number in the database.     *)
(***************************************************************************)
EXTENDS OnlineShopProofs

Storing(p) == pc[p] \in {"sp_open", "sp_write"}

ChargeLabels == {"charge", "charge2", "st_list", "st_open", "st_write", "finish"}

\* The process has a Product in hand, other than one with units taken off that
\* is not stored yet.
HasProduct(p) ==
    \/ Storing(p) /\ ret[p] # "charge2"
    \/ Where(p) \in {"gu_add", "add", "put", "insert"}
    \/ pc[p] = "charge2"

FreshProduct(p) == HasProduct(p) => prod[p].quantity = products[prod[p].upc]

FreshCart(p) ==
    Where(p) \notin ChargeLabels =>
        \A s \in DOMAIN cart[p] : cart[p][s].onHand = products[s]

FreshOrder(p) ==
    /\ Where(p) \in {"orderaddr", "ordercc", "confirm"} =>
        \A s \in DOMAIN order[p].items : order[p].items[s].onHand = products[s]
    /\ Where(p) \in {"charge", "charge2"} =>
        \A s \in todo[p] : order[p].items[s].onHand = products[s]

\* The first store of a product that chargeCreditCard takes units of.
Taking(p) ==
    Storing(p) /\ ret[p] = "charge2" =>
        /\ prod[p].upc \in DOMAIN order[p].items \ todo[p]
        /\ LET item == order[p].items[prod[p].upc] IN
            /\ item.onHand = products[prod[p].upc]
            /\ item.qty <= item.onHand
            /\ prod[p].quantity = item.onHand - item.qty

Fresh(p) == FreshProduct(p) /\ FreshCart(p) /\ FreshOrder(p) /\ Taking(p)

-----------------------------------------------------------------------------

\* Steps that store no product and change no cart, order or product in hand.
FreshQuiet(p) ==
    \/ SpOpen(p) \/ SuOpen(p) \/ SuWrite(p) \/ Found(p) \/ GuOrderDone(p) \/ GuAddress(p)
    \/ GuCard(p) \/ LoggedIn(p) \/ ListDone(p)
    \/ ChargeAgain(p) \/ Charged(p) \/ StList(p) \/ StOpen(p) \/ StWrite(p)
    \/ \E u \in Users : Login(p, u)
    \/ AddToCartBadUpc(p) \/ OpenMenu(p) \/ Back(p) \/ ChangeAccount(p)
    \/ OrderAddress(p) \/ OrderCard(p) \/ PlaceOrder(p)

LEMMA FreshQuietStep ==
    ASSUME Typed, NEW p \in Procs, Fresh(p), FreshQuiet(p)
    PROVE  Fresh(p)'
  <1> USE DEF FreshQuiet, Typed, TypeOK, Control, Where, Stores, Storing, ChargeLabels, memVars,
          SpOpen, SuOpen, SuWrite, Found, GuOrderDone, GuAddress, GuCard, LoggedIn, ListDone,
          ChargeAgain, Charged, StList, StOpen, StWrite, Login, AddToCartBadUpc,
          OpenMenu, Back, ChangeAccount, OrderAddress, OrderCard, PlaceOrder, Goto, Call,
          StoreUser, GotoList, Fresh
  <1>1. UNCHANGED <<products, prod, cart, order>>
    BY QtyFrame DEF QtyQuiet
  <1>2. FreshProduct(p)'
    BY <1>1 DEF FreshProduct, HasProduct
  <1>3. FreshCart(p)'
    BY <1>1 DEF FreshCart
  <1>4. FreshOrder(p)'
    BY <1>1 DEF FreshOrder
  <1>5. Taking(p)'
    BY <1>1 DEF Taking
  <1> QED
    BY <1>2, <1>3, <1>4, <1>5

\* Storing a product: nothing changes but the units of an order.
LEMMA FreshStoreStep ==
    ASSUME Typed, NEW p \in Procs, Fresh(p), SpWrite(p)
    PROVE  /\ Fresh(p)'
           /\ ret[p] # "charge2" => products' = products
  <1> USE DEF Typed, TypeOK, StorageTypeOK, Control, Where, Stores, Storing, ChargeLabels,
          Fresh, SpWrite, UsesProduct, Call, storeProductWrite, Product
  <1>1. CASE ret[p] # "charge2"
    <2>1. products' = products
      BY <1>1 DEF FreshProduct, HasProduct
    <2>2. FreshProduct(p)'
      BY <1>1, <2>1 DEF FreshProduct, HasProduct
    <2>3. FreshCart(p)'
      BY <1>1, <2>1 DEF FreshCart
    <2>4. FreshOrder(p)'
      BY <1>1, <2>1 DEF FreshOrder
    <2>5. Taking(p)'
      BY <1>1 DEF Taking
    <2> QED
      BY <2>1, <2>2, <2>3, <2>4, <2>5
  <1>2. CASE ret[p] = "charge2"
    <2>1. FreshProduct(p)'
      BY <1>2 DEF FreshProduct, HasProduct
    <2>2. FreshCart(p)'
      BY <1>2 DEF FreshCart
    <2>3. FreshOrder(p)'
      BY <1>2 DEF FreshOrder, Taking
    <2>4. Taking(p)'
      BY <1>2 DEF Taking
    <2> QED
      BY <1>2, <2>1, <2>2, <2>3, <2>4
  <1> QED
    BY <1>1, <1>2

\* Fetching a product.
LEMMA FreshReadStep ==
    ASSUME Typed, NEW p \in Procs, Fresh(p),
           \/ GuItem(p) \/ GuCart(p) \/ ListItem(p)
           \/ \E s \in SKU, q \in Qtys : AddToCart(p, s, q) \/ ChangeQty(p, s, q)
           \/ \E s \in SKU : AddToCartBadQty(p, s)
    PROVE  Fresh(p)'
  <1> USE DEF Typed, TypeOK, Control, Where, Stores, Storing, ChargeLabels, Fresh, GuItem, GuCart,
          ListItem, AddToCart, ChangeQty, AddToCartBadQty, GetProduct, Call, ReadProduct, dbVars
  <1>1. UNCHANGED <<products, cart, order>>
    OBVIOUS
  <1>2. FreshProduct(p)'
    BY <1>1 DEF FreshProduct
  <1>3. FreshCart(p)'
    BY <1>1 DEF FreshCart
  <1>4. FreshOrder(p)'
    BY <1>1 DEF FreshOrder
  <1>5. Taking(p)'
    BY <1>1 DEF Taking
  <1> QED
    BY <1>2, <1>3, <1>4, <1>5

\* Changing the cart or making a transaction of it.
LEMMA FreshCartStep ==
    ASSUME Typed, NEW p \in Procs, Fresh(p),
           \/ GuAdd(p) \/ AddOne(p) \/ PutZero(p) \/ Put(p)
           \/ \E s \in SKU : RemoveItem(p, s)
           \/ Clear(p) \/ Checkout(p) \/ Decline(p) \/ Finish(p)
    PROVE  Fresh(p)'
  <1> USE DEF Typed, TypeOK, Control, Where, Stores, Storing, ChargeLabels, Fresh, GuAdd, AddOne,
          PutZero, Put, RemoveItem, Clear, Checkout, Decline, Finish, Goto, Call, StoreUser, dbVars
  <1>1. UNCHANGED products
    OBVIOUS
  <1>2. FreshProduct(p)'
    BY <1>1 DEF FreshProduct, HasProduct
  <1>3. FreshCart(p)'
    <2>1. ASSUME NEW q, cart' = [cart EXCEPT ![p] = Insert(cart[p], prod[p], q)],
                 HasProduct(p), Where(p) \notin ChargeLabels
          PROVE  FreshCart(p)'
      BY <1>1, <2>1 DEF FreshCart, FreshProduct, Insert
    <2>2. ASSUME NEW s, cart' = [cart EXCEPT ![p] = Erase(cart[p], s)],
                 Where(p) \notin ChargeLabels
          PROVE  FreshCart(p)'
      BY <1>1, <2>2 DEF FreshCart, Erase
    <2>3. CASE GuAdd(p) \/ Put(p)
      BY <2>1, <2>3 DEF HasProduct
    <2>4. CASE AddOne(p)
      <3>1. HasProduct(p) /\ Where(p) \notin ChargeLabels
        BY <2>4 DEF HasProduct
      <3>2. CASE checkCart(cart[p], prod[p].upc)
        <4>1. UNCHANGED cart
          BY <2>4, <3>2
        <4> QED
          BY <1>1, <3>1, <4>1 DEF FreshCart
      <3>3. CASE ~ checkCart(cart[p], prod[p].upc)
        BY <2>1, <2>4, <3>1, <3>3
      <3> QED
        BY <3>2, <3>3
    <2>5. CASE PutZero(p) \/ \E s \in SKU : RemoveItem(p, s)
      BY <2>2, <2>5
    <2>6. CASE Clear(p) \/ Checkout(p) \/ Decline(p) \/ Finish(p)
      BY <1>1, <2>6, EmptyType DEF FreshCart
    <2> QED
      BY <2>3, <2>4, <2>5, <2>6
  <1>4. FreshOrder(p)'
    BY <1>1 DEF FreshOrder, FreshCart
  <1>5. Taking(p)'
    BY <1>1 DEF Taking
  <1> QED
    BY <1>2, <1>3, <1>4, <1>5

\* A turn of chargeCreditCard's loop.
LEMMA FreshChargeStep ==
    ASSUME Typed, NEW p \in Procs, Fresh(p), NEW s \in todo[p], ChargeItem(p, s)
    PROVE  Fresh(p)'
  <1> USE DEF Typed, TypeOK, Control, Where, Stores, Storing, ChargeLabels, Fresh, ChargeItem, Call, dbVars
  <1>1. UNCHANGED <<products, cart, order>>
    OBVIOUS
  <1>2. FreshProduct(p)' /\ FreshCart(p)' /\ FreshOrder(p)'
    BY <1>1 DEF FreshProduct, HasProduct, FreshCart, FreshOrder
  <1>3. order[p].items[s].onHand \in UInt /\ order[p].items[s].qty \in UInt
    BY DomainType DEF Order, Item
  <1>4. order[p].items[s].qty <= order[p].items[s].onHand
    BY <1>3, CartAssumption DEF UInt
  <1>5. prod'[p] = [upc |-> s, quantity |-> order[p].items[s].onHand - order[p].items[s].qty]
    BY <1>3, <1>4, MinusType
  <1>6. Taking(p)'
    BY <1>1, <1>4, <1>5 DEF Taking, FreshOrder
  <1> QED
    BY <1>2, <1>6

LEMMA FreshStep ==
    ASSUME Typed, NEW p \in Procs, Fresh(p), Step(p) \/ Input(p) \/ Crash(p)
    PROVE  Fresh(p)'
  <1>1. CASE Ends(p)
    <2>1. Forget(p) /\ UNCHANGED products
      BY <1>1 DEF Ends, Killed, Exit, dbVars
    <2> QED
      BY <2>1, EmptyType DEF Forget, Call, Typed, TypeOK, Where, Stores, Storing, ChargeLabels,
         Fresh, FreshProduct, HasProduct, FreshCart, FreshOrder, Taking
  <1> QED
    BY <1>1, EndsCases, FreshQuietStep, FreshStoreStep, FreshReadStep, FreshCartStep,
       FreshChargeStep DEF Step, Input, FreshQuiet

-----------------------------------------------------------------------------
(* The accounts.                                                           *)

Accounted(p) ==
    \A s \in SKU :
        LET known == products[s] + sold[s] + InFlight(p, s) IN
        known <= Stock[s] /\ (~ killed => known = Stock[s])

\* Steps before and after which chargeCreditCard has nothing taken.
Elsewhere(p) ==
    \/ SuOpen(p) \/ SuWrite(p) \/ Found(p) \/ GuItem(p) \/ GuOrderDone(p) \/ GuAddress(p)
    \/ GuCard(p) \/ GuCart(p) \/ GuAdd(p) \/ LoggedIn(p) \/ ListItem(p) \/ ListDone(p)
    \/ AddOne(p) \/ PutZero(p) \/ Put(p) \/ Finish(p)
    \/ \E u \in Users : Login(p, u)
    \/ \E s \in SKU, q \in Qtys : AddToCart(p, s, q) \/ ChangeQty(p, s, q)
    \/ \E s \in SKU : RemoveItem(p, s) \/ AddToCartBadQty(p, s)
    \/ AddToCartBadUpc(p) \/ OpenMenu(p) \/ Back(p) \/ ChangeAccount(p)
    \/ Clear(p) \/ Checkout(p) \/ OrderAddress(p) \/ OrderCard(p) \/ Decline(p)

LEMMA ElsewhereFrame ==
    ASSUME Typed, NEW p \in Procs, Elsewhere(p)
    PROVE  /\ UNCHANGED <<products, orders, sold, killed>>
           /\ ~ Charging(p) /\ ~ Charging(p)'
  <1> USE DEF Elsewhere, Typed, TypeOK, Control, Stores, dbVars, memVars, ghostVars, SuOpen,
          SuWrite, Found, GuItem, GuOrderDone, GuAddress, GuCard, GuCart, GuAdd, LoggedIn,
          ListItem, ListDone, AddOne, PutZero, Put, Finish, Login, AddToCart, ChangeQty,
          RemoveItem, AddToCartBadQty, AddToCartBadUpc, OpenMenu, Back, ChangeAccount, Clear,
          Checkout, OrderAddress, OrderCard, Decline, Goto, Call, StoreUser, GetProduct,
          GotoList
  <1>1. UNCHANGED <<products, orders, sold, killed>>
    BY DEF storeUserOpen, storeUserWrite
  <1>2. ~ Charging(p)
    BY DEF Charging
  <1>3. ~ Charging(p)'
    BY DEF Charging
  <1> QED
    BY <1>1, <1>2, <1>3

\* Steps of chargeCreditCard that take nothing and give nothing back.
Steady(p) ==
    \/ SpOpen(p) \/ PlaceOrder(p) \/ \E s \in todo[p] : ChargeItem(p, s)
    \/ ChargeAgain(p) \/ Charged(p) \/ StList(p) \/ StOpen(p)

LEMMA SteadyFrame ==
    ASSUME Typed, NEW p \in Procs, Steady(p)
    PROVE  /\ UNCHANGED <<products, orders, sold, killed>>
           /\ \A s \in SKU : InFlight(p, s)' = InFlight(p, s)
  <1> USE DEF Steady, Typed, TypeOK, dbVars, memVars, ghostVars, SpOpen, PlaceOrder, ChargeItem,
          ChargeAgain, Charged, StList, StOpen, Goto, Call
  <1>1. UNCHANGED <<products, orders, sold, killed, order>>
    BY DEF storeProductOpen, storeTransactionOpen
  <1>2. Taken(p)' = Taken(p)
    <2> USE <1>1 DEF Taken, Charging
    <2>1. CASE SpOpen(p) \/ ChargeAgain(p)
      BY <2>1
    <2>2. CASE PlaceOrder(p)
      BY <2>2
    <2>3. ASSUME NEW s \in todo[p], ChargeItem(p, s) PROVE Taken(p)' = Taken(p)
      BY <2>3
    <2>4. CASE Charged(p) \/ StList(p) \/ StOpen(p)
      BY <2>4
    <2> QED
      BY <2>1, <2>2, <2>3, <2>4
  <1> QED
    BY <1>1, <1>2 DEF InFlight

\* Storing a product: units of the order being charged leave the shelf, or
\* nothing changes.
LEMMA StoreFrame ==
    ASSUME Typed, NEW p \in Procs, Fresh(p), SpWrite(p)
    PROVE  /\ UNCHANGED <<orders, sold, killed>>
           /\ \A s \in SKU : (products[s] + InFlight(p, s))' = products[s] + InFlight(p, s)
  <1> USE DEF Typed, TypeOK, StorageTypeOK
  <1>1. UNCHANGED <<orders, sold, killed, order, todo>>
    BY DEF SpWrite, storeProductWrite, ghostVars
  <1>2. CASE ret[p] # "charge2"
    <2>1. products' = products
      BY <1>2, FreshStoreStep
    <2>2. Taken(p)' = Taken(p)
      <3>1. CASE ret[p] = "charge"
        BY <1>1, <3>1 DEF Taken, Charging, SpWrite, Call
      <3>2. CASE ret[p] # "charge"
        BY <1>1, <1>2, <3>2 DEF Taken, Charging, SpWrite, Call, Control, Stores
      <3> QED
        BY <3>1, <3>2
    <2> QED
      BY <1>1, <2>1, <2>2 DEF InFlight
  <1>3. CASE ret[p] = "charge2"
    <2> DEFINE u == prod[p].upc
               item == order[p].items[u]
    <2>1. /\ u \in DOMAIN order[p].items \ todo[p]
          /\ item.onHand = products[u] /\ item.qty <= item.onHand
          /\ prod[p].quantity = item.onHand - item.qty
      BY <1>3 DEF Fresh, Taking, Storing, SpWrite
    <2>2. u \in SKU /\ item \in Item
      BY <2>1, DomainType DEF Order, Product
    <2>3. item.qty \in Nat /\ products[u] \in Nat
      BY <2>2 DEF Item, UInt
    <2>4. products' = [products EXCEPT ![u] = prod[p].quantity]
      BY DEF SpWrite, storeProductWrite
    <2>5. u \notin Taken(p) /\ Taken(p)' = Taken(p) \cup {u}
      BY <1>1, <1>3, <2>1 DEF Taken, Charging, SpWrite, Call, UsesProduct
    <2>6. ASSUME NEW s \in SKU
          PROVE  (products[s] + InFlight(p, s))' = products[s] + InFlight(p, s)
      <3>1. CASE s = u
        <4>1. products'[s] = products[u] - item.qty
          BY <2>1, <2>2, <2>4, <3>1
        <4>2. InFlight(p, s) = 0 /\ InFlight(p, s)' = item.qty
          BY <1>1, <2>5, <3>1 DEF InFlight
        <4> QED
          BY <2>3, <3>1, <4>1, <4>2
      <3>2. CASE s # u
        BY <1>1, <2>4, <2>5, <3>2 DEF InFlight
      <3> QED
        BY <3>1, <3>2
    <2> QED
      BY <1>1, <2>6
  <1> QED
    BY <1>2, <1>3

LEMMA InFlightType ==
    ASSUME Typed, NEW p \in Procs, NEW s \in SKU
    PROVE  /\ InFlight(p, s) \in Nat
           /\ ~ Charging(p) => InFlight(p, s) = 0
  BY DomainType DEF Typed, TypeOK, InFlight, Taken, Order, Item, UInt

LEMMA AccountedStep ==
    ASSUME Typed, Typed', NEW p \in Procs, Fresh(p), Accounted(p),
           Step(p) \/ Input(p) \/ Crash(p)
    PROVE  Accounted(p)'
  <1>0. \A s \in SKU : /\ products[s] \in Nat /\ products'[s] \in Nat
                       /\ sold[s] \in Nat /\ sold'[s] \in Nat
                       /\ InFlight(p, s) \in Nat /\ InFlight(p, s)' \in Nat
                       /\ Stock[s] \in Nat
    <2>1. \A s \in SKU : InFlight(p, s) \in Nat
      BY InFlightType
    <2>2. \A s \in SKU : InFlight(p, s)' \in Nat
      <3>1. order'[p].items \in Cart
        BY DEF Typed, TypeOK, Order
      <3>2. \A s \in DOMAIN order'[p].items : order'[p].items[s] \in Item
        BY <3>1, DomainType
      <3> QED
        BY <3>2 DEF InFlight, Taken, Item, UInt
    <2> QED
      BY <2>1, <2>2, SampleAssumption DEF Typed, TypeOK, StorageTypeOK, UInt
  <1>1. ASSUME UNCHANGED <<sold, killed>>,
               \A s \in SKU : (products[s] + InFlight(p, s))' = products[s] + InFlight(p, s)
        PROVE  Accounted(p)'
    BY <1>0, <1>1 DEF Accounted
  <1>2. CASE Elsewhere(p)
    <2>1. \A s \in SKU : InFlight(p, s) = 0 /\ InFlight(p, s)' = 0
      BY <1>2, ElsewhereFrame DEF InFlight, Taken
    <2> QED
      BY <1>1, <1>2, <2>1, ElsewhereFrame
  <1>3. CASE Steady(p)
    BY <1>1, <1>3, SteadyFrame
  <1>4. CASE SpWrite(p)
    BY <1>1, <1>4, StoreFrame
  <1>5. CASE StWrite(p)
    <2>1. products' = products /\ killed' = killed
      BY <1>5 DEF StWrite, storeTransactionWrite
    <2>2. \A s \in SKU : sold'[s] = sold[s] + InFlight(p, s) /\ InFlight(p, s)' = 0
      BY <1>5 DEF StWrite, Goto, InFlight, Taken, Charging, Typed, TypeOK
    <2> QED
      BY <1>0, <2>1, <2>2 DEF Accounted
  <1>6. CASE Killed(p)
    <2>1. products' = products /\ sold' = sold /\ killed'
      BY <1>6 DEF Killed
    <2>2. \A s \in SKU : InFlight(p, s)' = 0
      BY <1>6 DEF Killed, Forget, Call, InFlight, Taken, Charging, Typed, TypeOK
    <2> QED
      BY <1>0, <2>1, <2>2 DEF Accounted
  <1>7. CASE Exit(p)
    <2>1. UNCHANGED <<products, sold, killed>>
      BY <1>7 DEF Exit, dbVars, ghostVars
    <2>2. \A s \in SKU : InFlight(p, s) = 0 /\ InFlight(p, s)' = 0
      BY <1>7 DEF Exit, Forget, Call, InFlight, Taken, Charging, Typed, TypeOK
    <2> QED
      BY <1>1, <2>1, <2>2
  <1> QED
    BY <1>2, <1>3, <1>4, <1>5, <1>6, <1>7, EndsCases DEF Ends, Step, Input, Elsewhere, Steady

\* What --init put on the shelf stays accounted for when one process at a time
\* uses the databases: no command makes units appear, and only a process that is
\* killed inside chargeCreditCard makes units disappear.
THEOREM StockAccountedCorrect ==
    ASSUME NEW session, Procs = {session}
    PROVE  Spec => []StockAccounted
  <1> DEFINE IInv == Fresh(session) /\ Accounted(session)
  <1>1. Init => IInv
    <2> SUFFICES ASSUME Init PROVE IInv
      OBVIOUS
    <2>1. Fresh(session)
      BY EmptyType DEF Init, Where, Stores, Storing, ChargeLabels, Fresh, FreshProduct,
         HasProduct, FreshCart, FreshOrder, Taking
    <2>2. \A s \in SKU : InFlight(session, s) = 0
      BY DEF Init, InFlight, Taken, Charging
    <2> QED
      BY <2>1, <2>2, SampleAssumption DEF Init, StorageInit, Accounted, UInt
  <1>2. Typed /\ Typed' /\ IInv /\ [Next]_vars => IInv'
    <2>1. CASE UNCHANGED vars
      BY <2>1 DEF vars, dbVars, memVars, ghostVars, Fresh, FreshProduct, HasProduct, FreshCart,
         FreshOrder, Taking, Where, Storing, Accounted, InFlight, Taken, Charging
    <2> QED
      BY <2>1, FreshStep, AccountedStep DEF Next
  <1>3. IInv => StockAccounted
    BY DEF Accounted, StockAccounted
  <1> QED
    BY <1>1, <1>2, <1>3, TypedInvariant, PTL DEF Spec

-----------------------------------------------------------------------------
(* The ledger.  Units leave it by the writes of storeTransaction, by which *)
(* all the units of the order have been taken, and by the end of a process *)
(* that is charging an order.                                              *)

\* chargeCreditCard stores the transaction after its loop over the items.
TodoDone(p) == pc[p] \in {"st_list", "st_open", "st_write"} => todo[p] = {}

LEMMA TodoDoneStep ==
    ASSUME Typed, NEW p \in Procs, TodoDone(p), Step(p) \/ Input(p) \/ Crash(p)
    PROVE  TodoDone(p)'
  <1> USE DEF TodoDone, Typed, TypeOK
  <1>1. CASE Ends(p)
    BY <1>1 DEF Ends, Killed, Exit, Forget, Call
  <1>2. CASE SpWrite(p) \/ SuWrite(p)
    BY <1>2 DEF SpWrite, SuWrite, Call, Control, Stores
  <1>3. CASE Charged(p) \/ StList(p) \/ StOpen(p) \/ StWrite(p)
    BY <1>3 DEF Charged, StList, StOpen, StWrite, Goto, memVars
  <1>4. CASE Elsewhere(p)
    <2>1. ~ Charging(p)'
      BY <1>4, ElsewhereFrame
    <2> QED
      BY <2>1 DEF Charging
  <1>5. CASE SpOpen(p) \/ PlaceOrder(p) \/ (\E s \in todo[p] : ChargeItem(p, s)) \/ ChargeAgain(p)
    BY <1>5 DEF SpOpen, PlaceOrder, ChargeItem, ChargeAgain, Goto, Call
  <1> QED
    BY <1>1, <1>2, <1>3, <1>4, <1>5, EndsCases DEF Step, Input, Elsewhere

\* A process that stores something goes on afterwards.
Returns(p) == pc[p] \in Stores => ret[p] # "off"

LEMMA ReturnsStep ==
    ASSUME Typed, NEW p \in Procs, Returns(p), Step(p) \/ Input(p) \/ Crash(p)
    PROVE  Returns(p)'
  <1> USE DEF Returns, Stores, Typed, TypeOK
  <1>1. CASE Ends(p)
    BY <1>1 DEF Ends, Killed, Exit, Forget, Call
  <1>2. CASE SpWrite(p) \/ SuWrite(p)
    BY <1>2 DEF SpWrite, SuWrite, Call, Control
  <1>3. CASE SpOpen(p) \/ SuOpen(p)
    BY <1>3 DEF SpOpen, SuOpen, Goto
  <1>4. CASE \/ Found(p) \/ GuOrderDone(p) \/ LoggedIn(p) \/ ListDone(p)
             \/ Charged(p) \/ StList(p) \/ StOpen(p) \/ StWrite(p)
    BY <1>4 DEF Found, GuOrderDone, LoggedIn, ListDone, Charged, StList, StOpen, StWrite,
       Goto, GotoList
  <1>5. CASE GuItem(p) \/ GuAddress(p) \/ GuCard(p) \/ GuCart(p) \/ GuAdd(p) \/ ListItem(p)
    BY <1>5 DEF GuItem, GuAddress, GuCard, GuCart, GuAdd, ListItem, GetProduct, StoreUser,
       Goto, Call
  <1>6. CASE \/ AddOne(p) \/ PutZero(p) \/ Put(p) \/ ChargeAgain(p) \/ Finish(p)
             \/ \E s \in todo[p] : ChargeItem(p, s)
    BY <1>6 DEF AddOne, PutZero, Put, ChargeAgain, Finish, ChargeItem, StoreUser, Goto, Call
  <1>7. CASE \/ \E u \in Users : Login(p, u)
             \/ \E s \in SKU, q \in Qtys : AddToCart(p, s, q) \/ ChangeQty(p, s, q)
             \/ \E s \in SKU : RemoveItem(p, s) \/ AddToCartBadQty(p, s)
    BY <1>7 DEF Login, AddToCart, ChangeQty, RemoveItem, AddToCartBadQty, GetProduct,
       StoreUser, Goto, Call
  <1>8. CASE \/ AddToCartBadUpc(p) \/ OpenMenu(p) \/ Back(p) \/ ChangeAccount(p)
             \/ Clear(p) \/ Checkout(p) \/ OrderAddress(p) \/ OrderCard(p)
             \/ Decline(p) \/ PlaceOrder(p)
    BY <1>8 DEF AddToCartBadUpc, OpenMenu, Back, ChangeAccount, Clear, Checkout, OrderAddress,
       OrderCard, Decline, PlaceOrder, StoreUser, GotoList, Goto, Call
  <1> QED
    BY <1>1, <1>2, <1>3, <1>4, <1>5, <1>6, <1>7, <1>8, EndsCases DEF Step, Input

\* What the steps do to the till.
LEMMA ElsewhereTill ==
    ASSUME Typed, NEW p \in Procs, Session = p, Session' = p, Returns(p), Elsewhere(p)
    PROVE  Till' = "open" /\ (Till = "open" \/ Till = "closed")
  <1>1. ~ Charging(p) /\ ~ Charging(p)'
    BY ElsewhereFrame
  <1>2. pc'[p] # "off"
    BY DEF Returns, Elsewhere, Typed, TypeOK, Control, Stores, SuOpen,
          SuWrite, Found, GuItem, GuOrderDone, GuAddress, GuCard, GuCart, GuAdd, LoggedIn,
          ListItem, ListDone, AddOne, PutZero, Put, Finish, Login, AddToCart, ChangeQty,
          RemoveItem, AddToCartBadQty, AddToCartBadUpc, OpenMenu, Back, ChangeAccount, Clear,
          Checkout, OrderAddress, OrderCard, Decline, Goto, Call, StoreUser, GetProduct,
          GotoList
  <1> QED
    BY <1>1, <1>2 DEF Till

LEMMA SteadyTill ==
    ASSUME Typed, NEW p \in Procs, Session = p, Session' = p, Steady(p)
    PROVE  Till' = Till \/ (Till = "open" /\ Till' = "charging")
  <1> USE DEF Till, Charging, Typed, TypeOK
  <1>1. CASE SpOpen(p)
    BY <1>1 DEF SpOpen, Goto
  <1>2. CASE PlaceOrder(p)
    BY <1>2 DEF PlaceOrder, Goto
  <1>3. CASE \E s \in todo[p] : ChargeItem(p, s)
    BY <1>3 DEF ChargeItem, Call
  <1>4. CASE ChargeAgain(p) \/ Charged(p) \/ StList(p) \/ StOpen(p)
    BY <1>4 DEF ChargeAgain, Charged, StList, StOpen, Call, Goto
  <1> QED
    BY <1>1, <1>2, <1>3, <1>4 DEF Steady

LEMMA StoreTill ==
    ASSUME Typed, NEW p \in Procs, Session = p, Session' = p, Returns(p), SpWrite(p)
    PROVE  Till' = Till
  BY DEF Till, Charging, Typed, TypeOK, Control, Stores, Returns, SpWrite, Call

\* The write of an order is the ledger's Place.
LEMMA WritePlaces ==
    ASSUME Typed, OrderIds, NEW p \in Procs, Session = p, Session' = p, TodoDone(p), StWrite(p)
    PROVE  \E t \in TIDs, items \in ItemList : Ledger!Place(t, items)
  <1> DEFINE id == order[p].id
             items == ItemsOf(order[p].items)
  <1>1. id \in TIDs /\ id \notin DOMAIN orders
    BY DEF StWrite, OrderIds, Typed, Control, Where, Stores, Ordering
  <1>2. order[p].items \in Cart /\ items \in ItemList
    BY ItemsOfType DEF Typed, TypeOK, Order
  <1>3. \A s \in DOMAIN items : s \in SKU /\ items[s] = order[p].items[s].qty /\ items[s] \in Nat
    BY <1>2, DomainType DEF ItemsOf, UInt
  <1>4. Taken(p) = DOMAIN items
    BY DEF Taken, Charging, StWrite, TodoDone, ItemsOf
  <1>5. \A s \in SKU : InFlight(p, s) = IF s \in DOMAIN items THEN items[s] ELSE 0
    BY <1>3, <1>4 DEF InFlight
  <1>6. \A s \in SKU : InFlight(p, s)' = 0
    BY DEF StWrite, Goto, InFlight, Taken, Charging, Typed, TypeOK
  <1>7. \A s \in SKU : products[s] \in Nat /\ products'[s] = products[s]
    BY DEF StWrite, storeTransactionWrite, Typed, TypeOK, StorageTypeOK, UInt
  <1>8. orders' = [t \in DOMAIN orders \cup {id} |-> IF t = id THEN items ELSE orders[t]]
    BY DEF StWrite, storeTransactionWrite
  <1> HIDE DEF id, items
  <1>9. \A s \in SKU : Shelf[s] = products[s] + (IF s \in DOMAIN items THEN items[s] ELSE 0)
    BY <1>5 DEF Shelf
  <1>10. Shelf' = [s \in SKU |-> products'[s] + InFlight(p, s)']
    BY DEF Shelf
  <1>11. Shelf' = [s \in SKU |-> products[s]]
    BY <1>6, <1>7, <1>10
  <1>12. \A s \in DOMAIN items : items[s] <= Shelf[s]
    BY <1>3, <1>7, <1>9
  <1>13. Shelf' = [s \in SKU |-> IF s \in DOMAIN items THEN Shelf[s] - items[s] ELSE Shelf[s]]
    BY <1>3, <1>7, <1>9, <1>11
  <1>14. Till = "charging" /\ Till' = "open"
    BY DEF Till, Charging, StWrite, Goto, Typed, TypeOK
  <1>15. Ledger!Place(id, items)
    BY <1>1, <1>8, <1>12, <1>13, <1>14 DEF Ledger!Place
  <1> QED
    BY <1>1, <1>2, <1>15

\* Every other step leaves units and orders alone, or ends a process that is
\* charging an order.
LEMMA LedgerStep ==
    ASSUME Typed, OrderIds, NEW p \in Procs, Session = p, Session' = p, Fresh(p), TodoDone(p),
           Returns(p), Step(p) \/ Input(p) \/ Crash(p)
    PROVE  [Ledger!Next]_<<Shelf, orders, Till>>
  <1>0. /\ Shelf = [s \in SKU |-> products[s] + InFlight(p, s)]
        /\ Shelf' = [s \in SKU |-> (products[s] + InFlight(p, s))']
    BY DEF Shelf
  <1>1. CASE Elsewhere(p)
    <2>1. \A s \in SKU : InFlight(p, s) = 0 /\ InFlight(p, s)' = 0
      BY <1>1, ElsewhereFrame DEF InFlight, Taken
    <2>2. UNCHANGED <<Shelf, orders>>
      BY <1>0, <1>1, <2>1, ElsewhereFrame
    <2> QED
      BY <1>1, <2>2, ElsewhereTill DEF Ledger!Next, Ledger!Move
  <1>2. CASE Steady(p)
    <2>1. UNCHANGED <<Shelf, orders>>
      BY <1>0, <1>2, SteadyFrame
    <2> QED
      BY <1>2, <2>1, SteadyTill DEF Ledger!Next, Ledger!Move
  <1>3. CASE SpWrite(p)
    <2>1. UNCHANGED <<Shelf, orders>>
      BY <1>0, <1>3, StoreFrame
    <2> QED
      BY <1>3, <2>1, StoreTill
  <1>4. CASE StWrite(p)
    BY <1>4, WritePlaces DEF Ledger!Next, Ledger!ItemList, Ledger!UInt, ItemList, UInt
  <1>5. CASE Killed(p) \/ Exit(p)
    <2>1. UNCHANGED <<products, orders>> /\ pc'[p] = "off"
      BY <1>5 DEF Killed, Exit, dbVars, Forget, Call, Typed, TypeOK
    <2>2. \A s \in SKU : InFlight(p, s)' = 0 /\ InFlight(p, s) \in Nat /\ products[s] \in Nat
      BY <2>1, InFlightType DEF InFlight, Taken, Charging, Typed, TypeOK, StorageTypeOK, UInt
    <2>3. Till' = "closed"
      BY <2>1 DEF Till
    <2>4. CASE Charging(p)
      <3>1. \A s \in SKU : Shelf'[s] <= Shelf[s]
        BY <1>0, <2>1, <2>2
      <3>2. Till = "charging"
        BY <2>4 DEF Till, Charging
      <3> QED
        BY <2>1, <2>3, <3>1, <3>2 DEF Ledger!Next, Ledger!Lose
    <2>5. CASE ~ Charging(p)
      <3>1. UNCHANGED <<Shelf, orders>>
        BY <1>0, <2>1, <2>2, <2>5, InFlightType
      <3>2. Till = "open" \/ Till = "closed"
        BY <2>5 DEF Till
      <3> QED
        BY <2>3, <3>1, <3>2 DEF Ledger!Next, Ledger!Move
    <2> QED
      BY <2>4, <2>5
  <1> QED
    BY <1>1, <1>2, <1>3, <1>4, <1>5, EndsCases DEF Ends, Step, Input, Elsewhere, Steady

\* One process at a time sells the way StockLedger says, for any products, users
\* and orders: units leave the shelf together with the order they leave for,
\* although chargeCreditCard stores two databases one product at a time, and they
\* are lost only by the step in which a process ends inside chargeCreditCard: every
\* other step, every other end of a process included, leaves the ledger alone.
THEOREM SessionImplementsLedger ==
    ASSUME NEW session, Procs = {session}
    PROVE  Spec => ImplementsLedger
  <1> DEFINE IInv == Fresh(session) /\ TodoDone(session) /\ Returns(session)
  <1>0. Session = session /\ Session' = session
    BY DEF Session
  <1>1. Init => IInv
    BY EmptyType DEF Init, Where, Stores, Storing, ChargeLabels, Fresh, FreshProduct,
       HasProduct, FreshCart, FreshOrder, Taking, TodoDone, Returns
  <1>2. Typed /\ IInv /\ [Next]_vars => IInv'
    <2>1. CASE UNCHANGED vars
      BY <2>1 DEF vars, dbVars, memVars, Fresh, FreshProduct, HasProduct, FreshCart,
         FreshOrder, Taking, Where, Storing, TodoDone, Returns
    <2> QED
      BY <2>1, FreshStep, TodoDoneStep, ReturnsStep DEF Next
  <1>3. Init => Ledger!Init
    <2> SUFFICES ASSUME Init PROVE Ledger!Init
      OBVIOUS
    <2>1. \A s \in SKU : InFlight(session, s) = 0
      BY DEF Init, InFlight, Taken, Charging
    <2>2. products = Stock /\ orders = SampleOrders
      BY DEF Init, StorageInit
    <2>3. \A s \in SKU : Stock[s] + 0 = Stock[s]
      BY SampleAssumption DEF UInt
    <2>4. Shelf = Stock
      BY <1>0, <2>1, <2>2, <2>3, SampleAssumption DEF Shelf
    <2>5. Till = "closed"
      BY <1>0 DEF Init, Till
    <2> QED
      BY <2>2, <2>4, <2>5 DEF Ledger!Init
  <1>4. Typed /\ OrderIds /\ IInv /\ [Next]_vars => [Ledger!Next]_<<Shelf, orders, Till>>
    <2>1. CASE UNCHANGED vars
      BY <2>1 DEF vars, dbVars, memVars, Shelf, InFlight, Taken, Charging, Session, Till
    <2> QED
      BY <1>0, <2>1, LedgerStep DEF Next
  <1>5. [Ledger!Next]_<<Shelf, orders, Till>> => [Ledger!Next]_(Ledger!ledger)
    BY DEF Ledger!ledger
  <1> HIDE DEF IInv
  <1> QED
    BY <1>1, <1>2, <1>3, <1>4, <1>5, TypedInvariant, IdsInvariant, PTL
       DEF Spec, ImplementsLedger, Ledger!Spec

=============================================================================
