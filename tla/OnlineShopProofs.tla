-------------------------- MODULE OnlineShopProofs --------------------------
(***************************************************************************)
(* Proofs about OnlineShop, for any number of processes, products, users   *)
(* and orders and any width of unsigned int.                               *)
(***************************************************************************)
EXTENDS OnlineShop, SequenceTheorems, TLAPS

-----------------------------------------------------------------------------
(* The operators on carts.                                                 *)

LEMMA DomainType ==
    /\ \A c \in Cart : DOMAIN c \subseteq SKU /\ \A s \in DOMAIN c : c[s] \in Item
    /\ \A l \in ItemList : DOMAIN l \subseteq SKU /\ \A s \in DOMAIN l : l[s] \in UInt
  BY DEF Cart, ItemList

LEMMA EmptyType ==
    EmptyCart \in Cart /\ EmptyList \in ItemList /\ DOMAIN EmptyCart = {}
  <1>1. EmptyCart \in [{} -> Item] /\ EmptyList \in [{} -> UInt]
    BY DEF EmptyCart, EmptyList
  <1> QED
    BY <1>1 DEF Cart, ItemList, EmptyCart

LEMMA InsertType ==
    ASSUME NEW c \in Cart, NEW p \in Product, NEW q \in UInt
    PROVE  Insert(c, p, q) \in Cart
  <1>1. Insert(c, p, q) \in [DOMAIN c \cup {p.upc} -> Item]
    BY DomainType DEF Insert, Item, Product
  <1>2. DOMAIN c \cup {p.upc} \in SUBSET SKU
    BY DomainType DEF Product
  <1> QED
    BY <1>1, <1>2 DEF Cart

LEMMA EraseType ==
    ASSUME NEW c \in Cart, NEW s
    PROVE  Erase(c, s) \in Cart
  <1>1. Erase(c, s) \in [DOMAIN c \ {s} -> Item]
    BY DomainType DEF Erase
  <1>2. DOMAIN c \ {s} \in SUBSET SKU
    BY DomainType
  <1> QED
    BY <1>1, <1>2 DEF Cart

LEMMA ItemsOfType ==
    ASSUME NEW c \in Cart
    PROVE  ItemsOf(c) \in ItemList
  <1>1. ItemsOf(c) \in [DOMAIN c -> UInt]
    BY DomainType DEF ItemsOf, Item
  <1>2. DOMAIN c \in SUBSET SKU
    BY DomainType
  <1> QED
    BY <1>1, <1>2 DEF ItemList

LEMMA MinusType ==
    ASSUME NEW m \in UInt, NEW n \in UInt
    PROVE  /\ Minus(m, n) \in UInt
           /\ n <= m => Minus(m, n) = m - n
  BY CartAssumption DEF Minus, UInt

-----------------------------------------------------------------------------
(* Type correctness.  TypeOK is not inductive: GuAdd and Charge look up a  *)
(* product in a partial function, GuOrderDone an order in a sequence, and  *)
(* StOpen and Finish use the id of the order.  Control says why they may.  *)

Stores == {"sp_open", "sp_write", "su_open", "su_write"}

\* Where the process is or, while it stores something, goes on.
Where(p) == IF pc[p] \in Stores THEN ret[p] ELSE pc[p]

Ordering == {"orderaddr", "ordercc", "confirm", "charge", "charge2", "st_list",
             "st_open", "st_write", "finish"}

Control(p) ==
    /\ pc[p] \in Stores => ret[p] \notin Stores \cup {"st_list", "st_open", "st_write", "finish"}
    /\ pc[p] \in {"su_open", "su_write"} => ret[p] \notin {"charge", "charge2"}
    /\ pc[p] \in {"sp_open", "sp_write"} => ret[p] # "insert"
    /\ Where(p) = "gu_items" => Len(history[p]) < Len(userdb[p].orders)
    /\ Where(p) \in {"gu_cart", "gu_add"} => todo[p] \subseteq DOMAIN userdb[p].cart
    /\ Where(p) = "gu_add" => prod[p].upc \in DOMAIN userdb[p].cart
    /\ Where(p) \in {"charge", "charge2"} => todo[p] \subseteq DOMAIN order[p].items
    /\ Where(p) \in Ordering => order[p].id \in TIDs

Typed == TypeOK /\ \A p \in Procs : Control(p)

LEMMA BlankTypes ==
    /\ AnyUser \in Users
    /\ NoProduct \in Product
    /\ NoOrder \in Order
    /\ BlankRecord \in UserRecord
    /\ 0 \in UInt /\ 1 \in UInt
    /\ "off" \in Labels /\ "list" \in Labels
  BY ShopAssumption, CartAssumption, EmptyType
     DEF AnyUser, NoProduct, NoOrder, BlankRecord, Product, Order, UserRecord, UInt, Labels

LEMMA InitTyped == Init => Typed
  <1> SUFFICES ASSUME Init PROVE Typed
    OBVIOUS
  <1>1. StorageTypeOK
    BY SampleAssumption DEF Init, StorageInit, StorageTypeOK
  <1>2. /\ pc \in [Procs -> Labels] /\ ret \in [Procs -> Labels]
        /\ user \in [Procs -> Users] /\ cart \in [Procs -> Cart]
        /\ history \in [Procs -> Seq(TIDs)] /\ userdb \in [Procs -> UserRecord]
    BY BlankTypes, EmptyType DEF Init
  <1>3. /\ todo \in [Procs -> SUBSET SKU] /\ prod \in [Procs -> Product]
        /\ qty \in [Procs -> UInt] /\ menu \in [Procs -> {"shell", "cart"}]
        /\ order \in [Procs -> Order] /\ listed \in [Procs -> SUBSET TIDs]
        /\ sold \in [SKU -> Nat] /\ killed \in BOOLEAN
    BY BlankTypes DEF Init
  <1>4. \A p \in Procs : Control(p)
    BY DEF Init, Control, Where, Stores, Ordering
  <1> QED
    BY <1>1, <1>2, <1>3, <1>4 DEF Typed, TypeOK

\* A process that ends forgets everything.
LEMMA TypedForget ==
    ASSUME Typed, NEW p \in Procs, Forget(p), StorageTypeOK',
           sold' = sold, killed' \in BOOLEAN
    PROVE  Typed'
  <1>1. TypeOK'
    BY BlankTypes, EmptyType DEF Forget, Call, Typed, TypeOK
  <1>2. ASSUME NEW r \in Procs PROVE Control(r)'
    BY DEF Typed, TypeOK, Control, Where, Stores, Ordering, Forget, Call
  <1> QED
    BY <1>1, <1>2 DEF Typed

LEMMA TypedKilled ==
    ASSUME Typed, NEW p \in Procs, Killed(p)
    PROVE  Typed'
  <1>1. StorageTypeOK'
    BY DEF Typed, TypeOK, StorageTypeOK, Killed, ReleaseAll
  <1> QED
    BY <1>1, TypedForget DEF Killed

\* One step of a process, whatever it is.
LEMMA TypedStep ==
    ASSUME Typed, NEW p \in Procs, Step(p) \/ Input(p) \/ Crash(p)
    PROVE  Typed'
  <1> USE BlankTypes, EmptyType
      DEF Typed, TypeOK, Control, Where, Stores, Ordering, Labels, Prompts, Goto, Call,
          StoreUser, GetProduct, GotoList, memVars, ghostVars
  <1>0. ASSUME UNCHANGED dbVars PROVE StorageTypeOK'
    BY <1>0 DEF dbVars, StorageTypeOK
  <1>1. CASE SpOpen(p)
    <2>1. StorageTypeOK'
      BY <1>1 DEF StorageTypeOK, SpOpen, storeProductOpen, Acquire
    <2>2. TypeOK'
      BY <1>1, <2>1 DEF SpOpen
    <2>3. ASSUME NEW r \in Procs PROVE Control(r)'
      BY <1>1 DEF SpOpen
    <2> QED
      BY <2>2, <2>3
  <1>2. CASE SpWrite(p)
    <2>1. StorageTypeOK'
      BY <1>2 DEF StorageTypeOK, SpWrite, Product, storeProductWrite, Release
    <2>2. TypeOK'
      BY <1>2, <2>1 DEF SpWrite
    <2>3. ASSUME NEW r \in Procs PROVE Control(r)'
      BY <1>2 DEF SpWrite, UsesProduct
    <2> QED
      BY <2>2, <2>3
  <1>3. CASE SuOpen(p)
    <2>1. StorageTypeOK'
      BY <1>3 DEF StorageTypeOK, SuOpen, storeUserOpen, Acquire
    <2>2. TypeOK'
      BY <1>3, <2>1 DEF SuOpen
    <2>3. ASSUME NEW r \in Procs PROVE Control(r)'
      BY <1>3 DEF SuOpen
    <2> QED
      BY <2>2, <2>3
  <1>4. CASE SuWrite(p)
    <2>1. [cart |-> ItemsOf(cart[p]), orders |-> history[p]] \in UserRecord
      BY <1>4, ItemsOfType DEF UserRecord
    <2>2. StorageTypeOK'
      BY <1>4, <2>1 DEF StorageTypeOK, SuWrite, storeUserWrite, Release
    <2>3. TypeOK'
      BY <1>4, <2>1, <2>2 DEF SuWrite
    <2>4. ASSUME NEW r \in Procs PROVE Control(r)'
      BY <1>4 DEF SuWrite
    <2> QED
      BY <2>3, <2>4
  <1>5. CASE OpenFails(p)
    BY <1>5, TypedKilled DEF OpenFails
  <1>6. CASE GuOrder(p)
    <2>1. CASE NextOrder(p) \notin DOMAIN orders
      BY <1>6, <2>1, TypedKilled DEF GuOrder
    <2>2. CASE NextOrder(p) \in DOMAIN orders
      <3>1. DOMAIN orders[NextOrder(p)] \subseteq SKU
        BY <2>2, DomainType DEF StorageTypeOK
      <3>2. /\ todo' = [todo EXCEPT ![p] = DOMAIN orders[NextOrder(p)]]
            /\ Goto(p, "gu_items")
            /\ UNCHANGED <<dbVars, user, cart, history, userdb, prod, qty, menu, order,
                           listed, ghostVars>>
        BY <1>6, <2>2 DEF GuOrder
      <3>3. TypeOK'
        BY <1>0, <3>1, <3>2
      <3>4. ASSUME NEW r \in Procs PROVE Control(r)'
        BY <1>6, <3>2 DEF GuOrder
      <3> QED
        BY <3>3, <3>4
    <2> QED
      BY <2>1, <2>2
  <1>7. CASE GuItem(p)
    <2>1. \A s \in SKU : ReadProduct(s) \in Product
      BY <1>7 DEF StorageTypeOK, ReadProduct, Product
    <2>2. TypeOK'
      BY <1>7, <2>1, <1>0 DEF GuItem
    <2>3. ASSUME NEW r \in Procs PROVE Control(r)'
      BY <1>7 DEF GuItem, ReadProduct
    <2> QED
      BY <2>2, <2>3
  <1>8. CASE GuOrderDone(p)
    <2>1. history[p] \in Seq(TIDs) /\ userdb[p].orders \in Seq(TIDs)
      BY <1>8 DEF UserRecord
    <2>2. Len(history[p]) + 1 \in 1 .. Len(userdb[p].orders)
      <3>1. Len(history[p]) \in Nat /\ Len(userdb[p].orders) \in Nat
        BY <2>1, LenProperties
      <3>2. Len(history[p]) < Len(userdb[p].orders)
        BY <1>8 DEF GuOrderDone
      <3> QED
        BY <3>1, <3>2
    <2>3. NextOrder(p) \in TIDs
      BY <2>1, <2>2, ElementOfSeq DEF NextOrder
    <2>4. Append(history[p], NextOrder(p)) \in Seq(TIDs)
      BY <2>1, <2>3, AppendProperties
    <2>5. TypeOK'
      BY <1>8, <2>1, <2>2, <2>3, <2>4, <1>0 DEF GuOrderDone
    <2>6. ASSUME NEW r \in Procs PROVE Control(r)'
      BY <1>8 DEF GuOrderDone
    <2> QED
      BY <2>5, <2>6
  <1>9. CASE GuAddress(p)
    <2>1. TypeOK'
      BY <1>9, <1>0 DEF GuAddress
    <2>2. ASSUME NEW r \in Procs PROVE Control(r)'
      BY <1>9 DEF GuAddress
    <2> QED
      BY <2>1, <2>2
  <1>10. CASE GuCard(p)
    <2>1. DOMAIN userdb[p].cart \subseteq SKU
      BY <1>10, DomainType DEF UserRecord
    <2>2. TypeOK'
      BY <1>10, <2>1, <1>0 DEF GuCard
    <2>3. ASSUME NEW r \in Procs PROVE Control(r)'
      BY <1>10, <2>1 DEF GuCard
    <2> QED
      BY <2>2, <2>3
  <1>11. CASE GuCart(p)
    <2>1. \A s \in SKU : ReadProduct(s) \in Product
      BY <1>11 DEF StorageTypeOK, ReadProduct, Product
    <2>2. TypeOK'
      BY <1>11, <2>1, <1>0 DEF GuCart
    <2>3. ASSUME NEW r \in Procs PROVE Control(r)'
      BY <1>11 DEF GuCart, ReadProduct
    <2> QED
      BY <2>2, <2>3
  <1>12. CASE GuAdd(p)
    <2>1. Insert(cart[p], prod[p], userdb[p].cart[prod[p].upc]) \in Cart
      BY <1>12, InsertType, DomainType DEF UserRecord, GuAdd
    <2>2. TypeOK'
      BY <1>12, <2>1, <1>0 DEF GuAdd
    <2>3. ASSUME NEW r \in Procs PROVE Control(r)'
      BY <1>12 DEF GuAdd
    <2> QED
      BY <2>2, <2>3
  <1>13. CASE LoggedIn(p)
    <2>1. TypeOK'
      BY <1>13, <1>0 DEF LoggedIn
    <2>2. ASSUME NEW r \in Procs PROVE Control(r)'
      BY <1>13 DEF LoggedIn
    <2> QED
      BY <2>1, <2>2
  <1>14. CASE ListItem(p)
    <2>1. \A s \in SKU : ReadProduct(s) \in Product
      BY <1>14 DEF StorageTypeOK, ReadProduct, Product
    <2>2. TypeOK'
      BY <1>14, <2>1, <1>0 DEF ListItem
    <2>3. ASSUME NEW r \in Procs PROVE Control(r)'
      BY <1>14 DEF ListItem, ReadProduct
    <2> QED
      BY <2>2, <2>3
  <1>15. CASE ListDone(p)
    <2>1. TypeOK'
      BY <1>15, <1>0 DEF ListDone
    <2>2. ASSUME NEW r \in Procs PROVE Control(r)'
      BY <1>15 DEF ListDone
    <2> QED
      BY <2>1, <2>2
  <1>16. CASE AddOne(p)
    <2>1. Insert(cart[p], prod[p], 1) \in Cart
      BY <1>16, InsertType
    <2>2. CASE checkCart(cart[p], prod[p].upc)
      <3>1. Goto(p, "shell") /\ UNCHANGED cart
        BY <1>16, <2>2 DEF AddOne
      <3>2. TypeOK'
        BY <1>16, <3>1, <1>0 DEF AddOne
      <3>3. ASSUME NEW r \in Procs PROVE Control(r)'
        BY <1>16, <3>1 DEF AddOne
      <3> QED
        BY <3>2, <3>3
    <2>3. CASE ~ checkCart(cart[p], prod[p].upc)
      <3>1. /\ cart' = [cart EXCEPT ![p] = Insert(cart[p], prod[p], 1)]
            /\ StoreUser(p, "shell")
        BY <1>16, <2>3 DEF AddOne
      <3>2. TypeOK'
        BY <1>16, <2>1, <3>1, <1>0 DEF AddOne
      <3>3. ASSUME NEW r \in Procs PROVE Control(r)'
        BY <1>16, <3>1 DEF AddOne
      <3> QED
        BY <3>2, <3>3
    <2> QED
      BY <2>2, <2>3
  <1>17. CASE PutZero(p)
    <2>1. Erase(cart[p], prod[p].upc) \in Cart
      BY <1>17, EraseType
    <2>2. TypeOK'
      BY <1>17, <2>1, <1>0 DEF PutZero
    <2>3. ASSUME NEW r \in Procs PROVE Control(r)'
      BY <1>17 DEF PutZero
    <2> QED
      BY <2>2, <2>3
  <1>18. CASE Put(p)
    <2>1. Insert(cart[p], prod[p], qty[p]) \in Cart
      BY <1>18, InsertType
    <2>2. TypeOK'
      BY <1>18, <2>1, <1>0 DEF Put
    <2>3. ASSUME NEW r \in Procs PROVE Control(r)'
      BY <1>18 DEF Put
    <2> QED
      BY <2>2, <2>3
  <1>19. CASE Charge(p)
    <2>1. PICK s \in todo[p] : Charge(p)!2!(s)
      BY <1>19 DEF Charge
    <2> DEFINE item == order[p].items[s]
    <2>2. s \in DOMAIN order[p].items /\ s \in SKU /\ item \in Item
      BY <1>19, DomainType DEF Charge, Order
    <2>3. CASE item.onHand < item.qty
      BY <2>1, <2>3, TypedKilled
    <2>4. CASE ~ (item.onHand < item.qty)
      <3>1. [upc |-> s, quantity |-> Minus(item.onHand, item.qty)] \in Product
        BY <2>2, MinusType DEF Item, Product
      <3>2. /\ prod' = [prod EXCEPT ![p] =
                    [upc |-> s, quantity |-> Minus(item.onHand, item.qty)]]
            /\ todo' = [todo EXCEPT ![p] = @ \ {s}]
            /\ Call(p, "sp_open", "charge2")
            /\ UNCHANGED <<dbVars, user, cart, history, userdb, qty, menu, order, listed,
                           ghostVars>>
        BY <2>1, <2>4
      <3> HIDE DEF item
      <3>3. TypeOK'
        BY <1>0, <3>1, <3>2
      <3>4. ASSUME NEW r \in Procs PROVE Control(r)'
        BY <1>19, <3>2 DEF Charge
      <3> QED
        BY <3>3, <3>4
    <2> QED
      BY <2>3, <2>4
  <1>20. CASE ChargeAgain(p)
    <2>1. TypeOK'
      BY <1>20, <1>0 DEF ChargeAgain
    <2>2. ASSUME NEW r \in Procs PROVE Control(r)'
      BY <1>20 DEF ChargeAgain
    <2> QED
      BY <2>1, <2>2
  <1>21. CASE Charged(p)
    <2>1. TypeOK'
      BY <1>21, <1>0 DEF Charged
    <2>2. ASSUME NEW r \in Procs PROVE Control(r)'
      BY <1>21 DEF Charged
    <2> QED
      BY <2>1, <2>2
  <1>22. CASE StList(p)
    <2>1. entries \subseteq TIDs
      BY <1>22 DEF StorageTypeOK
    <2>2. TypeOK'
      BY <1>22, <2>1, <1>0 DEF StList
    <2>3. ASSUME NEW r \in Procs PROVE Control(r)'
      BY <1>22 DEF StList
    <2> QED
      BY <2>2, <2>3
  <1>23. CASE StOpen(p)
    <2>1. order[p].id \in TIDs
      BY <1>23 DEF Typed, StOpen
    <2>2. StorageTypeOK'
      BY <1>23, <2>1 DEF StorageTypeOK, StOpen, storeTransactionOpen, Acquire
    <2>3. TypeOK'
      BY <1>23, <2>1, <2>2 DEF StOpen
    <2>4. ASSUME NEW r \in Procs PROVE Control(r)'
      BY <1>23, <2>1, <2>2 DEF StOpen
    <2> QED
      BY <2>3, <2>4
  <1>24. CASE StWrite(p)
    <2>1. order[p].id \in TIDs /\ order[p].items \in Cart
      BY <1>24 DEF StWrite, Order
    <2>2. ItemsOf(order[p].items) \in ItemList
      BY <2>1, ItemsOfType
    <2>3. StorageTypeOK'
      BY <1>24, <2>1, <2>2 DEF StWrite, StorageTypeOK, storeTransactionWrite, Release
    <2>4. ASSUME NEW s \in SKU PROVE InFlight(p, s) \in Nat
      BY <2>1, DomainType DEF InFlight, Taken, Item, UInt
    <2>5. TypeOK'
      BY <1>24, <2>3, <2>4 DEF StWrite
    <2>6. ASSUME NEW r \in Procs PROVE Control(r)'
      BY <1>24 DEF StWrite
    <2> QED
      BY <2>5, <2>6
  <1>25. CASE Finish(p)
    <2>1. history[p] \in Seq(TIDs) /\ order[p].id \in TIDs
      BY <1>25 DEF Finish
    <2>2. Append(history[p], order[p].id) \in Seq(TIDs)
      BY <2>1, AppendProperties
    <2>3. TypeOK'
      BY <1>25, <2>1, <2>2, <1>0 DEF Finish
    <2>4. ASSUME NEW r \in Procs PROVE Control(r)'
      BY <1>25 DEF Finish
    <2> QED
      BY <2>3, <2>4
  <1>26. CASE AddToCartBadUpc(p)
    <2>1. TypeOK'
      BY <1>26, <1>0 DEF AddToCartBadUpc
    <2>2. ASSUME NEW r \in Procs PROVE Control(r)'
      BY <1>26 DEF AddToCartBadUpc
    <2> QED
      BY <2>1, <2>2
  <1>27. CASE OpenMenu(p)
    <2>1. TypeOK'
      BY <1>27, <1>0 DEF OpenMenu
    <2>2. ASSUME NEW r \in Procs PROVE Control(r)'
      BY <1>27 DEF OpenMenu
    <2> QED
      BY <2>1, <2>2
  <1>28. CASE Back(p)
    <2>1. TypeOK'
      BY <1>28, <1>0 DEF Back
    <2>2. ASSUME NEW r \in Procs PROVE Control(r)'
      BY <1>28 DEF Back
    <2> QED
      BY <2>1, <2>2
  <1>29. CASE ChangeAccount(p)
    <2>1. TypeOK'
      BY <1>29, <1>0 DEF ChangeAccount
    <2>2. ASSUME NEW r \in Procs PROVE Control(r)'
      BY <1>29 DEF ChangeAccount
    <2> QED
      BY <2>1, <2>2
  <1>30. CASE Clear(p)
    <2>1. TypeOK'
      BY <1>30, <1>0 DEF Clear
    <2>2. ASSUME NEW r \in Procs PROVE Control(r)'
      BY <1>30 DEF Clear
    <2> QED
      BY <2>1, <2>2
  <1>31. CASE Checkout(p)
    <2>1. \A id \in FreshIDs : [id |-> id, items |-> cart[p]] \in Order /\ id \in TIDs
      BY <1>31 DEF Order, FreshIDs
    <2>2. TypeOK'
      BY <1>31, <2>1, <1>0 DEF Checkout
    <2>3. ASSUME NEW r \in Procs PROVE Control(r)'
      BY <1>31, <2>1 DEF Checkout
    <2> QED
      BY <2>2, <2>3
  <1>32. CASE OrderAddress(p)
    <2>1. TypeOK'
      BY <1>32, <1>0 DEF OrderAddress
    <2>2. ASSUME NEW r \in Procs PROVE Control(r)'
      <3>1. CASE StoreUser(p, "ordercc")
        BY <1>32, <3>1 DEF OrderAddress
      <3>2. CASE Goto(p, "ordercc")
        BY <1>32, <3>2 DEF OrderAddress
      <3> QED
        BY <1>32, <3>1, <3>2 DEF OrderAddress
    <2> QED
      BY <2>1, <2>2
  <1>33. CASE OrderCard(p)
    <2>1. TypeOK'
      BY <1>33, <1>0 DEF OrderCard
    <2>2. ASSUME NEW r \in Procs PROVE Control(r)'
      <3>1. CASE StoreUser(p, "confirm")
        BY <1>33, <3>1 DEF OrderCard
      <3>2. CASE Goto(p, "confirm")
        BY <1>33, <3>2 DEF OrderCard
      <3> QED
        BY <1>33, <3>1, <3>2 DEF OrderCard
    <2> QED
      BY <2>1, <2>2
  <1>34. CASE Decline(p)
    <2>1. TypeOK'
      BY <1>34, <1>0 DEF Decline
    <2>2. ASSUME NEW r \in Procs PROVE Control(r)'
      BY <1>34 DEF Decline
    <2> QED
      BY <2>1, <2>2
  <1>35. CASE PlaceOrder(p)
    <2>1. DOMAIN order[p].items \subseteq SKU
      BY <1>35, DomainType DEF Order
    <2>2. TypeOK'
      BY <1>35, <2>1, <1>0 DEF PlaceOrder
    <2>3. ASSUME NEW r \in Procs PROVE Control(r)'
      BY <1>35, <2>1 DEF PlaceOrder
    <2> QED
      BY <2>2, <2>3
  <1>36. CASE Exit(p)
    BY <1>0, <1>36, TypedForget DEF Exit
  <1>37. CASE Crash(p)
    BY <1>37, TypedKilled DEF Crash
  <1>38. ASSUME NEW u \in Users, Login(p, u) PROVE Typed'
    <2>1. users[u] \in UserRecord
      BY <1>38 DEF StorageTypeOK
    <2>2. TypeOK'
      BY <1>38, <2>1, <1>0 DEF Login
    <2>3. ASSUME NEW r \in Procs PROVE Control(r)'
      BY <1>38 DEF Login
    <2> QED
      BY <2>2, <2>3
  <1>39. ASSUME NEW s \in SKU, NEW q \in Qtys, AddToCart(p, s, q) PROVE Typed'
    <2>1. ReadProduct(s) \in Product /\ q \in UInt
      BY <1>39, ShopAssumption DEF StorageTypeOK, ReadProduct, Product
    <2>2. TypeOK'
      BY <1>39, <2>1, <1>0 DEF AddToCart
    <2>3. ASSUME NEW r \in Procs PROVE Control(r)'
      BY <1>39 DEF AddToCart, ReadProduct
    <2> QED
      BY <2>2, <2>3
  <1>40. ASSUME NEW s \in SKU, NEW q \in Qtys, ChangeQty(p, s, q) PROVE Typed'
    <2>1. ReadProduct(s) \in Product /\ q \in UInt
      BY <1>40, ShopAssumption DEF StorageTypeOK, ReadProduct, Product
    <2>2. TypeOK'
      BY <1>40, <2>1, <1>0 DEF ChangeQty
    <2>3. ASSUME NEW r \in Procs PROVE Control(r)'
      BY <1>40 DEF ChangeQty, ReadProduct
    <2> QED
      BY <2>2, <2>3
  <1>41. ASSUME NEW s \in SKU, RemoveItem(p, s) PROVE Typed'
    <2>1. Erase(cart[p], s) \in Cart
      BY <1>41, EraseType
    <2>2. TypeOK'
      BY <1>41, <2>1, <1>0 DEF RemoveItem
    <2>3. ASSUME NEW r \in Procs PROVE Control(r)'
      BY <1>41 DEF RemoveItem
    <2> QED
      BY <2>2, <2>3
  <1>42. ASSUME NEW s \in SKU, AddToCartBadQty(p, s) PROVE Typed'
    <2>1. ReadProduct(s) \in Product
      BY <1>42 DEF StorageTypeOK, ReadProduct, Product
    <2>2. TypeOK'
      BY <1>42, <2>1, <1>0 DEF AddToCartBadQty
    <2>3. ASSUME NEW r \in Procs PROVE Control(r)'
      BY <1>42 DEF AddToCartBadQty, ReadProduct
    <2> QED
      BY <2>2, <2>3
  <1> QED
    BY <1>1, <1>2, <1>3, <1>4, <1>5, <1>6, <1>7, <1>8, <1>9, <1>10, <1>11,
       <1>12, <1>13, <1>14, <1>15, <1>16, <1>17, <1>18, <1>19, <1>20, <1>21,
       <1>22, <1>23, <1>24, <1>25, <1>26, <1>27, <1>28, <1>29, <1>30, <1>31,
       <1>32, <1>33, <1>34, <1>35, <1>36, <1>37, <1>38, <1>39, <1>40, <1>41,
       <1>42 DEF Step, Input

LEMMA TypedInvariant == Spec => []Typed
  <1>1. Typed /\ [Next]_vars => Typed'
    <2>1. CASE UNCHANGED vars
      BY <2>1 DEF vars, dbVars, memVars, ghostVars, Typed, TypeOK, StorageTypeOK, Control,
         Where
    <2> QED
      BY <2>1, TypedStep DEF Next
  <1> QED
    BY InitTyped, <1>1, PTL DEF Spec

\* Every variable keeps its type, whatever the processes do: no step looks up
\* a product, an order or a column family that is not there.
THEOREM TypeCorrect == Spec => []TypeOK
  BY TypedInvariant, PTL DEF Typed

-----------------------------------------------------------------------------
(* The two steps that may end the process by themselves.                   *)

Found(p) ==
    /\ pc[p] = "gu_orders"
    /\ todo' = [todo EXCEPT ![p] = DOMAIN orders[NextOrder(p)]]
    /\ Goto(p, "gu_items")
    /\ UNCHANGED <<dbVars, user, cart, history, userdb, prod, qty, menu, order, listed,
                   ghostVars>>

ChargeItem(p, s) ==
    /\ pc[p] = "charge"
    /\ s \in todo[p]
    /\ order[p].items[s].onHand >= order[p].items[s].qty
    /\ prod' = [prod EXCEPT ![p] =
            [upc |-> s,
             quantity |-> Minus(order[p].items[s].onHand, order[p].items[s].qty)]]
    /\ todo' = [todo EXCEPT ![p] = @ \ {s}]
    /\ Call(p, "sp_open", "charge2")
    /\ UNCHANGED <<dbVars, user, cart, history, userdb, qty, menu, order, listed,
                   ghostVars>>

\* The steps that end a process.
Ends(p) == Killed(p) \/ Exit(p)

LEMMA EndsCases ==
    ASSUME Typed, NEW p \in Procs
    PROVE  /\ OpenFails(p) \/ Crash(p) \/ Exit(p) => Ends(p)
           /\ GuOrder(p) => Ends(p) \/ Found(p)
           /\ Charge(p) => Ends(p) \/ \E s \in todo[p] : ChargeItem(p, s)
  <1>1. OpenFails(p) \/ Crash(p) \/ Exit(p) => Ends(p)
    BY DEF OpenFails, Crash, Ends
  <1>2. GuOrder(p) => Ends(p) \/ Found(p)
    BY DEF GuOrder, Ends, Found
  <1>3. ASSUME Charge(p) PROVE Ends(p) \/ \E s \in todo[p] : ChargeItem(p, s)
    <2>1. PICK s \in todo[p] : Charge(p)!2!(s)
      BY <1>3 DEF Charge
    <2>2. s \in DOMAIN order[p].items /\ order[p].items[s] \in Item
      BY <1>3, DomainType DEF Charge, Typed, TypeOK, Order, Control, Where, Stores
    <2>3. order[p].items[s].onHand < order[p].items[s].qty
            \/ order[p].items[s].onHand >= order[p].items[s].qty
      BY <2>2, CartAssumption DEF Item, UInt
    <2> QED
      BY <1>3, <2>1, <2>3 DEF Charge, Ends, ChargeItem
  <1> QED
    BY <1>1, <1>2, <1>3

-----------------------------------------------------------------------------
(* The orders a user record names are written.  An order is appended to a  *)
(* history by Finish, after StWrite, and copied from there.                *)

HistoryWritten ==
    /\ OrdersExist
    /\ \A p \in Procs : pc[p] = "finish" => order[p].id \in DOMAIN orders

\* The steps that leave the lists of orders alone.
WrittenQuiet(p) ==
    \/ SpOpen(p) \/ SpWrite(p) \/ SuOpen(p) \/ Found(p)
    \/ GuItem(p) \/ GuAddress(p) \/ GuCard(p) \/ GuCart(p) \/ GuAdd(p)
    \/ ListItem(p) \/ ListDone(p) \/ AddOne(p) \/ PutZero(p) \/ Put(p)
    \/ \E s \in todo[p] : ChargeItem(p, s)
    \/ ChargeAgain(p) \/ Charged(p) \/ StList(p) \/ StOpen(p)
    \/ \E s \in SKU, q \in Qtys : AddToCart(p, s, q) \/ ChangeQty(p, s, q)
    \/ \E s \in SKU : RemoveItem(p, s) \/ AddToCartBadQty(p, s)
    \/ AddToCartBadUpc(p) \/ OpenMenu(p) \/ Back(p) \/ ChangeAccount(p)
    \/ Clear(p) \/ Checkout(p) \/ OrderAddress(p) \/ OrderCard(p)
    \/ Decline(p) \/ PlaceOrder(p)

LEMMA WrittenFrame ==
    ASSUME Typed, NEW p \in Procs, WrittenQuiet(p)
    PROVE  /\ UNCHANGED <<users, orders, history, userdb>>
           /\ \A r \in Procs : r # p => order'[r] = order[r]
           /\ \A r \in Procs : pc'[r] = "finish" => r # p /\ pc[r] = "finish"
  <1> USE DEF WrittenQuiet, Typed, TypeOK, Control, Stores, dbVars, memVars, ghostVars,
          SpOpen, SpWrite, SuOpen, Found, GuItem, GuAddress, GuCard, GuCart, GuAdd, ListItem,
          ListDone, AddOne, PutZero, Put, ChargeItem, ChargeAgain, Charged, StList, StOpen,
          AddToCart, ChangeQty, RemoveItem, AddToCartBadQty, AddToCartBadUpc, OpenMenu,
          Back, ChangeAccount, Clear, Checkout, OrderAddress, OrderCard, Decline,
          PlaceOrder, Goto, Call, StoreUser, GetProduct, GotoList
  <1>1. UNCHANGED <<users, orders, history, userdb>>
    BY DEF storeProductOpen, storeProductWrite, storeUserOpen, storeTransactionOpen
  <1>2. ASSUME NEW r \in Procs PROVE r # p => order'[r] = order[r]
    OBVIOUS
  <1>3. ASSUME NEW r \in Procs PROVE pc'[r] = "finish" => r # p /\ pc[r] = "finish"
    OBVIOUS
  <1> QED
    BY <1>1, <1>2, <1>3

LEMMA WrittenStep ==
    ASSUME Typed, HistoryWritten, NEW p \in Procs, Step(p) \/ Input(p) \/ Crash(p)
    PROVE  HistoryWritten'
  <1> USE DEF HistoryWritten, OrdersExist, Written
  <1>1. CASE WrittenQuiet(p)
    BY <1>1, WrittenFrame
  <1>2. CASE Ends(p)
    <2>1. Forget(p) /\ UNCHANGED <<users, orders>>
      BY <1>2 DEF Ends, Killed, Exit, dbVars
    <2> QED
      BY <2>1 DEF Forget, Call, BlankRecord, Typed, TypeOK
  <1>3. CASE SuWrite(p)
    BY <1>3 DEF SuWrite, storeUserWrite, Call, memVars, Typed, TypeOK, StorageTypeOK, Control, Stores
  <1>4. CASE \E u \in Users : Login(p, u)
    BY <1>4 DEF Login, Goto, dbVars, Typed, TypeOK
  <1>5. CASE GuOrderDone(p)
    <2>1. history[p] \in Seq(TIDs) /\ userdb[p].orders \in Seq(TIDs)
      BY DEF Typed, TypeOK, UserRecord
    <2>2. Len(history[p]) \in Nat /\ Len(userdb[p].orders) \in Nat
      BY <2>1, LenProperties
    <2>3. Len(history[p]) < Len(userdb[p].orders)
      BY <1>5 DEF GuOrderDone, Typed, Control, Where, Stores
    <2>4. Len(history[p]) + 1 \in DOMAIN userdb[p].orders
      BY <2>1, <2>2, <2>3
    <2>5. NextOrder(p) \in DOMAIN orders /\ NextOrder(p) \in TIDs
      BY <2>4, <2>1 DEF NextOrder
    <2>6. Written(Append(history[p], NextOrder(p)))
      BY <2>1, <2>5
    <2> QED
      BY <1>5, <2>6 DEF GuOrderDone, Goto, dbVars, Typed, TypeOK
  <1>6. CASE LoggedIn(p)
    BY <1>6 DEF LoggedIn, GotoList, Goto, BlankRecord, dbVars, Typed, TypeOK
  <1>7. CASE StWrite(p)
    BY <1>7 DEF StWrite, storeTransactionWrite, Goto, memVars, Typed, TypeOK
  <1>8. CASE Finish(p)
    <2>1. history[p] \in Seq(TIDs) /\ order[p].id \in TIDs
      BY <1>8 DEF Finish, Typed, TypeOK, Control, Where, Stores, Ordering
    <2>2. Written(Append(history[p], order[p].id))
      BY <1>8, <2>1 DEF Finish
    <2> QED
      BY <1>8, <2>2 DEF Finish, StoreUser, Call, dbVars, Typed, TypeOK
  <1> QED
    BY <1>1, <1>2, <1>3, <1>4, <1>5, <1>6, <1>7, <1>8, EndsCases
       DEF Step, Input, WrittenQuiet

\* Nobody who logs in meets an order that is not there: for any number of
\* processes and users, every order named in the users database or in memory
\* has been written by storeTransaction.
THEOREM OrdersExistCorrect == Spec => []OrdersExist
  <1>1. Init => HistoryWritten
    BY SampleAssumption DEF Init, StorageInit, BlankRecord, HistoryWritten, OrdersExist, Written
  <1>2. Typed /\ HistoryWritten /\ [Next]_vars => HistoryWritten'
    <2>1. CASE UNCHANGED vars
      BY <2>1 DEF vars, dbVars, memVars, HistoryWritten, OrdersExist, Written
    <2> QED
      BY <2>1, WrittenStep DEF Next
  <1>3. HistoryWritten => OrdersExist
    BY DEF HistoryWritten
  <1> QED
    BY <1>1, <1>2, <1>3, TypedInvariant, PTL DEF Spec

-----------------------------------------------------------------------------
(* The LOCK files.                                                         *)

\* The steps that open and close nothing.
LockQuiet(p) ==
    \/ Found(p) \/ GuItem(p) \/ GuOrderDone(p) \/ GuAddress(p) \/ GuCard(p) \/ GuCart(p)
    \/ GuAdd(p) \/ LoggedIn(p) \/ ListItem(p) \/ ListDone(p)
    \/ AddOne(p) \/ PutZero(p) \/ Put(p)
    \/ \E s \in todo[p] : ChargeItem(p, s)
    \/ ChargeAgain(p) \/ Charged(p) \/ StList(p) \/ Finish(p)
    \/ \E u \in Users : Login(p, u)
    \/ \E s \in SKU, q \in Qtys : AddToCart(p, s, q) \/ ChangeQty(p, s, q)
    \/ \E s \in SKU : RemoveItem(p, s) \/ AddToCartBadQty(p, s)
    \/ AddToCartBadUpc(p) \/ OpenMenu(p) \/ Back(p) \/ ChangeAccount(p)
    \/ Clear(p) \/ Checkout(p) \/ OrderAddress(p) \/ OrderCard(p)
    \/ Decline(p) \/ PlaceOrder(p)

Writing == {"sp_write", "su_write", "st_write"}

LEMMA LockFrame ==
    ASSUME Typed, NEW p \in Procs, LockQuiet(p)
    PROVE  /\ UNCHANGED lock
           /\ pc[p] \notin Writing /\ pc'[p] \notin Writing
           /\ \A r \in Procs : r # p => pc'[r] = pc[r]
  <1> USE DEF LockQuiet, Typed, TypeOK, Control, Stores, dbVars, memVars, Writing,
          Found, GuItem, GuOrderDone, GuAddress, GuCard, GuCart, GuAdd, LoggedIn, ListItem,
          ListDone, AddOne, PutZero, Put, ChargeItem, ChargeAgain, Charged, StList, Finish,
          Login, AddToCart, ChangeQty, RemoveItem, AddToCartBadQty, AddToCartBadUpc,
          OpenMenu, Back, ChangeAccount, Clear, Checkout, OrderAddress, OrderCard, Decline,
          PlaceOrder, Goto, Call, StoreUser, GetProduct, GotoList
  <1>1. UNCHANGED lock
    OBVIOUS
  <1>2. pc[p] \notin Writing
    OBVIOUS
  <1>3. pc'[p] \notin Writing
    OBVIOUS
  <1>4. ASSUME NEW r \in Procs, r # p PROVE pc'[r] = pc[r]
    BY <1>4
  <1> QED
    BY <1>1, <1>2, <1>3, <1>4

LEMMA LockStep ==
    ASSUME Typed, LockOwned, NEW p \in Procs, Step(p) \/ Input(p) \/ Crash(p)
    PROVE  LockOwned'
  <1> USE DEF LockOwned, WriteLabel, DBs
  <1>1. CASE LockQuiet(p)
    BY <1>1, LockFrame DEF Writing
  <1>2. CASE Ends(p)
    <2>1. CASE Killed(p)
      BY <2>1, StorageAssumption DEF Killed, ReleaseAll, Forget, Call, Typed, TypeOK
    <2>2. CASE Exit(p)
      BY <2>2 DEF Exit, Forget, Call, dbVars, Typed, TypeOK
    <2> QED
      BY <1>2, <2>1, <2>2 DEF Ends
  <1>3. CASE SpOpen(p) \/ SuOpen(p) \/ StOpen(p)
    BY <1>3, StorageAssumption DEF SpOpen, SuOpen, StOpen, storeProductOpen, storeUserOpen,
       storeTransactionOpen, CanOpenOrders, IsFree, Acquire, Goto, Typed, TypeOK, StorageTypeOK
  <1>4. CASE SpWrite(p) \/ SuWrite(p)
    <2>1. pc'[p] \notin Writing
      BY <1>4 DEF SpWrite, SuWrite, Call, Typed, TypeOK, Control, Stores, Writing
    <2>2. CASE SpWrite(p)
      BY <2>1, <2>2, StorageAssumption DEF SpWrite, storeProductWrite, Release, Call, Writing,
         Typed, TypeOK, StorageTypeOK
    <2>3. CASE SuWrite(p)
      BY <2>1, <2>3, StorageAssumption DEF SuWrite, storeUserWrite, Release, Call, Writing,
         Typed, TypeOK, StorageTypeOK
    <2> QED
      BY <1>4, <2>2, <2>3
  <1>5. CASE StWrite(p)
    BY <1>5, StorageAssumption DEF StWrite, storeTransactionWrite, Release, Goto, Typed, TypeOK,
       StorageTypeOK
  <1> QED
    BY <1>1, <1>2, <1>3, <1>4, <1>5, EndsCases DEF Step, Input, LockQuiet

\* Two processes never have the same database open for writing, and a lock
\* never outlives its process.
THEOREM LockOwnedCorrect == Spec => []LockOwned
  <1>1. Init => LockOwned
    BY StorageAssumption DEF Init, StorageInit, LockOwned, WriteLabel, DBs
  <1>2. Typed /\ LockOwned /\ [Next]_vars => LockOwned'
    <2>1. CASE UNCHANGED vars
      BY <2>1 DEF vars, dbVars, LockOwned
    <2> QED
      BY <2>1, LockStep DEF Next
  <1> QED
    BY <1>1, <1>2, TypedInvariant, PTL DEF Spec

-----------------------------------------------------------------------------
(* Quantities.                                                             *)

\* Every on-hand quantity in the databases and in memory is one that --init
\* wrote, less what was sold.
Bounded ==
    /\ StockBounded
    /\ \A p \in Procs :
        /\ prod[p].quantity <= Stock[prod[p].upc]
        /\ \A s \in DOMAIN cart[p] : cart[p][s].onHand <= Stock[s]
        /\ \A s \in DOMAIN order[p].items : order[p].items[s].onHand <= Stock[s]

\* The steps that change no quantity.
QtyQuiet(p) ==
    \/ SpOpen(p) \/ SuOpen(p) \/ SuWrite(p) \/ Found(p) \/ GuOrderDone(p) \/ GuAddress(p)
    \/ GuCard(p) \/ LoggedIn(p) \/ ListDone(p)
    \/ ChargeAgain(p) \/ Charged(p) \/ StList(p) \/ StOpen(p) \/ StWrite(p)
    \/ \E u \in Users : Login(p, u)
    \/ AddToCartBadUpc(p) \/ OpenMenu(p) \/ Back(p) \/ ChangeAccount(p)
    \/ OrderAddress(p) \/ OrderCard(p) \/ PlaceOrder(p)

LEMMA QtyFrame ==
    ASSUME NEW p \in Procs, QtyQuiet(p)
    PROVE  UNCHANGED <<products, prod, cart, order>>
  BY DEF QtyQuiet, dbVars, memVars, SpOpen, SuOpen, SuWrite, Found, GuOrderDone, GuAddress,
     GuCard, LoggedIn, ListDone, ChargeAgain, Charged, StList, StOpen, StWrite, Login,
     AddToCartBadUpc, OpenMenu, Back, ChangeAccount, OrderAddress, OrderCard, PlaceOrder,
     storeProductOpen, storeUserOpen, storeUserWrite, storeTransactionOpen,
     storeTransactionWrite

Quantities == Bounded /\ ChargeWithinCopy

LEMMA QtyStep ==
    ASSUME Typed, Quantities, NEW p \in Procs, Step(p) \/ Input(p) \/ Crash(p)
    PROVE  Quantities'
  <1> USE DEF Quantities, Bounded, StockBounded, ChargeWithinCopy, InvalidQty, Typed, TypeOK
  <1>0. /\ NoProduct.quantity <= Stock[NoProduct.upc]
        /\ NoOrder.items = EmptyCart /\ DOMAIN EmptyCart = {}
    BY SampleAssumption, CartAssumption, BlankTypes, EmptyType
       DEF NoProduct, NoOrder, Product, UInt
  <1>1. CASE QtyQuiet(p)
    BY <1>1, QtyFrame
  <1>2. CASE Ends(p)
    <2>1. Forget(p) /\ UNCHANGED products
      BY <1>2 DEF Ends, Killed, Exit, dbVars
    <2> QED
      BY <1>0, <2>1 DEF Forget
  <1>3. CASE SpWrite(p)
    BY <1>0, <1>3 DEF SpWrite, storeProductWrite, Product, StorageTypeOK
  <1>4. ASSUME NEW s \in SKU, prod' = [prod EXCEPT ![p] = ReadProduct(s)],
               UNCHANGED <<products, cart, order>>
        PROVE  Quantities'
    BY <1>4 DEF ReadProduct
  <1>5. CASE \/ GuItem(p) \/ GuCart(p) \/ ListItem(p)
             \/ \E s \in SKU, q \in Qtys : AddToCart(p, s, q) \/ ChangeQty(p, s, q)
             \/ \E s \in SKU : AddToCartBadQty(p, s)
    BY <1>4, <1>5 DEF GuItem, GuCart, ListItem, AddToCart, ChangeQty, AddToCartBadQty,
       GetProduct, dbVars
  <1>6. ASSUME NEW q, cart' = [cart EXCEPT ![p] = Insert(cart[p], prod[p], q)],
               prod' = [prod EXCEPT ![p] = NoProduct], UNCHANGED <<products, order>>
        PROVE  Quantities'
    BY <1>0, <1>6 DEF Insert
  <1>7. CASE GuAdd(p) \/ Put(p)
    BY <1>6, <1>7 DEF GuAdd, Put, dbVars
  <1>8. CASE AddOne(p)
    BY <1>0, <1>6, <1>8 DEF AddOne, dbVars
  <1>9. CASE PutZero(p) \/ \E s \in SKU : RemoveItem(p, s)
    <2>1. ASSUME NEW s, cart' = [cart EXCEPT ![p] = Erase(cart[p], s)],
                 UNCHANGED <<products, prod, order>>
          PROVE  Quantities'
      BY <2>1 DEF Erase
    <2> QED
      BY <1>9, <2>1 DEF PutZero, RemoveItem, dbVars
  <1>10. CASE Clear(p) \/ Decline(p) \/ Finish(p)
    BY <1>0, <1>10 DEF Clear, Decline, Finish, dbVars
  <1>11. CASE Checkout(p)
    BY <1>11 DEF Checkout, dbVars
  <1>12. CASE \E s \in todo[p] : ChargeItem(p, s)
    <2>1. PICK s \in todo[p] : ChargeItem(p, s)
      BY <1>12
    <2> DEFINE item == order[p].items[s]
    <2>2. s \in SKU /\ item \in Item /\ item.onHand <= Stock[s]
      BY <2>1, DomainType DEF ChargeItem, Order, Control, Where, Stores
    <2>3. Minus(item.onHand, item.qty) <= Stock[s]
      <3>1. item.onHand \in UInt /\ item.qty \in UInt /\ item.qty <= item.onHand
        BY <2>1, <2>2, CartAssumption DEF ChargeItem, Item, UInt
      <3>2. Minus(item.onHand, item.qty) = item.onHand - item.qty
        BY <3>1, MinusType
      <3>3. Stock[s] \in UInt
        BY <2>2, SampleAssumption
      <3> QED
        BY <2>2, <3>1, <3>2, <3>3, CartAssumption DEF UInt
    <2> QED
      BY <2>1, <2>3 DEF ChargeItem, dbVars
  <1> QED
    BY <1>1, <1>2, <1>3, <1>5, <1>7, <1>8, <1>9, <1>10, <1>11, <1>12, EndsCases
       DEF Step, Input, QtyQuiet

LEMMA QtyInvariant == Spec => []Quantities
  <1>1. Init => Quantities
    <2>1. NoProduct.quantity <= Stock[NoProduct.upc]
      BY SampleAssumption, CartAssumption, BlankTypes DEF NoProduct, Product, UInt
    <2>2. NoOrder.items = EmptyCart /\ DOMAIN EmptyCart = {}
      BY EmptyType DEF NoOrder
    <2>3. \A s \in SKU : Stock[s] <= Stock[s]
      BY SampleAssumption, CartAssumption DEF UInt
    <2> QED
      BY <2>1, <2>2, <2>3 DEF Init, StorageInit, Quantities, Bounded, StockBounded,
         ChargeWithinCopy, InvalidQty
  <1>2. Typed /\ Quantities /\ [Next]_vars => Quantities'
    <2>1. CASE UNCHANGED vars
      BY <2>1 DEF vars, dbVars, memVars, Quantities, Bounded, StockBounded, ChargeWithinCopy
    <2> QED
      BY <2>1, QtyStep DEF Next
  <1> QED
    BY <1>1, <1>2, TypedInvariant, PTL DEF Spec

\* chargeCreditCard never throws, for any number of processes: once checkout
\* let the order through, its copies of the products cover it.
THEOREM ChargeWithinCopyCorrect == Spec => []ChargeWithinCopy
  BY QtyInvariant, PTL DEF Quantities

\* No interleaving of sales and stale write-backs makes more of a product
\* than --init put there.
THEOREM StockBoundedCorrect == Spec => []StockBounded
  BY QtyInvariant, PTL DEF Quantities, Bounded

-----------------------------------------------------------------------------
(* The ids of orders.  storeTransaction keeps what is in the database      *)
(* because the id it writes under is new: no other process has it, and it  *)
(* becomes a column family only when storeTransaction opens the database.  *)

OrderIds ==
    /\ DOMAIN orders \subseteq entries
    /\ \A p, q \in Procs : p # q /\ order[p].id = order[q].id => order[p].id = NoTID
    /\ \A p \in Procs : pc[p] \notin {"st_write", "finish"} => order[p].id \notin entries
    /\ \A p \in Procs : pc[p] = "st_write" => order[p].id \in entries \ DOMAIN orders

\* The steps that give no id to an order and take none away.
IdsQuiet(p) ==
    \/ SpOpen(p) \/ SpWrite(p) \/ SuOpen(p) \/ SuWrite(p) \/ Found(p)
    \/ GuItem(p) \/ GuOrderDone(p) \/ GuAddress(p) \/ GuCard(p) \/ GuCart(p) \/ GuAdd(p)
    \/ LoggedIn(p) \/ ListItem(p) \/ ListDone(p) \/ AddOne(p) \/ PutZero(p) \/ Put(p)
    \/ \E s \in todo[p] : ChargeItem(p, s)
    \/ ChargeAgain(p) \/ Charged(p) \/ StList(p)
    \/ \E u \in Users : Login(p, u)
    \/ \E s \in SKU, q \in Qtys : AddToCart(p, s, q) \/ ChangeQty(p, s, q)
    \/ \E s \in SKU : RemoveItem(p, s) \/ AddToCartBadQty(p, s)
    \/ AddToCartBadUpc(p) \/ OpenMenu(p) \/ Back(p) \/ ChangeAccount(p)
    \/ Clear(p) \/ OrderAddress(p) \/ OrderCard(p) \/ PlaceOrder(p)

LEMMA IdsFrame ==
    ASSUME Typed, NEW p \in Procs, IdsQuiet(p)
    PROVE  /\ UNCHANGED <<entries, orders, order>>
           /\ \A r \in Procs : r # p => pc'[r] = pc[r]
           /\ pc[p] \notin {"st_write", "finish"} /\ pc'[p] \notin {"st_write", "finish"}
  <1> USE DEF IdsQuiet, Typed, TypeOK, Control, Stores, dbVars, memVars, ghostVars,
          SpOpen, SpWrite, SuOpen, SuWrite, Found, GuItem, GuOrderDone, GuAddress, GuCard,
          GuCart, GuAdd, LoggedIn, ListItem, ListDone, AddOne, PutZero, Put, ChargeItem,
          ChargeAgain, Charged, StList, Login, AddToCart, ChangeQty, RemoveItem,
          AddToCartBadQty, AddToCartBadUpc, OpenMenu, Back, ChangeAccount, Clear,
          OrderAddress, OrderCard, PlaceOrder, Goto, Call, StoreUser, GetProduct, GotoList
  <1>1. UNCHANGED <<entries, orders, order>>
    BY DEF storeProductOpen, storeProductWrite, storeUserOpen, storeUserWrite
  <1>2. ASSUME NEW r \in Procs, r # p PROVE pc'[r] = pc[r]
    BY <1>2
  <1>3. pc[p] \notin {"st_write", "finish"}
    OBVIOUS
  <1>4. pc'[p] \notin {"st_write", "finish"}
    OBVIOUS
  <1> QED
    BY <1>1, <1>2, <1>3, <1>4

LEMMA IdsStep ==
    ASSUME Typed, OrderIds, NEW p \in Procs, Step(p) \/ Input(p) \/ Crash(p)
    PROVE  OrderIds'
  <1> USE DEF OrderIds, Typed, TypeOK
  <1>0. NoTID \notin entries /\ NoOrder.id = NoTID
    BY StorageAssumption DEF StorageTypeOK, NoOrder
  <1>1. CASE IdsQuiet(p)
    BY <1>1, IdsFrame
  <1>2. ASSUME UNCHANGED <<entries, orders>>, order' = [order EXCEPT ![p] = NoOrder],
               \A r \in Procs : r # p => pc'[r] = pc[r], pc'[p] \notin {"st_write", "finish"}
        PROVE  OrderIds'
    <2>1. \A r \in Procs : order'[r].id = IF r = p THEN NoTID ELSE order[r].id
      BY <1>0, <1>2
    <2> QED
      BY <1>0, <1>2, <2>1
  <1>3. CASE Ends(p)
    BY <1>2, <1>3 DEF Ends, Killed, Exit, Forget, Call, dbVars
  <1>4. CASE Decline(p) \/ Finish(p)
    BY <1>2, <1>4 DEF Decline, Finish, StoreUser, Goto, Call, dbVars
  <1>5. CASE Checkout(p)
    <2>1. PICK id \in FreshIDs : order' = [order EXCEPT ![p] = [id |-> id, items |-> cart[p]]]
      BY <1>5 DEF Checkout
    <2>2. id \notin entries /\ \A r \in Procs : id # order[r].id
      BY <2>1 DEF FreshIDs
    <2>3. \A r \in Procs : order'[r].id = IF r = p THEN id ELSE order[r].id
      BY <2>1
    <2>4. UNCHANGED <<entries, orders>> /\ pc' = [pc EXCEPT ![p] = "orderaddr"]
      BY <1>5 DEF Checkout, Goto, dbVars
    <2> QED
      BY <2>2, <2>3, <2>4
  <1>6. CASE StOpen(p)
    <2>1. /\ entries' = entries \cup {order[p].id}
          /\ UNCHANGED <<orders, order>>
          /\ pc[p] = "st_open" /\ pc' = [pc EXCEPT ![p] = "st_write"]
      BY <1>6 DEF StOpen, storeTransactionOpen, Goto, memVars
    <2>2. order[p].id # NoTID /\ order[p].id \notin entries
      BY <2>1, StorageAssumption DEF Control, Where, Stores, Ordering
    <2> QED
      BY <2>1, <2>2
  <1>7. CASE StWrite(p)
    <2>1. /\ DOMAIN orders' = DOMAIN orders \cup {order[p].id}
          /\ UNCHANGED <<entries, order>>
          /\ pc[p] = "st_write" /\ pc' = [pc EXCEPT ![p] = "finish"]
      BY <1>7 DEF StWrite, storeTransactionWrite, Goto, memVars
    <2>2. \A r \in Procs : r # p /\ pc[r] = "st_write" => order[r].id # order[p].id
      BY <1>0, <2>1
    <2> QED
      BY <2>1, <2>2
  <1> QED
    BY <1>1, <1>3, <1>4, <1>5, <1>6, <1>7, EndsCases DEF Step, Input, IdsQuiet

LEMMA IdsInvariant == Spec => []OrderIds
  <1>1. Init => OrderIds
    BY SampleAssumption, StorageAssumption DEF Init, StorageInit, OrderIds, NoOrder
  <1>2. Typed /\ OrderIds /\ [Next]_vars => OrderIds'
    <2>1. CASE UNCHANGED vars
      BY <2>1 DEF vars, dbVars, memVars, OrderIds
    <2> QED
      BY <2>1, IdsStep DEF Next
  <1> QED
    BY <1>1, <1>2, TypedInvariant, PTL DEF Spec

\* Only storeTransaction changes the orders, and what it writes is new.
LEMMA OrdersFrame ==
    ASSUME Typed, OrderIds, NEW p \in Procs, Step(p) \/ Input(p) \/ Crash(p)
    PROVE  \/ UNCHANGED orders
           \/ StWrite(p) /\ order[p].id \notin DOMAIN orders
  <1>1. CASE IdsQuiet(p)
    BY <1>1, IdsFrame
  <1>2. CASE Ends(p) \/ Decline(p) \/ Finish(p) \/ Checkout(p) \/ StOpen(p)
    BY <1>2 DEF Ends, Killed, Exit, Decline, Finish, Checkout, StOpen, storeTransactionOpen, dbVars
  <1>3. CASE StWrite(p)
    BY <1>3 DEF StWrite, OrderIds
  <1> QED
    BY <1>1, <1>2, <1>3, EndsCases DEF Step, Input, IdsQuiet

\* No process changes or removes an order that storeTransaction has written,
\* however many of them check out at once and wherever they are killed.
THEOREM OrdersImmutableCorrect == Spec => OrdersImmutable
  <1>1. Typed /\ OrderIds /\ [Next]_vars =>
            [\A t \in DOMAIN orders : t \in DOMAIN orders' /\ orders'[t] = orders[t]]_orders
    <2> SUFFICES ASSUME Typed, OrderIds, [Next]_vars, orders' # orders, NEW t \in DOMAIN orders
                 PROVE  t \in DOMAIN orders' /\ orders'[t] = orders[t]
      OBVIOUS
    <2>1. PICK p \in Procs : Step(p) \/ Input(p) \/ Crash(p)
      BY DEF Next, vars, dbVars
    <2>2. StWrite(p) /\ order[p].id \notin DOMAIN orders
      BY <2>1, OrdersFrame
    <2> QED
      BY <2>2 DEF StWrite, storeTransactionWrite
  <1> QED
    BY <1>1, TypedInvariant, IdsInvariant, PTL DEF Spec, OrdersImmutable

=============================================================================
