-------------------------- MODULE UserRecordProofs --------------------------
(***************************************************************************)
(* Proofs about the records of users: any number of processes, of which no *)
(* two are logged in as the same user, so that a record has one writer.    *)
(*                                                                         *)
(* storeUser writes the whole record from memory, so what is on disk is    *)
(* safe only if memory has it.  getUser rebuilds the history before the    *)
(* first store that it causes, and the cart after the last one: the        *)
(* history never shrinks, and the cart on disk is emptied by a login.      *)
(***************************************************************************)
EXTENDS OnlineShopProofs, SessionCart

-----------------------------------------------------------------------------
(* Prefixes.                                                               *)

\* What sequence s holds is at the beginning of t.
Begins(s, t) == Len(s) <= Len(t) /\ \A i \in DOMAIN s : s[i] = t[i]

LEMMA BeginsIsPrefix ==
    ASSUME NEW S, NEW s \in Seq(S), NEW t \in Seq(S), Begins(s, t)
    PROVE  IsPrefix(s, t)
  <1> DEFINE n == Len(s)
             a == SubSeq(s, 1, n)
             b == SubSeq(t, 1, n)
  <1>1. n \in Nat /\ Len(t) \in Nat /\ n <= Len(t) /\ DOMAIN s = 1 .. n /\ DOMAIN t = 1 .. Len(t)
    BY LenProperties DEF Begins
  <1>2. \A i \in 1 .. n : s[i] \in S /\ t[i] \in S /\ s[i] = t[i]
    BY <1>1, ElementOfSeq DEF Begins
  <1> HIDE DEF n
  <1>3. /\ a \in Seq(S) /\ Len(a) = IF 1 <= n THEN n - 1 + 1 ELSE 0
        /\ \A i \in 1 .. n - 1 + 1 : a[i] = s[1 + i - 1]
    BY <1>1, <1>2, SubSeqProperties
  <1>4. /\ b \in Seq(S) /\ Len(b) = IF 1 <= n THEN n - 1 + 1 ELSE 0
        /\ \A i \in 1 .. n - 1 + 1 : b[i] = t[1 + i - 1]
    BY <1>1, <1>2, SubSeqProperties
  <1> HIDE DEF a, b
  <1>5. \A i \in 1 .. Len(a) : a[i] = b[i]
    <2> SUFFICES ASSUME NEW i \in 1 .. Len(a) PROVE a[i] = b[i]
      OBVIOUS
    <2>1. i \in 1 .. n /\ i \in 1 .. n - 1 + 1 /\ 1 + i - 1 = i
      BY <1>1, <1>3
    <2> QED
      BY <1>2, <1>3, <1>4, <2>1
  <1>6. a = b
    BY <1>3, <1>4, <1>5, SeqEqual
  <1> QED
    BY <1>1, <1>6 DEF IsPrefix, n, a, b

LEMMA BeginsItself ==
    ASSUME NEW S, NEW s \in Seq(S)
    PROVE  Begins(s, s)
  BY LenProperties DEF Begins

LEMMA BeginsRange ==
    ASSUME NEW S, NEW s \in Seq(S), NEW t \in Seq(S), Begins(s, t)
    PROVE  Range(s) \subseteq Range(t)
  <1>1. Len(s) \in Nat /\ Len(t) \in Nat /\ Len(s) <= Len(t)
        /\ DOMAIN s = 1 .. Len(s) /\ DOMAIN t = 1 .. Len(t)
    BY LenProperties DEF Begins
  <1>2. DOMAIN s \subseteq DOMAIN t
    BY <1>1
  <1> QED
    BY <1>2 DEF Begins, Range

\* Appending keeps the beginning, and adds the element.
LEMMA BeginsAppend ==
    ASSUME NEW S, NEW s \in Seq(S), NEW t \in Seq(S), NEW e \in S, Begins(s, t)
    PROVE  /\ Begins(s, Append(t, e))
           /\ Range(Append(t, e)) = Range(t) \cup {e}
  <1>1. Len(s) \in Nat /\ Len(t) \in Nat /\ Len(s) <= Len(t)
        /\ DOMAIN s = 1 .. Len(s) /\ DOMAIN t = 1 .. Len(t)
    BY LenProperties DEF Begins
  <1>2. /\ Len(Append(t, e)) = Len(t) + 1
        /\ DOMAIN Append(t, e) = 1 .. Len(t) + 1
        /\ \A i \in 1 .. Len(t) : Append(t, e)[i] = t[i]
        /\ Append(t, e)[Len(t) + 1] = e
    BY AppendProperties, LenProperties
  <1>3. Begins(s, Append(t, e))
    BY <1>1, <1>2 DEF Begins
  <1>4. 1 .. Len(t) + 1 = (1 .. Len(t)) \cup {Len(t) + 1}
    BY <1>1
  <1>5. Range(Append(t, e)) = Range(t) \cup {e}
    BY <1>1, <1>2, <1>4 DEF Range
  <1> QED
    BY <1>3, <1>5

-----------------------------------------------------------------------------
(* What one process does to another.                                       *)

\* A user has one session at a time.  The program does not see to it; with one
\* process it is so.
OneSessionEach ==
    \A p, q \in Procs : p # q /\ pc[p] # "off" /\ pc[q] # "off" => user[p] # user[q]

\* A process works on its own memory.
LEMMA OthersFrame ==
    ASSUME Typed, NEW p \in Procs, Step(p) \/ Input(p) \/ Crash(p), NEW r \in Procs, r # p
    PROVE  /\ pc'[r] = pc[r] /\ ret'[r] = ret[r]
           /\ user'[r] = user[r] /\ cart'[r] = cart[r]
           /\ history'[r] = history[r] /\ userdb'[r] = userdb[r] /\ order'[r] = order[r]
  <1> USE DEF Typed, TypeOK, memVars, Goto, Call, StoreUser, GetProduct, GotoList
  <1>1. CASE Ends(p)
    BY <1>1 DEF Ends, Killed, Exit, Forget
  <1>2. CASE SpOpen(p) \/ SpWrite(p) \/ SuOpen(p) \/ SuWrite(p)
    BY <1>2 DEF SpOpen, SpWrite, SuOpen, SuWrite
  <1>3. CASE \/ (\E u \in Users : Login(p, u)) \/ Found(p) \/ GuItem(p) \/ GuOrderDone(p)
             \/ GuAddress(p) \/ GuCard(p)
    BY <1>3 DEF Login, Found, GuItem, GuOrderDone, GuAddress, GuCard
  <1>4. CASE GuCart(p) \/ GuAdd(p) \/ LoggedIn(p) \/ ListItem(p) \/ ListDone(p)
    BY <1>4 DEF GuCart, GuAdd, LoggedIn, ListItem, ListDone
  <1>5. CASE \/ AddOne(p) \/ PutZero(p) \/ Put(p)
             \/ \E s \in SKU, q \in Qtys : AddToCart(p, s, q) \/ ChangeQty(p, s, q)
             \/ \E s \in SKU : RemoveItem(p, s) \/ AddToCartBadQty(p, s)
    BY <1>5 DEF AddOne, PutZero, Put, AddToCart, ChangeQty, RemoveItem, AddToCartBadQty
  <1>6. CASE AddToCartBadUpc(p) \/ OpenMenu(p) \/ Back(p) \/ ChangeAccount(p) \/ Clear(p)
    BY <1>6 DEF AddToCartBadUpc, OpenMenu, Back, ChangeAccount, Clear
  <1>7. CASE Checkout(p) \/ OrderAddress(p) \/ OrderCard(p) \/ Decline(p) \/ PlaceOrder(p)
    BY <1>7 DEF Checkout, OrderAddress, OrderCard, Decline, PlaceOrder
  <1>8. CASE \/ (\E s \in todo[p] : ChargeItem(p, s)) \/ ChargeAgain(p) \/ Charged(p)
             \/ StList(p) \/ StOpen(p) \/ StWrite(p) \/ Finish(p)
    BY <1>8 DEF ChargeItem, ChargeAgain, Charged, StList, StOpen, StWrite, Finish
  <1> QED
    BY <1>1, <1>2, <1>3, <1>4, <1>5, <1>6, <1>7, <1>8, EndsCases DEF Step, Input

-----------------------------------------------------------------------------
(* The history.                                                            *)

StoringUser(p) == pc[p] \in {"su_open", "su_write"}

Loading == {"gu_orders", "gu_items"}

\* While getUser loads the orders, memory has the first of those that are on
\* disk, and nothing is stored; from then on the disk has the first of those
\* in memory.
HistoryKept(p) ==
    /\ Where(p) = "off" => history[p] = <<>>
    /\ Where(p) \in Loading \cup {"off"} => ~ StoringUser(p)
    /\ Where(p) \in Loading =>
        userdb[p] = users[user[p]] /\ Begins(history[p], userdb[p].orders)
    /\ Where(p) \notin Loading \cup {"off"} => Begins(users[user[p]].orders, history[p])

\* The steps that leave the history alone, on disk and in memory.
HistoryQuiet(p) ==
    \/ SpOpen(p) \/ SpWrite(p) \/ SuOpen(p) \/ Found(p)
    \/ GuItem(p) \/ GuCard(p) \/ GuCart(p) \/ GuAdd(p)
    \/ ListItem(p) \/ ListDone(p) \/ AddOne(p) \/ PutZero(p) \/ Put(p)
    \/ \E s \in todo[p] : ChargeItem(p, s)
    \/ ChargeAgain(p) \/ Charged(p) \/ StList(p) \/ StOpen(p) \/ StWrite(p)
    \/ \E s \in SKU, q \in Qtys : AddToCart(p, s, q) \/ ChangeQty(p, s, q)
    \/ \E s \in SKU : RemoveItem(p, s) \/ AddToCartBadQty(p, s)
    \/ AddToCartBadUpc(p) \/ OpenMenu(p) \/ Back(p) \/ ChangeAccount(p)
    \/ Clear(p) \/ Checkout(p) \/ OrderAddress(p) \/ OrderCard(p)
    \/ Decline(p) \/ PlaceOrder(p)

LEMMA HistoryFrame ==
    ASSUME Typed, NEW p \in Procs, HistoryQuiet(p)
    PROVE  /\ UNCHANGED <<users, user, history, userdb>>
           /\ Where(p)' = "off" <=> Where(p) = "off"
           /\ Where(p)' \in Loading <=> Where(p) \in Loading
           /\ Where(p)' \in Loading \cup {"off"} /\ StoringUser(p)' => StoringUser(p)
  <1> USE DEF HistoryQuiet, Typed, TypeOK, Control, Where, Stores, StoringUser, Loading,
          dbVars, memVars, ghostVars, SpOpen, SpWrite, SuOpen, Found, GuItem, GuCard, GuCart,
          GuAdd, ListItem, ListDone, AddOne, PutZero, Put, ChargeItem, ChargeAgain, Charged,
          StList, StOpen, StWrite, AddToCart, ChangeQty, RemoveItem, AddToCartBadQty,
          AddToCartBadUpc, OpenMenu, Back, ChangeAccount, Clear, Checkout, OrderAddress,
          OrderCard, Decline, PlaceOrder, Goto, Call, StoreUser, GetProduct, GotoList
  <1>1. UNCHANGED <<users, user, history, userdb>>
    BY DEF storeProductOpen, storeProductWrite, storeUserOpen, storeTransactionOpen,
       storeTransactionWrite
  <1>2. Where(p)' = "off" <=> Where(p) = "off"
    OBVIOUS
  <1>3. Where(p)' \in Loading <=> Where(p) \in Loading
    OBVIOUS
  <1>4. Where(p)' \in Loading \cup {"off"} /\ StoringUser(p)' => StoringUser(p)
    OBVIOUS
  <1> QED
    BY <1>1, <1>2, <1>3, <1>4

LEMMA HistoryTypes ==
    ASSUME Typed, NEW p \in Procs, NEW u \in Users
    PROVE  /\ history[p] \in Seq(TIDs) /\ userdb[p].orders \in Seq(TIDs)
           /\ users[u].orders \in Seq(TIDs) /\ user[p] \in Users
  BY DEF Typed, TypeOK, StorageTypeOK, UserRecord

LEMMA HistoryKeptStep ==
    ASSUME Typed, NEW p \in Procs, HistoryKept(p), Step(p) \/ Input(p) \/ Crash(p)
    PROVE  HistoryKept(p)'
  <1> USE DEF HistoryKept
  <1>0. /\ history[p] \in Seq(TIDs) /\ userdb[p].orders \in Seq(TIDs)
        /\ user[p] \in Users /\ users[user[p]].orders \in Seq(TIDs)
    BY HistoryTypes DEF Typed, TypeOK
  <1>1. CASE HistoryQuiet(p)
    BY <1>1, HistoryFrame
  <1>2. CASE Ends(p)
    <2>1. history'[p] = <<>> /\ pc'[p] = "off"
      BY <1>2 DEF Ends, Killed, Exit, Forget, Call, Typed, TypeOK
    <2> QED
      BY <2>1 DEF Where, Stores, StoringUser, Loading
  <1>3. CASE \E u \in Users : Login(p, u)
    <2>1. PICK u \in Users : Login(p, u)
      BY <1>3
    <2>2. /\ pc[p] = "off" /\ pc'[p] = "gu_orders" /\ user'[p] = u
          /\ userdb'[p] = users[u] /\ UNCHANGED <<users, history>>
      BY <2>1 DEF Login, Goto, dbVars, Typed, TypeOK
    <2>3. history[p] = <<>>
      BY <2>2 DEF Where, Stores
    <2>4. Begins(<<>>, users[u].orders)
      BY HistoryTypes DEF Begins
    <2> QED
      BY <2>2, <2>3, <2>4 DEF Where, Stores, StoringUser, Loading
  <1>4. CASE GuOrderDone(p)
    <2>1. /\ pc[p] = "gu_items" /\ pc'[p] = "gu_orders"
          /\ UNCHANGED <<users, user, userdb>>
          /\ history'[p] = Append(history[p], NextOrder(p))
      BY <1>4 DEF GuOrderDone, Goto, dbVars, Typed, TypeOK
    <2>2. Len(history[p]) < Len(userdb[p].orders) /\ Begins(history[p], userdb[p].orders)
      BY <2>1 DEF Typed, Control, Where, Stores, Loading
    <2>3. Len(history[p]) \in Nat /\ Len(userdb[p].orders) \in Nat
      BY <1>0, LenProperties
    <2>4. NextOrder(p) \in TIDs /\ NextOrder(p) = userdb[p].orders[Len(history[p]) + 1]
      BY <1>0, <2>2, <2>3, ElementOfSeq DEF NextOrder
    <2>5. Begins(Append(history[p], NextOrder(p)), userdb[p].orders)
      <3>1. /\ Len(Append(history[p], NextOrder(p))) = Len(history[p]) + 1
            /\ DOMAIN Append(history[p], NextOrder(p)) = 1 .. Len(history[p]) + 1
            /\ \A i \in 1 .. Len(history[p]) : Append(history[p], NextOrder(p))[i] = history[p][i]
            /\ Append(history[p], NextOrder(p))[Len(history[p]) + 1] = NextOrder(p)
        BY <1>0, <2>4, AppendProperties, LenProperties
      <3>2. DOMAIN history[p] = 1 .. Len(history[p])
        BY <1>0, LenProperties
      <3> QED
        BY <2>2, <2>3, <2>4, <3>1, <3>2 DEF Begins
    <2> QED
      BY <2>1, <2>5 DEF Where, Stores, StoringUser, Loading
  <1>5. CASE GuAddress(p)
    <2>1. /\ pc[p] = "gu_orders" /\ pc'[p] = "su_open" /\ ret'[p] = "gu_cc"
          /\ Len(history[p]) = Len(userdb[p].orders)
          /\ UNCHANGED <<users, user, history>>
      BY <1>5 DEF GuAddress, StoreUser, Call, dbVars, memVars, Typed, TypeOK
    <2>2. userdb[p] = users[user[p]] /\ Begins(history[p], userdb[p].orders)
      BY <2>1 DEF Where, Stores, Loading
    <2>3. Begins(users[user[p]].orders, history[p])
      BY <1>0, <2>1, <2>2, LenProperties DEF Begins
    <2> QED
      BY <2>1, <2>3 DEF Where, Stores, StoringUser, Loading
  <1>6. CASE SuWrite(p)
    <2>1. /\ pc[p] = "su_write" /\ pc'[p] = ret[p] /\ UNCHANGED <<user, history>>
          /\ users'[user[p]].orders = history[p]
      BY <1>0, <1>6 DEF SuWrite, storeUserWrite, Call, memVars, Typed, TypeOK, StorageTypeOK
    <2>2. ret[p] \notin Stores \cup Loading \cup {"off"}
      BY <2>1 DEF Typed, Control, Where, Stores, StoringUser, Loading
    <2>3. Begins(history[p], history[p])
      BY <1>0, BeginsItself
    <2> QED
      BY <2>1, <2>2, <2>3 DEF Where
  <1>7. CASE LoggedIn(p)
    <2>1. /\ pc[p] = "gu_cart" /\ pc'[p] = "list" /\ UNCHANGED <<users, user, history>>
      BY <1>7 DEF LoggedIn, GotoList, Goto, dbVars, Typed, TypeOK
    <2> QED
      BY <2>1 DEF Where, Stores, StoringUser, Loading
  <1>8. CASE Finish(p)
    <2>1. /\ pc[p] = "finish" /\ pc'[p] = "su_open" /\ ret'[p] = "list"
          /\ UNCHANGED <<users, user>> /\ history'[p] = Append(history[p], order[p].id)
      BY <1>8 DEF Finish, StoreUser, Call, dbVars, Typed, TypeOK
    <2>2. order[p].id \in TIDs /\ Begins(users[user[p]].orders, history[p])
      BY <2>1 DEF Typed, Control, Where, Stores, Ordering, Loading
    <2>3. Begins(users[user[p]].orders, Append(history[p], order[p].id))
      BY <1>0, <2>2, BeginsAppend
    <2> QED
      BY <2>1, <2>3 DEF Where, Stores, StoringUser, Loading
  <1> QED
    BY <1>1, <1>2, <1>3, <1>4, <1>5, <1>6, <1>7, <1>8, EndsCases
       DEF Step, Input, HistoryQuiet

\* Only storeUser changes the users database.
LEMMA UsersFrame ==
    ASSUME Typed, NEW p \in Procs, Step(p) \/ Input(p) \/ Crash(p)
    PROVE  UNCHANGED users \/ SuWrite(p)
  <1>1. CASE HistoryQuiet(p)
    BY <1>1, HistoryFrame
  <1>2. CASE \/ Ends(p) \/ (\E u \in Users : Login(p, u)) \/ GuOrderDone(p) \/ GuAddress(p)
             \/ LoggedIn(p) \/ Finish(p)
    BY <1>2 DEF Ends, Killed, Exit, Login, GuOrderDone, GuAddress, LoggedIn, Finish, dbVars
  <1> QED
    BY <1>1, <1>2, EndsCases DEF Step, Input, HistoryQuiet

\* A store of the user writes a history that begins with the one on disk.
LEMMA StoredHistory ==
    ASSUME Typed, NEW p \in Procs, HistoryKept(p), SuWrite(p)
    PROVE  /\ user[p] \in Users
           /\ users' = [users EXCEPT ![user[p]] =
                            [cart |-> ItemsOf(cart[p]), orders |-> history[p]]]
           /\ Begins(users[user[p]].orders, history[p])
  <1>1. user[p] \in Users
    BY DEF Typed, TypeOK
  <1>2. Where(p) \notin Loading \cup {"off"}
    BY DEF HistoryKept, StoringUser, SuWrite
  <1> QED
    BY <1>1, <1>2 DEF HistoryKept, SuWrite, storeUserWrite

\* A step leaves the record of every other process's user alone.
LEMMA OthersRecord ==
    ASSUME Typed, OneSessionEach, NEW p \in Procs, Step(p) \/ Input(p) \/ Crash(p),
           NEW r \in Procs, r # p, pc[r] # "off"
    PROVE  users'[user[r]] = users[user[r]]
  <1>1. CASE UNCHANGED users
    BY <1>1
  <1>2. CASE SuWrite(p)
    <2>1. user[p] # user[r] /\ user[r] \in Users
      BY <1>2 DEF SuWrite, OneSessionEach, Typed, TypeOK
    <2> QED
      BY <1>2, <2>1 DEF SuWrite, storeUserWrite, Typed, TypeOK, StorageTypeOK
  <1> QED
    BY <1>1, <1>2, UsersFrame

LEMMA HistoryInvariant == Spec /\ []OneSessionEach => [](\A p \in Procs : HistoryKept(p))
  <1> DEFINE Kept == \A p \in Procs : HistoryKept(p)
  <1>1. Init => Kept
    BY DEF Init, HistoryKept, Where, Stores, StoringUser, Loading
  <1>2. Typed /\ OneSessionEach /\ Kept /\ [Next]_vars => Kept'
    <2> SUFFICES ASSUME Typed, OneSessionEach, Kept, [Next]_vars, NEW r \in Procs
                 PROVE  HistoryKept(r)'
      OBVIOUS
    <2>1. CASE UNCHANGED vars
      BY <2>1 DEF vars, dbVars, memVars, HistoryKept, Where, StoringUser
    <2>2. ASSUME NEW p \in Procs, Step(p) \/ Input(p) \/ Crash(p)
          PROVE  HistoryKept(r)'
      <3>1. CASE r = p
        BY <2>2, <3>1, HistoryKeptStep
      <3>2. CASE r # p
        <4>1. /\ pc'[r] = pc[r] /\ ret'[r] = ret[r] /\ user'[r] = user[r]
              /\ history'[r] = history[r] /\ userdb'[r] = userdb[r]
          BY <2>2, <3>2, OthersFrame
        <4>2. Where(r) # "off" => users'[user[r]] = users[user[r]]
          BY <2>2, <3>2, OthersRecord DEF Where, Stores
        <4> QED
          BY <4>1, <4>2 DEF HistoryKept, Where, StoringUser, Loading
      <3> QED
        BY <3>1, <3>2
    <2> QED
      BY <2>1, <2>2 DEF Next
  <1> HIDE DEF Kept
  <1>3. Spec /\ []OneSessionEach => []Kept
    BY <1>1, <1>2, TypedInvariant, PTL DEF Spec
  <1> QED
    BY <1>3 DEF Kept

\* The list of a user's orders never loses or changes an entry when no two
\* processes are logged in as the same user, wherever processes are killed: the
\* stores that a login causes come after all the orders have been loaded.
THEOREM HistoryGrowsCorrect == Spec /\ []OneSessionEach => HistoryGrows
  <1> DEFINE Kept == \A p \in Procs : HistoryKept(p)
  <1>1. Typed /\ Kept /\ [Next]_vars =>
            [\A u \in Users : IsPrefix(users[u].orders, users'[u].orders)]_users
    <2> SUFFICES ASSUME Typed, Kept, [Next]_vars, users' # users, NEW u \in Users
                 PROVE  IsPrefix(users[u].orders, users'[u].orders)
      OBVIOUS
    <2>1. PICK p \in Procs : Step(p) \/ Input(p) \/ Crash(p)
      BY DEF Next, vars, dbVars
    <2>2. SuWrite(p)
      BY <2>1, UsersFrame
    <2>3. /\ users' = [users EXCEPT ![user[p]] =
                            [cart |-> ItemsOf(cart[p]), orders |-> history[p]]]
          /\ Begins(users[user[p]].orders, history[p])
      BY <2>2, StoredHistory
    <2>4. history[p] \in Seq(TIDs) /\ users[u].orders \in Seq(TIDs)
      BY HistoryTypes
    <2>5. Begins(users[u].orders, users[u].orders)
      BY <2>4, BeginsItself
    <2>6. \/ users'[u].orders = users[u].orders
          \/ u = user[p] /\ users'[u].orders = history[p]
      BY <2>3 DEF Typed, TypeOK, StorageTypeOK
    <2> QED
      BY <2>3, <2>4, <2>5, <2>6, BeginsIsPrefix
  <1>2. Spec /\ []OneSessionEach => []Kept
    BY HistoryInvariant
  <1> HIDE DEF Kept
  <1> QED
    BY <1>1, <1>2, TypedInvariant, PTL DEF Spec, HistoryGrows

-----------------------------------------------------------------------------
(* The cart.                                                               *)

\* The places between the first store of a login and the end of getUser.
Rebuilding == {"gu_cc", "gu_cart", "gu_add"}

\* The cart in memory is empty until the stores of a login are over, which
\* leave an empty cart on disk.  That is all there is on disk until a command
\* changes or stores the cart; from then on disk and memory agree.
CartKept(p) ==
    /\ Where(p) \in Loading \cup {"off", "gu_cc"} => cart[p] = EmptyCart
    /\ Where(p) \in Loading \cup Rebuilding \cup {"off"} => ~ touched[p]
    /\ StoringUser(p) => Where(p) # "gu_add" /\ (Where(p) = "gu_cart" => cart[p] = EmptyCart)
    /\ Where(p) \in Rebuilding /\ ~ StoringUser(p) => users[user[p]].cart = EmptyList
    /\ Where(p) \notin Rebuilding \cup Loading \cup {"off"} /\ ~ StoringUser(p)
        => users[user[p]].cart = IF touched[p] THEN ItemsOf(cart[p]) ELSE EmptyList

LEMMA Observed ==
    ASSUME Observe, NEW p \in Procs
    PROVE  touched'[p] <=> pc'[p] # "off" /\ (touched[p] \/ ChangesCart(p) \/ EndsStore(p))
  BY DEF Observe

\* The steps that leave the cart alone, on disk and in memory.
CartQuiet(p) ==
    \/ SpOpen(p) \/ SpWrite(p) \/ SuOpen(p) \/ Found(p) \/ GuItem(p) \/ GuOrderDone(p)
    \/ GuAddress(p) \/ GuCard(p) \/ GuCart(p) \/ LoggedIn(p) \/ ListItem(p) \/ ListDone(p)
    \/ \E s \in todo[p] : ChargeItem(p, s)
    \/ ChargeAgain(p) \/ Charged(p) \/ StList(p) \/ StOpen(p) \/ StWrite(p)
    \/ \E s \in SKU, q \in Qtys : AddToCart(p, s, q) \/ ChangeQty(p, s, q)
    \/ \E s \in SKU : AddToCartBadQty(p, s)
    \/ AddToCartBadUpc(p) \/ OpenMenu(p) \/ Back(p) \/ ChangeAccount(p)
    \/ Checkout(p) \/ OrderAddress(p) \/ OrderCard(p) \/ Decline(p) \/ PlaceOrder(p)

LEMMA CartQuietStep ==
    ASSUME Typed, NEW p \in Procs, CartKept(p), CartQuiet(p), Observe
    PROVE  CartKept(p)'
  <1> USE DEF CartQuiet, Typed, TypeOK, Control, Where, Stores, StoringUser, Loading, Rebuilding,
          dbVars, memVars, ghostVars, SpOpen, SpWrite, SuOpen, Found, GuItem, GuOrderDone,
          GuAddress, GuCard, GuCart, LoggedIn, ListItem, ListDone, ChargeItem, ChargeAgain,
          Charged, StList, StOpen, StWrite, AddToCart, ChangeQty, AddToCartBadQty,
          AddToCartBadUpc, OpenMenu, Back, ChangeAccount, Checkout, OrderAddress, OrderCard,
          Decline, PlaceOrder, Goto, Call, StoreUser, GetProduct, GotoList
  <1>1. UNCHANGED <<users, user, cart>>
    BY DEF storeProductOpen, storeProductWrite, storeUserOpen, storeTransactionOpen,
       storeTransactionWrite
  <1>2. Where(p)' \in Loading \cup {"off", "gu_cc"} => Where(p) \in Loading \cup {"off", "gu_cc"}
    OBVIOUS
  <1>3. StoringUser(p)' => Where(p)' # "gu_add"
    BY DEF CartKept
  <1>4. StoringUser(p)' /\ Where(p)' = "gu_cart" =>
            (StoringUser(p) /\ Where(p) = "gu_cart") \/ Where(p) = "gu_cc"
    OBVIOUS
  <1>5. ~ StoringUser(p)' => ~ StoringUser(p)
    OBVIOUS
  <1>6. ~ StoringUser(p)' /\ Where(p)' \in Rebuilding => Where(p) \in Rebuilding
    OBVIOUS
  <1>7. ~ StoringUser(p)' /\ Where(p)' \notin Rebuilding \cup Loading \cup {"off"} =>
            Where(p) \notin Loading \cup {"off"}
    OBVIOUS
  <1>8. Where(p)' \in Loading \cup Rebuilding \cup {"off"} =>
            Where(p) \in Loading \cup Rebuilding \cup {"off"}
    OBVIOUS
  <1>9. pc[p] # "su_write" /\ (pc'[p] = "off" => Where(p)' = "off")
    OBVIOUS
  <1>10. ~ ChangesCart(p) /\ ~ EndsStore(p)
    BY <1>1, <1>9 DEF ChangesCart, EndsStore
  <1>11. touched'[p] <=> pc'[p] # "off" /\ touched[p]
    BY <1>10, Observed
  <1> QED
    BY <1>1, <1>2, <1>3, <1>4, <1>5, <1>6, <1>7, <1>8, <1>9, <1>11 DEF CartKept

\* The commands and the step of getUser that change the cart in memory.
LEMMA CartChangeStep ==
    ASSUME Typed, NEW p \in Procs, CartKept(p), Observe,
           \/ GuAdd(p) \/ AddOne(p) \/ PutZero(p) \/ Put(p) \/ Clear(p) \/ Finish(p)
           \/ \E s \in SKU : RemoveItem(p, s)
    PROVE  CartKept(p)'
  <1> USE DEF CartKept, Typed, TypeOK, Where, Stores, StoringUser, Loading, Rebuilding, dbVars,
          GuAdd, AddOne, PutZero, Put, Clear, Finish, RemoveItem, Goto, Call, StoreUser
  <1>1. CASE GuAdd(p)
    <2>1. ~ ChangesCart(p) /\ ~ EndsStore(p)
      BY <1>1 DEF ChangesCart, EndsStore
    <2>2. touched'[p] <=> touched[p]
      BY <1>1, <2>1, Observed
    <2> QED
      BY <1>1, <2>2
  <1>2. CASE AddOne(p)
    <2>1. CASE checkCart(cart[p], prod[p].upc)
      <3>1. ~ ChangesCart(p) /\ ~ EndsStore(p)
        BY <1>2, <2>1 DEF ChangesCart, EndsStore
      <3>2. touched'[p] <=> touched[p]
        BY <1>2, <2>1, <3>1, Observed
      <3> QED
        BY <1>2, <2>1, <3>2
    <2>2. CASE ~ checkCart(cart[p], prod[p].upc)
      BY <1>2, <2>2
    <2> QED
      BY <2>1, <2>2
  <1>3. CASE PutZero(p) \/ Put(p) \/ Clear(p) \/ Finish(p) \/ \E s \in SKU : RemoveItem(p, s)
    <2>1. /\ StoringUser(p)' /\ ~ StoringUser(p)
          /\ Where(p)' \notin Rebuilding \cup Loading \cup {"off"}
      BY <1>3
    <2> QED
      BY <2>1
  <1> QED
    BY <1>1, <1>2, <1>3

LEMMA CartKeptStep ==
    ASSUME Typed, NEW p \in Procs, HistoryKept(p), CartKept(p), Observe,
           Step(p) \/ Input(p) \/ Crash(p)
    PROVE  CartKept(p)'
  <1>1. CASE Ends(p)
    <2>1. cart'[p] = EmptyCart /\ pc'[p] = "off"
      BY <1>1 DEF Ends, Killed, Exit, Forget, Call, Typed, TypeOK
    <2>2. ~ touched'[p]
      BY <2>1, Observed
    <2> QED
      BY <2>1, <2>2 DEF CartKept, Where, Stores, StoringUser, Loading, Rebuilding
  <1>2. CASE \E u \in Users : Login(p, u)
    <2>1. pc[p] = "off" /\ pc'[p] = "gu_orders" /\ UNCHANGED cart
      BY <1>2 DEF Login, Goto, Typed, TypeOK
    <2>2. ~ touched'[p]
      <3>1. ~ ChangesCart(p) /\ ~ EndsStore(p)
        BY <2>1 DEF ChangesCart, EndsStore
      <3>2. ~ touched[p]
        BY <2>1 DEF CartKept, Where, Stores
      <3> QED
        BY <3>1, <3>2, Observed
    <2> QED
      BY <2>1, <2>2 DEF CartKept, Where, Stores, StoringUser, Loading, Rebuilding
  <1>3. CASE SuWrite(p)
    <2>1. /\ pc[p] = "su_write" /\ pc'[p] = ret[p] /\ UNCHANGED <<user, cart>>
          /\ ret[p] \notin Stores
      BY <1>3 DEF SuWrite, Call, memVars, Typed, TypeOK, Control, Stores
    <2>2. users'[user[p]].cart = ItemsOf(cart[p])
      BY <1>3, StoredHistory DEF Typed, TypeOK, StorageTypeOK
    <2>3. ItemsOf(EmptyCart) = EmptyList
      BY EmptyType DEF ItemsOf, EmptyList
    <2>4. Where(p) = ret[p] /\ Where(p)' = ret[p] /\ StoringUser(p) /\ ~ StoringUser(p)'
      BY <2>1 DEF Where, Stores, StoringUser
    <2>5. CASE ret[p] \in Loading \cup Rebuilding \cup {"off"}
      <3>1. ret[p] \in {"gu_cc", "gu_cart"}
        BY <2>4, <2>5 DEF CartKept, HistoryKept, Loading, Rebuilding
      <3>2. ~ ChangesCart(p) /\ ~ EndsStore(p)
        BY <2>1, <3>1 DEF ChangesCart, EndsStore
      <3>3. ~ touched[p]
        BY <2>4, <2>5 DEF CartKept
      <3>4. ~ touched'[p]
        BY <2>1, <3>2, <3>3, Observed
      <3> QED
        BY <2>1, <2>2, <2>3, <2>4, <2>5, <3>4 DEF CartKept, Rebuilding
    <2>6. CASE ret[p] \notin Loading \cup Rebuilding \cup {"off"}
      <3>1. EndsStore(p) /\ pc'[p] # "off"
        BY <2>1, <2>6 DEF EndsStore, Rebuilding
      <3>2. touched'[p]
        BY <3>1, Observed
      <3> QED
        BY <2>1, <2>2, <2>4, <2>6, <3>2 DEF CartKept
    <2> QED
      BY <2>5, <2>6
  <1> QED
    BY <1>1, <1>2, <1>3, CartQuietStep, CartChangeStep, EndsCases DEF Step, Input, CartQuiet

\* The history variable only watches: every behaviour of SpecH is one of Spec.
LEMMA ObservedIsSpec == SpecH => Spec
  <1>1. InitH => Init
    BY DEF InitH
  <1>2. [NextH]_varsH => [Next]_vars
    BY DEF NextH, varsH
  <1> QED
    BY <1>1, <1>2, PTL DEF SpecH, Spec

\* Whenever the program waits for a command, what the database has of the cart
\* is exactly what the cart menu would show, if the session has changed or
\* stored its cart, and nothing otherwise, because getUser stored the user
\* before it read the cart: for any number of processes that are logged in as
\* different users.
THEOREM CartStoredCorrect == SpecH /\ []OneSessionEach => []CartStored
  <1> DEFINE Kept == \A p \in Procs : HistoryKept(p)
             Carts == \A p \in Procs : CartKept(p)
  <1>1. InitH => Carts
    BY DEF InitH, Init, CartKept, Where, Stores, StoringUser, Loading, Rebuilding
  <1>2. Typed /\ OneSessionEach /\ Kept /\ Carts /\ [NextH]_varsH => Carts'
    <2> SUFFICES ASSUME Typed, OneSessionEach, Kept, Carts, [NextH]_varsH, NEW r \in Procs
                 PROVE  CartKept(r)'
      OBVIOUS
    <2>1. CASE UNCHANGED varsH
      BY <2>1 DEF varsH, vars, dbVars, memVars, CartKept, Where, StoringUser
    <2>2. ASSUME NEW p \in Procs, Step(p) \/ Input(p) \/ Crash(p), Observe
          PROVE  CartKept(r)'
      <3>1. CASE r = p
        BY <2>2, <3>1, CartKeptStep
      <3>2. CASE r # p
        <4>1. /\ pc'[r] = pc[r] /\ ret'[r] = ret[r] /\ user'[r] = user[r]
              /\ cart'[r] = cart[r]
          BY <2>2, <3>2, OthersFrame
        <4>2. Where(r) # "off" => users'[user[r]] = users[user[r]]
          BY <2>2, <3>2, OthersRecord DEF Where, Stores
        <4>3. ~ ChangesCart(r) /\ ~ EndsStore(r)
          BY <4>1 DEF ChangesCart, EndsStore, Typed, Control, Stores
        <4>4. touched'[r] <=> pc[r] # "off" /\ touched[r]
          BY <2>2, <4>1, <4>3, Observed
        <4> QED
          BY <4>1, <4>2, <4>4 DEF CartKept, Where, Stores, StoringUser, Loading, Rebuilding
      <3> QED
        BY <3>1, <3>2
    <2> QED
      BY <2>1, <2>2 DEF NextH, Next
  <1>3. Carts => CartStored
    BY DEF CartKept, CartStored, Prompts, Where, Stores, StoringUser, Loading, Rebuilding
  <1>4. Spec /\ []OneSessionEach => []Kept
    BY HistoryInvariant
  <1> HIDE DEF Kept, Carts
  <1> QED
    BY <1>1, <1>2, <1>3, <1>4, ObservedIsSpec, TypedInvariant, PTL DEF SpecH

-----------------------------------------------------------------------------
(* Every order belongs to somebody.                                        *)

\* Steps of a process that has no order to put into a history and is not
\* storing the user.
OwnedQuiet(p) ==
    \/ SpOpen(p) \/ SpWrite(p) \/ Found(p) \/ GuItem(p) \/ GuOrderDone(p)
    \/ GuAddress(p) \/ GuCard(p) \/ GuCart(p) \/ GuAdd(p) \/ LoggedIn(p) \/ ListItem(p)
    \/ ListDone(p) \/ AddOne(p) \/ PutZero(p) \/ Put(p)
    \/ \E s \in todo[p] : ChargeItem(p, s)
    \/ ChargeAgain(p) \/ Charged(p) \/ StList(p) \/ StOpen(p)
    \/ \E u \in Users : Login(p, u)
    \/ \E s \in SKU, q \in Qtys : AddToCart(p, s, q) \/ ChangeQty(p, s, q)
    \/ \E s \in SKU : RemoveItem(p, s) \/ AddToCartBadQty(p, s)
    \/ AddToCartBadUpc(p) \/ OpenMenu(p) \/ Back(p) \/ ChangeAccount(p)
    \/ Clear(p) \/ Checkout(p) \/ OrderAddress(p) \/ OrderCard(p)
    \/ Decline(p) \/ PlaceOrder(p) \/ Exit(p)

LEMMA OwnedFrame ==
    ASSUME NEW p \in Procs, OwnedQuiet(p)
    PROVE  /\ UNCHANGED <<users, orders, killed>>
           /\ pc[p] \notin {"finish", "su_open", "su_write"}
  <1> USE DEF OwnedQuiet, dbVars, memVars, ghostVars, SpOpen, SpWrite, Found, GuItem,
          GuOrderDone, GuAddress, GuCard, GuCart, GuAdd, LoggedIn, ListItem, ListDone, AddOne,
          PutZero, Put, ChargeItem, ChargeAgain, Charged, StList, StOpen, Login, AddToCart,
          ChangeQty, RemoveItem, AddToCartBadQty, AddToCartBadUpc, OpenMenu, Back,
          ChangeAccount, Clear, Checkout, OrderAddress, OrderCard, Decline, PlaceOrder, Exit
  <1>1. UNCHANGED <<users, orders, killed>>
    BY DEF storeProductOpen, storeProductWrite, storeTransactionOpen
  <1>2. pc[p] \notin {"finish", "su_open", "su_write"}
    OBVIOUS
  <1> QED
    BY <1>1, <1>2

LEMMA OwnedStep ==
    ASSUME Typed, NEW p \in Procs, HistoryKept(p), OrdersOwned, Step(p) \/ Input(p) \/ Crash(p)
    PROVE  OrdersOwned'
  <1> DEFINE Owned(t) == \E u \in Users : t \in Range(users[u].orders)
             Coming(q, t) == \/ pc[q] = "finish" /\ order[q].id = t
                             \/ pc[q] \in {"su_open", "su_write"} /\ t \in Range(history[q])
  <1>1. ~ killed => \A t \in DOMAIN orders : Owned(t) \/ \E q \in Procs : Coming(q, t)
    BY DEF OrdersOwned
  <1>2. SUFFICES ~ killed' =>
            \A t \in DOMAIN orders' : Owned(t)' \/ \E q \in Procs : Coming(q, t)'
    BY DEF OrdersOwned
  <1>3. \A q \in Procs : q # p => \A t : Coming(q, t) => Coming(q, t)'
    BY OthersFrame
  \* It is enough to look at the orders that are new or that p has in hand.
  <1>4. ASSUME UNCHANGED <<users, orders, killed>>,
               \A t : Coming(p, t) => Coming(p, t)'
        PROVE  ~ killed' =>
                   \A t \in DOMAIN orders' : Owned(t)' \/ \E q \in Procs : Coming(q, t)'
    BY <1>1, <1>3, <1>4
  <1>5. CASE OwnedQuiet(p)
    BY <1>4, <1>5, OwnedFrame
  <1>6. CASE Killed(p)
    BY <1>6 DEF Killed
  <1>7. CASE SuOpen(p)
    BY <1>4, <1>7 DEF SuOpen, storeUserOpen, Goto, memVars, ghostVars, Typed, TypeOK
  <1>8. CASE SuWrite(p)
    <2>1. /\ user[p] \in Users
          /\ users' = [users EXCEPT ![user[p]] =
                            [cart |-> ItemsOf(cart[p]), orders |-> history[p]]]
          /\ Begins(users[user[p]].orders, history[p])
      BY <1>8, StoredHistory
    <2>2. UNCHANGED <<orders, killed>> /\ pc[p] = "su_write"
      BY <1>8 DEF SuWrite, storeUserWrite, ghostVars
    <2>3. Range(users[user[p]].orders) \subseteq Range(history[p])
      BY <2>1, HistoryTypes, BeginsRange
    <2>4. /\ users'[user[p]].orders = history[p]
          /\ \A u \in Users : u # user[p] => users'[u] = users[u]
      BY <2>1 DEF Typed, TypeOK, StorageTypeOK
    <2>5. \A t : Coming(p, t) => Owned(t)'
      BY <2>1, <2>2, <2>4
    <2>6. \A t : Owned(t) => Owned(t)'
      BY <2>1, <2>3, <2>4
    <2> HIDE DEF Owned, Coming
    <2> QED
      BY <1>1, <1>3, <2>2, <2>5, <2>6
  <1>9. CASE StWrite(p)
    <2>1. /\ UNCHANGED <<users, killed, order>> /\ pc[p] = "st_write" /\ pc'[p] = "finish"
          /\ DOMAIN orders' = DOMAIN orders \cup {order[p].id}
      BY <1>9 DEF StWrite, storeTransactionWrite, Goto, memVars, Typed, TypeOK
    <2>2. Coming(p, order[p].id)' /\ \A t : ~ Coming(p, t)
      BY <2>1
    <2>3. \A t : Owned(t) => Owned(t)'
      BY <2>1
    <2>4. order'[p].id = order[p].id
      BY <2>1
    <2> QED
      BY <1>1, <1>3, <2>1, <2>2, <2>3, <2>4
  <1>10. CASE Finish(p)
    <2>1. /\ UNCHANGED <<users, orders, killed>> /\ pc[p] = "finish" /\ pc'[p] = "su_open"
          /\ history'[p] = Append(history[p], order[p].id)
      BY <1>10 DEF Finish, StoreUser, Call, dbVars, ghostVars, Typed, TypeOK
    <2>2. history[p] \in Seq(TIDs) /\ order[p].id \in TIDs
      BY <2>1 DEF Typed, TypeOK, Control, Where, Stores, Ordering
    <2>3. order[p].id \in Range(history'[p])
      BY <2>1, <2>2, BeginsItself, BeginsAppend
    <2> QED
      BY <1>4, <2>1, <2>3
  <1> QED
    BY <1>5, <1>6, <1>7, <1>8, <1>9, <1>10, EndsCases DEF Ends, Step, Input, OwnedQuiet

\* If every order that --init writes is in some user's history, no two processes
\* are logged in as the same user and none is killed, then every order the shop
\* ever writes is in a history, or the process that wrote it is about to store it
\* there.
THEOREM OrdersOwnedCorrect ==
    ASSUME \A t \in DOMAIN SampleOrders : \E u \in Users : t \in Range(SampleUsers[u].orders)
    PROVE  Spec /\ []OneSessionEach => []OrdersOwned
  <1> DEFINE Kept == \A p \in Procs : HistoryKept(p)
  <1>1. Init => OrdersOwned
    BY DEF Init, StorageInit, OrdersOwned
  <1>2. Typed /\ Kept /\ OrdersOwned /\ [Next]_vars => OrdersOwned'
    <2>1. CASE UNCHANGED vars
      BY <2>1 DEF vars, dbVars, memVars, ghostVars, OrdersOwned
    <2> QED
      BY <2>1, OwnedStep DEF Next
  <1>3. Spec /\ []OneSessionEach => []Kept
    BY HistoryInvariant
  <1> HIDE DEF Kept
  <1> QED
    BY <1>1, <1>2, <1>3, TypedInvariant, PTL DEF Spec

-----------------------------------------------------------------------------

\* With one process at a time history and cart are kept without a condition on
\* who is logged in.
COROLLARY RecordsKeptAlone ==
    ASSUME NEW session, Procs = {session}
    PROVE  SpecH => HistoryGrows /\ []CartStored
  <1>1. OneSessionEach
    BY DEF OneSessionEach
  <1> QED
    BY <1>1, ObservedIsSpec, HistoryGrowsCorrect, CartStoredCorrect, PTL

\* Likewise every order is owned, if those of --init are.
COROLLARY OrdersOwnedAlone ==
    ASSUME NEW session, Procs = {session},
           \A t \in DOMAIN SampleOrders : \E u \in Users : t \in Range(SampleUsers[u].orders)
    PROVE  Spec => []OrdersOwned
  <1>1. OneSessionEach
    BY DEF OneSessionEach
  <1>2. Spec /\ []OneSessionEach => []OrdersOwned
    BY OrdersOwnedCorrect
  <1> QED
    BY <1>1, <1>2, PTL

=============================================================================
