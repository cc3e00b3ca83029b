---------------------------- MODULE StorageSystem ----------------------------
(***************************************************************************)
(* The three RocksDB databases under ./OSCdb and the steps of the methods  *)
(* of StorageSystem that read and write them.                              *)
(*                                                                         *)
(* Every method opens its database and closes it again.  A read opens it   *)
(* with OpenForReadOnly, which takes no lock and shows the data as of the  *)
(* open: one atomic read.  A write (storeUser, storeProduct,               *)
(* storeTransaction) takes the LOCK file in DB::Open, writes one batch and *)
(* releases the lock when the database is deleted.  The batch and the      *)
(* release are one step: between them another process can only see the     *)
(* batch, as it can after the release, or find the lock taken, as it can   *)
(* before the batch.                                                       *)
(*                                                                         *)
(* DB::Open does not wait for the lock.  It returns an error that the code *)
(* ignores, with no handles; the next line indexes the empty vector of     *)
(* handles and the process is gone.                                        *)
(***************************************************************************)
EXTENDS ShoppingCart, Sequences

CONSTANTS
    Procs,    \* processes: running copies of the program
    NoProc,   \* the owner of a free lock
    Users,    \* the user names in the users database
    TIDs,     \* the transaction ids that uuid_generate can return (bound)
    NoTID,    \* the id of a default-constructed Transaction
    Stock,          \* the on_hand fields that --init writes
    SampleUsers,    \* the user records that --init writes
    SampleOrders    \* the orders that --init writes

VARIABLES
    products,   \* products database: the on_hand field of each product
    users,      \* users database: items_in_cart and orders of each user
    entries,    \* orders database: its column families
    orders,     \* orders database: the items field of each order written
    lock        \* the process that holds the LOCK file of each database

dbVars == <<products, users, entries, orders, lock>>

DBs == {"users", "products", "orders"}

UserRecord == [cart : ItemList, orders : Seq(TIDs)]

BlankRecord == [cart |-> EmptyList, orders |-> <<>>]

ASSUME StorageAssumption == NoProc \notin Procs /\ NoTID \notin TIDs

\* What initDB leaves behind: a user's past orders are all in the database.
ASSUME SampleAssumption ==
    /\ Stock \in [SKU -> UInt]
    /\ SampleUsers \in [Users -> UserRecord]
    /\ DOMAIN SampleOrders \subseteq TIDs
    /\ SampleOrders \in [DOMAIN SampleOrders -> ItemList]
    /\ \A u \in Users : \A i \in DOMAIN SampleUsers[u].orders :
            SampleUsers[u].orders[i] \in DOMAIN SampleOrders

StorageTypeOK ==
    /\ products \in [SKU -> UInt]
    /\ users \in [Users -> UserRecord]
    /\ entries \subseteq TIDs
    /\ DOMAIN orders \subseteq TIDs
    /\ orders \in [DOMAIN orders -> ItemList]
    /\ lock \in [DBs -> Procs \cup {NoProc}]

\* The databases after --init.
StorageInit ==
    /\ products = Stock
    /\ users = SampleUsers
    /\ entries = DOMAIN SampleOrders
    /\ orders = SampleOrders
    /\ lock = [db \in DBs |-> NoProc]

-----------------------------------------------------------------------------

\* DB::Open and, at the other end, the destructor of DB.
IsFree(db) == lock[db] = NoProc

Acquire(p, db) == lock' = [lock EXCEPT ![db] = p]

Release(db) == lock' = [lock EXCEPT ![db] = NoProc]

\* The kernel drops the locks of a process that ends.
ReleaseAll(p) == lock' = [db \in DBs |-> IF lock[db] = p THEN NoProc ELSE lock[db]]

\* getProduct's reads.  The Product it builds ends with setQuantity, which
\* stores the product just read: the caller goes on to storeProduct.
ReadProduct(s) == [upc |-> s, quantity |-> products[s]]

\* storeProduct: DB::Open, then the batch.
storeProductOpen(p) ==
    /\ IsFree("products")
    /\ Acquire(p, "products")
    /\ UNCHANGED <<products, users, entries, orders>>

\* Mutant of storeProductWrite: the database is not deleted, so its LOCK file
\* stays taken.
storeProductLeak(product) ==
    /\ products' = [products EXCEPT ![product.upc] = product.quantity]
    /\ UNCHANGED <<users, entries, orders, lock>>

storeProductWrite(product) ==
    /\ products' = [products EXCEPT ![product.upc] = product.quantity]
    /\ Release("products")
    /\ UNCHANGED <<users, entries, orders>>

\* storeUser: DB::Open, then the batch, which always has orders and
\* items_in_cart (address and card are left out of this module).
storeUserOpen(p) ==
    /\ IsFree("users")
    /\ Acquire(p, "users")
    /\ UNCHANGED <<products, users, entries, orders>>

storeUserWrite(u, cart, history) ==
    /\ users' = [users EXCEPT ![u] = [cart |-> ItemsOf(cart), orders |-> history]]
    /\ Release("users")
    /\ UNCHANGED <<products, entries, orders>>

\* storeTransaction: DB::Open must be given every column family there is, and
\* is given those that ListColumnFamilies returned a moment ago (listed) and
\* the new one, which it creates.
CanOpenOrders(listed) == IsFree("orders") /\ entries \subseteq listed

storeTransactionOpen(p, id, listed) ==
    /\ CanOpenOrders(listed)
    /\ Acquire(p, "orders")
    /\ entries' = entries \cup {id}
    /\ UNCHANGED <<products, users, orders>>

\* Mutant of storeTransactionWrite: the new order replaces the old ones.
storeTransactionOnly(id, cart) ==
    /\ orders' = [t \in {id} |-> ItemsOf(cart)]
    /\ Release("orders")
    /\ UNCHANGED <<products, users, entries>>

storeTransactionWrite(id, cart) ==
    /\ orders' = [t \in DOMAIN orders \cup {id} |->
                    IF t = id THEN ItemsOf(cart) ELSE orders[t]]
    /\ Release("orders")
    /\ UNCHANGED <<products, users, entries>>

=============================================================================
