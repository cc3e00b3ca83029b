------------------------------- MODULE InitDB -------------------------------
(***************************************************************************)
(* --init: StorageSystem::initDB as a process that destroys and populates  *)
(* the three databases one after the other, can be killed anywhere, is run *)
(* again, and meets a session that is logged in meanwhile.                 *)
(*                                                                         *)
(* A database is the set of its column families and of those that have     *)
(* data.  OnlineShop has what a session does; here it is the stores it     *)
(* makes.  Listing the column families and opening the database are one    *)
(* step, as are writing a batch and closing.                               *)
(***************************************************************************)
EXTENDS Naturals, Sequences

CONSTANTS
    Sample,         \* names of the column families initDB makes, per database
    SampleOrders,   \* the orders its user records name, per user
    NewTIDs         \* ids of orders that sessions place

DBs == {"users", "products", "orders"}

ASSUME InitAssumption ==
    /\ Sample = [d \in DBs |-> Sample[d]]
    /\ \A d \in DBs : Sample[d] # {}
    /\ SampleOrders \in [Sample["users"] -> SUBSET Sample["orders"]]
    /\ NewTIDs \cap Sample["orders"] = {}

VARIABLES
    there,      \* whether a database exists
    families,   \* its column families other than the default one
    records,    \* those of them that have data
    named,      \* the orders that the record of a user names
    lock,       \* who has the LOCK file of a database
    phase,      \* the database initDB is at, or "none"
    step,       \* where initDB is with it
    user,       \* who is logged in, if anybody is
    history,    \* the orders in the session's transaction history
    todo        \* the stores the session still makes for its command

VARIABLES       \* history variables, not in the program
    fresh,      \* ids that no order has had
    met,        \* a session had a database open during this run of initDB
    broken,     \* the last run of initDB did not end
    outlived    \* the session has been logged in during a run of initDB

dbVars == <<there, families, records, named>>
initVars == <<phase, step>>
sessionVars == <<user, history, todo>>
ghostVars == <<fresh, met, broken, outlived>>
vars == <<dbVars, lock, initVars, sessionVars, ghostVars>>

Users == Sample["users"]
Steps == {"destroy", "create", "entries", "open", "write"}
Names(d) == IF d = "orders" THEN Sample[d] \cup NewTIDs ELSE Sample[d]

\* Types of the variables.
TypeOK ==
    /\ there \in [DBs -> BOOLEAN]
    /\ DOMAIN families = DBs /\ \A d \in DBs : families[d] \subseteq Names(d)
    /\ DOMAIN records = DBs /\ \A d \in DBs : records[d] \subseteq families[d]
    /\ named \in [Users -> SUBSET Names("orders")]
    /\ lock \in [DBs -> {"free", "init", "session"}]
    /\ phase \in DBs \cup {"none"}
    /\ step \in Steps
    /\ user \in {{}} \cup {{u} : u \in Users}
    /\ history \subseteq Names("orders")
    /\ \A i \in DOMAIN todo : todo[i].db \in DBs /\ todo[i].key \in Names(todo[i].db)
    /\ fresh \subseteq NewTIDs
    /\ {met, broken, outlived} \subseteq BOOLEAN

\* An empty directory.
Init ==
    /\ there = [d \in DBs |-> FALSE]
    /\ families = [d \in DBs |-> {}]
    /\ records = [d \in DBs |-> {}]
    /\ named = [u \in Users |-> {}]
    /\ lock = [d \in DBs |-> "free"]
    /\ phase = "none"
    /\ step = "destroy"
    /\ user = {}
    /\ history = {}
    /\ todo = <<>>
    /\ fresh = NewTIDs
    /\ met = FALSE
    /\ broken = FALSE
    /\ outlived = FALSE

LoggedIn == user # {}
Released(who) == [d \in DBs |-> IF lock[d] = who THEN "free" ELSE lock[d]]

-----------------------------------------------------------------------------
(* initDB.                                                                 *)

\* Mutant of NextDB: the orders are forgotten.
NextDBNoOrders == [users |-> "products", products |-> "none", orders |-> "none"]

NextDB == [users |-> "products", products |-> "orders", orders |-> "none"]

Start ==
    /\ phase = "none"
    /\ phase' = "users"
    /\ step' = "destroy"
    /\ met' = \E d \in DBs : lock[d] = "session"
    /\ outlived' = LoggedIn
    /\ UNCHANGED <<dbVars, lock, sessionVars, fresh, broken>>

\* Mutant of Destroy: only what was populated to the end is destroyed.
DestroyComplete ==
    /\ phase # "none" /\ step = "destroy"
    /\ IF lock[phase] = "free" /\ records[phase] # {}
       THEN /\ there' = [there EXCEPT ![phase] = FALSE]
            /\ families' = [families EXCEPT ![phase] = {}]
            /\ records' = [records EXCEPT ![phase] = {}]
            /\ named' = IF phase = "users" THEN [u \in Users |-> {}] ELSE named
       ELSE UNCHANGED dbVars
    /\ step' = "create"
    /\ UNCHANGED <<lock, phase, sessionVars, ghostVars>>

\* DestroyDB fails on a database that somebody has open, and nobody looks.
Destroy ==
    /\ phase # "none" /\ step = "destroy"
    /\ IF lock[phase] = "free"
       THEN /\ there' = [there EXCEPT ![phase] = FALSE]
            /\ families' = [families EXCEPT ![phase] = {}]
            /\ records' = [records EXCEPT ![phase] = {}]
            /\ named' = IF phase = "users" THEN [u \in Users |-> {}] ELSE named
       ELSE UNCHANGED dbVars
    /\ step' = "create"
    /\ UNCHANGED <<lock, phase, sessionVars, ghostVars>>

\* DB::Open without column families succeeds on a database that has none.
CanCreate == lock[phase] = "free" /\ families[phase] = {}

Create ==
    /\ phase # "none" /\ step = "create"
    /\ CanCreate
    /\ there' = [there EXCEPT ![phase] = TRUE]
    /\ lock' = [lock EXCEPT ![phase] = "init"]
    /\ step' = "entries"
    /\ UNCHANGED <<families, records, named, phase, sessionVars, ghostVars>>

\* One CreateDBEntry.
CreateEntry(e) ==
    /\ phase # "none" /\ step = "entries"
    /\ e \in Sample[phase] \ families[phase]
    /\ families' = [families EXCEPT ![phase] = @ \cup {e}]
    /\ UNCHANGED <<there, records, named, lock, initVars, sessionVars, ghostVars>>

\* delete userdb.  The products are created through userdb, which has been
\* deleted: if the process survives that, none of them need be there yet.
Created ==
    /\ phase # "none" /\ step = "entries"
    /\ phase = "products" \/ families[phase] = Sample[phase]
    /\ lock' = [lock EXCEPT ![phase] = "free"]
    /\ step' = "open"
    /\ UNCHANGED <<dbVars, phase, sessionVars, ghostVars>>

\* DB::Open with the sample's column families creates the missing ones, and
\* fails on a database that has others.
CanOpen == lock[phase] = "free" /\ families[phase] \subseteq Sample[phase]

\* Mutant of Open: it creates nothing.
OpenExisting ==
    /\ phase # "none" /\ step = "open"
    /\ CanOpen
    /\ lock' = [lock EXCEPT ![phase] = "init"]
    /\ step' = "write"
    /\ UNCHANGED <<dbVars, phase, sessionVars, ghostVars>>

Open ==
    /\ phase # "none" /\ step = "open"
    /\ CanOpen
    /\ there' = [there EXCEPT ![phase] = TRUE]
    /\ families' = [families EXCEPT ![phase] = Sample[phase]]
    /\ lock' = [lock EXCEPT ![phase] = "init"]
    /\ step' = "write"
    /\ UNCHANGED <<records, named, phase, sessionVars, ghostVars>>

Write ==
    /\ phase # "none" /\ step = "write"
    /\ records' = [records EXCEPT ![phase] = Sample[phase]]
    /\ named' = IF phase = "users" THEN SampleOrders ELSE named
    /\ lock' = [lock EXCEPT ![phase] = "free"]
    /\ phase' = NextDB[phase]
    /\ step' = "destroy"
    /\ broken' = IF phase' = "none" THEN FALSE ELSE broken
    /\ UNCHANGED <<there, families, sessionVars, fresh, met, outlived>>

InitEnds ==
    /\ phase' = "none"
    /\ step' = "destroy"
    /\ broken' = TRUE
    /\ lock' = Released("init")
    /\ UNCHANGED <<there, families, sessionVars, fresh, met, outlived>>

\* A failed open leaves a null pointer, which the next line uses; except for
\* productdb, which is not used before the second open sets it again.
ProductsNotCreated ==
    /\ phase = "products" /\ step = "create"
    /\ ~ CanCreate
    /\ step' = "open"
    /\ UNCHANGED <<dbVars, lock, phase, sessionVars, ghostVars>>

OpenFails ==
    /\ phase # "none"
    /\ \/ step = "create" /\ ~ CanCreate /\ phase # "products"
       \/ step = "open" /\ ~ CanOpen
    /\ InitEnds
    /\ UNCHANGED <<records, named>>

InitKilled ==
    /\ phase # "none"
    /\ InitEnds
    /\ UNCHANGED <<records, named>>

\* DestroyDB removes one file after the other: killed in it, the process
\* leaves a database of which any part of the data is gone.
DestroyKilled ==
    /\ phase # "none" /\ step = "destroy"
    /\ lock[phase] = "free"
    /\ \E kept \in SUBSET records[phase] :
        /\ records' = [records EXCEPT ![phase] = kept]
        /\ named' = IF phase # "users" THEN named
                    ELSE [u \in Users |-> IF u \in kept THEN named[u] ELSE {}]
    /\ InitEnds

-----------------------------------------------------------------------------
(* A session.                                                              *)

Store(d, k) == [db |-> d, key |-> k]

Touches == met' = (met \/ phase # "none")

\* getUser loads every order the record names, with its products, which are
\* stored by that, and stores the user.  Without a users database, a record or
\* one of the orders the login is refused or ends the process.
Login(u) ==
    /\ ~ LoggedIn
    /\ u \in families["users"]
    /\ named[u] \subseteq records["orders"]
    /\ user' = {u}
    /\ history' = named[u]
    /\ IF named[u] = {} THEN todo' = <<Store("users", u)>>
       ELSE \E p \in records["products"] :
                todo' = <<Store("products", p), Store("users", u)>>
    /\ outlived' = (outlived \/ phase # "none")
    /\ UNCHANGED <<dbVars, lock, initVars, fresh, met, broken>>

\* Looking at the inventory, changing the cart or the account, and an order.
Browse(p) ==
    /\ LoggedIn /\ todo = <<>>
    /\ p \in records["products"]
    /\ todo' = <<Store("products", p)>>
    /\ UNCHANGED <<dbVars, lock, initVars, user, history, ghostVars>>

Change ==
    /\ LoggedIn /\ todo = <<>>
    /\ \E u \in user : todo' = <<Store("users", u)>>
    /\ UNCHANGED <<dbVars, lock, initVars, user, history, ghostVars>>

\* Mutant of PlaceOrder: the user, with the order in its history, is stored
\* before the order.
PlaceOrderUserFirst(p, t) ==
    /\ LoggedIn /\ todo = <<>>
    /\ t \in fresh
    /\ fresh' = fresh \ {t}
    /\ history' = history \cup {t}
    /\ \E u \in user :
        todo' = <<Store("products", p), Store("users", u), Store("orders", t)>>
    /\ UNCHANGED <<dbVars, lock, initVars, user, met, broken, outlived>>

PlaceOrder(p, t) ==
    /\ LoggedIn /\ todo = <<>>
    /\ t \in fresh
    /\ fresh' = fresh \ {t}
    /\ \E u \in user :
        todo' = <<Store("products", p), Store("orders", t), Store("users", u)>>
    /\ UNCHANGED <<dbVars, lock, initVars, user, history, met, broken, outlived>>

\* A store opens the database with all its column families and the one it
\* is about, creating what is missing, the database included.
StoreOpen ==
    /\ todo # <<>>
    /\ LET s == Head(todo) IN
        /\ lock[s.db] = "free"
        /\ lock' = [lock EXCEPT ![s.db] = "session"]
        /\ there' = [there EXCEPT ![s.db] = TRUE]
        /\ families' = [families EXCEPT ![s.db] = @ \cup {s.key}]
    /\ Touches
    /\ UNCHANGED <<records, named, initVars, sessionVars, fresh, broken, outlived>>

StoreWrite ==
    /\ todo # <<>>
    /\ LET s == Head(todo) IN
        /\ lock[s.db] = "session"
        /\ lock' = [lock EXCEPT ![s.db] = "free"]
        /\ records' = [records EXCEPT ![s.db] = @ \cup {s.key}]
        /\ named' = IF s.db = "users" THEN [named EXCEPT ![s.key] = history] ELSE named
        /\ history' = IF s.db = "orders" THEN history \cup {s.key} ELSE history
    /\ todo' = Tail(todo)
    /\ Touches
    /\ UNCHANGED <<there, families, initVars, user, fresh, broken, outlived>>

\* "exit", a signal, an open that finds the LOCK file taken, or a record that
\* cannot be read.
SessionEnds ==
    /\ LoggedIn
    /\ user' = {}
    /\ history' = {}
    /\ todo' = <<>>
    /\ lock' = Released("session")
    /\ UNCHANGED <<dbVars, initVars, ghostVars>>

-----------------------------------------------------------------------------
InitStep ==
    \/ Destroy \/ Create \/ Created \/ Open \/ Write
    \/ ProductsNotCreated \/ OpenFails
    \/ \E d \in DBs : \E e \in Sample[d] : phase = d /\ CreateEntry(e)

SessionStep ==
    \/ \E u \in Users : Login(u)
    \/ Change \/ StoreOpen \/ StoreWrite \/ SessionEnds
    \/ \E p \in Sample["products"] : Browse(p) \/ \E t \in NewTIDs : PlaceOrder(p, t)

Next == Start \/ InitStep \/ InitKilled \/ DestroyKilled \/ SessionStep

Spec == Init /\ [][Next]_vars

-----------------------------------------------------------------------------
(* Properties.                                                             *)

\* When initDB returns, every record of the sample is there, whatever earlier
\* runs and sessions left; and nothing else is, unless a session had a
\* database open while it ran.
RunPopulates ==
    [][phase # "none" /\ phase' = "none" /\ ~ broken' =>
        /\ \A d \in DBs : Sample[d] \subseteq records'[d]
        /\ ~ met => families' = Sample /\ records' = Sample /\ named' = SampleOrders]_vars

\* A run fails only because of a session that had a database open while it
\* ran: what an earlier run left half done never stands in its way, so that
\* --init repairs whatever a killed --init has left.
RerunRepairs ==
    phase # "none" /\ ~ met =>
        /\ step = "create" => CanCreate
        /\ step = "open" => CanOpen

\* User records name orders that do not exist only while a run is under way,
\* after a run that did not end, or after a session that a run did not end:
\* otherwise getUser can load them.
NamedOrdersExist ==
    phase = "none" /\ ~ broken /\ ~ outlived =>
        \A u \in Users : named[u] \subseteq records["orders"]

=============================================================================
