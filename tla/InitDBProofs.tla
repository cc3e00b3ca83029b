---------------------------- MODULE InitDBProofs ----------------------------
(***************************************************************************)
(* Theorems about InitDB, for any sample, any number of new orders, and    *)
(* any number of runs, kills and sessions.                                 *)
(***************************************************************************)
EXTENDS InitDB, TLAPS

-----------------------------------------------------------------------------
(* The inductive invariant.                                                *)

AllNames == Names("users") \cup Names("products") \cup Names("orders")

\* What a session can have to store.
Stores == {s \in [db : DBs, key : AllNames] : s.key \in Names(s.db)}

Functions == families \in [DBs -> SUBSET AllNames] /\ records \in [DBs -> SUBSET AllNames]

\* Without a session there is nothing to store.
SessionForm ==
    /\ todo \in Seq(Stores)
    /\ ~ LoggedIn => history = {} /\ todo = <<>>

\* initDB has the LOCK file of its database between an open and the close
\* after it, a session has that of the database it stores into, in
\* which the column family of its store then is.
LocksHeld ==
    \A d \in DBs :
        /\ lock[d] = "init" <=> d = phase /\ step \in {"entries", "write"}
        /\ lock[d] = "session"
                => todo # <<>> /\ Head(todo).db = d /\ Head(todo).key \in families[d]

NobodyMet == phase # "none" /\ ~ met => \A d \in DBs : lock[d] # "session"

\* The column families of the database that initDB is at.
AtPhase ==
    phase # "none" =>
        /\ step = "entries" => families[phase] \subseteq Sample[phase]
        /\ step = "write" => families[phase] = Sample[phase]
        /\ step = "create" /\ ~ met => families[phase] = {}
        /\ step = "open" /\ ~ met => families[phase] \subseteq Sample[phase]

\* The databases that the run has been through.
Done == CASE phase = "products" -> {"users"}
          [] phase = "orders"   -> {"users", "products"}
          [] OTHER              -> {}

DonePopulated ==
    \A d \in Done : Sample[d] \subseteq records[d] /\ (~ met => families[d] = Sample[d])

DoneNamed == "users" \in Done /\ (~ met \/ ~ outlived) => named = SampleOrders

\* A session that no run has met has its orders on disk.
HistoryStored ==
    ~ outlived => (LoggedIn => phase = "none") /\ history \subseteq records["orders"]

IInv ==
    /\ TypeOK /\ Functions /\ SessionForm
    /\ LocksHeld /\ NobodyMet /\ AtPhase
    /\ DonePopulated /\ DoneNamed /\ HistoryStored /\ NamedOrdersExist

-----------------------------------------------------------------------------
(* What the actions are built from.                                        *)

LEMMA SampleFacts ==
    /\ DOMAIN Sample = DBs
    /\ \A d \in DBs : Sample[d] \subseteq Names(d) /\ Names(d) \subseteq AllNames
    /\ Names("users") = Users /\ Names("products") = Sample["products"]
    /\ NewTIDs \subseteq Names("orders")
    /\ \A u \in Users : SampleOrders[u] \subseteq Sample["orders"]
    /\ SampleOrders \in [Users -> SUBSET Names("orders")]
<1>1. DOMAIN Sample = DBs
  BY InitAssumption
<1>2. SampleOrders \in [Users -> SUBSET Sample["orders"]]
  BY InitAssumption DEF Users
<1>3. \A d \in DBs : Sample[d] \subseteq Names(d) /\ Names(d) \subseteq AllNames
  BY DEF DBs, Names, AllNames
<1>4. Names("users") = Users /\ Names("products") = Sample["products"]
      /\ Names("orders") = Sample["orders"] \cup NewTIDs
  BY DEF Names, Users
<1>. QED BY <1>1, <1>2, <1>3, <1>4

\* The database that a run is at is none that it has been through.
LEMMA DoneFacts ==
    /\ Done \subseteq DBs
    /\ phase \notin Done
    /\ phase \in {"none", "users"} => Done = {}
    /\ phase = "products" => Done = {"users"}
    /\ phase = "orders" => Done = {"users", "products"}
BY DEF Done, DBs

LEMMA StoreTypes ==
    /\ \A d \in DBs : \A k \in Names(d) : Store(d, k) \in Stores
    /\ \A s \in Stores : s.db \in DBs /\ s.key \in Names(s.db) /\ s.key \in AllNames
<1>1. \A d \in DBs : Names(d) \subseteq AllNames
  BY SampleFacts
<1>. QED BY <1>1 DEF Store, Stores

\* The first of the stores that are left.
LEMMA HeadStore ==
    ASSUME SessionForm, todo # <<>>
    PROVE  Head(todo) \in Stores /\ Tail(todo) \in Seq(Stores)
BY DEF SessionForm

LEMMA TodoType ==
    ASSUME NEW t \in Seq(Stores)
    PROVE  \A i \in DOMAIN t : t[i].db \in DBs /\ t[i].key \in Names(t[i].db)
<1>1. \A i \in DOMAIN t : t[i] \in Stores
  OBVIOUS
<1>. QED BY <1>1, StoreTypes

-----------------------------------------------------------------------------
(* Each action keeps the invariant.                                        *)

LEMMA InitIInv == Init => IInv
<1>. SUFFICES ASSUME Init PROVE IInv
  OBVIOUS
<1>1. TypeOK /\ Functions
  <2>1. \A i \in DOMAIN todo : todo[i].db \in DBs /\ todo[i].key \in Names(todo[i].db)
    BY TodoType DEF Init
  <2>. QED BY <2>1 DEF Init, TypeOK, Functions, Steps
<1>2. SessionForm
  BY DEF Init, SessionForm
<1>3. LocksHeld /\ NobodyMet /\ AtPhase
  BY DEF Init, LocksHeld, NobodyMet, AtPhase, DBs
<1>4. DonePopulated /\ DoneNamed
  BY DoneFacts DEF Init, DonePopulated, DoneNamed
<1>5. HistoryStored /\ NamedOrdersExist
  BY DEF Init, HistoryStored, NamedOrdersExist, LoggedIn
<1>. QED BY <1>1, <1>2, <1>3, <1>4, <1>5 DEF IInv

LEMMA StartIInv ==
    ASSUME IInv, Start
    PROVE  IInv'
<1>. USE DEF IInv, Start, dbVars, sessionVars
<1>1. TypeOK' /\ Functions'
  BY DEF TypeOK, Functions, Steps, LoggedIn, DBs
<1>2. SessionForm'
  BY DEF SessionForm, LoggedIn
<1>3. LocksHeld'
  BY DEF LocksHeld, DBs
<1>4. NobodyMet' /\ AtPhase'
  BY DEF NobodyMet, AtPhase
<1>5. Done' = {}
  BY DEF Done
<1>6. DonePopulated' /\ DoneNamed'
  BY <1>5 DEF DonePopulated, DoneNamed
<1>7. HistoryStored' /\ NamedOrdersExist'
  BY DEF HistoryStored, NamedOrdersExist, LoggedIn, SessionForm
<1>. QED BY <1>1, <1>2, <1>3, <1>4, <1>6, <1>7

LEMMA DestroyIInv ==
    ASSUME IInv, Destroy
    PROVE  IInv'
<1>. USE DEF IInv
<1>1. /\ phase \in DBs /\ step = "destroy" /\ step' = "create"
      /\ UNCHANGED <<lock, phase, user, history, todo, fresh, met, broken, outlived>>
  BY DEF Destroy, TypeOK, sessionVars, ghostVars
<1>2. \/ /\ lock[phase] = "free"
         /\ there' = [there EXCEPT ![phase] = FALSE]
         /\ families' = [families EXCEPT ![phase] = {}]
         /\ records' = [records EXCEPT ![phase] = {}]
         /\ named' = IF phase = "users" THEN [u \in Users |-> {}] ELSE named
      \/ lock[phase] # "free" /\ UNCHANGED <<there, families, records, named>>
  BY DEF Destroy, dbVars
<1>3. Done' = Done /\ Done \subseteq DBs /\ phase \notin Done
  BY <1>1, DoneFacts DEF Done
<1>4. \A d \in DBs \ {phase} : families'[d] = families[d] /\ records'[d] = records[d]
  BY <1>2 DEF Functions
<1>5. TypeOK' /\ Functions'
  BY <1>1, <1>2 DEF TypeOK, Functions, Steps
<1>6. SessionForm'
  BY <1>1 DEF SessionForm, LoggedIn
<1>7. LocksHeld' /\ NobodyMet'
  <2>1. \A d \in DBs : lock[d] = "session" => families'[d] = families[d]
    BY <1>2, <1>4
  <2>. QED BY <1>1, <2>1 DEF LocksHeld, NobodyMet
<1>8. AtPhase'
  <2>1. ~ met => lock[phase] = "free"
    BY <1>1 DEF LocksHeld, NobodyMet, TypeOK, DBs
  <2>. QED BY <1>1, <1>2, <2>1 DEF AtPhase, Functions
<1>9. DonePopulated'
  BY <1>1, <1>3, <1>4 DEF DonePopulated
<1>10. DoneNamed'
  BY <1>1, <1>2, <1>3, DoneFacts DEF DoneNamed
<1>11. HistoryStored' /\ NamedOrdersExist'
  BY <1>1 DEF HistoryStored, NamedOrdersExist, LoggedIn, SessionForm, DBs
<1>. QED BY <1>5, <1>6, <1>7, <1>8, <1>9, <1>10, <1>11

LEMMA CreateIInv ==
    ASSUME IInv, Create
    PROVE  IInv'
<1>. USE DEF IInv
<1>1. /\ phase \in DBs /\ step = "create" /\ step' = "entries"
      /\ families[phase] = {} /\ lock[phase] = "free"
      /\ there' = [there EXCEPT ![phase] = TRUE]
      /\ lock' = [lock EXCEPT ![phase] = "init"]
      /\ UNCHANGED <<families, records, named, phase, user, history, todo,
                     fresh, met, broken, outlived>>
  BY DEF Create, CanCreate, TypeOK, sessionVars, ghostVars
<1>2. Done' = Done
  BY <1>1 DEF Done
<1>3. TypeOK' /\ Functions'
  BY <1>1 DEF TypeOK, Functions, Steps
<1>4. SessionForm'
  BY <1>1 DEF SessionForm, LoggedIn
<1>5. LocksHeld' /\ NobodyMet'
  BY <1>1 DEF LocksHeld, NobodyMet, TypeOK
<1>6. AtPhase'
  BY <1>1 DEF AtPhase
<1>7. DonePopulated' /\ DoneNamed'
  BY <1>1, <1>2 DEF DonePopulated, DoneNamed
<1>8. HistoryStored' /\ NamedOrdersExist'
  BY <1>1 DEF HistoryStored, NamedOrdersExist, LoggedIn
<1>. QED BY <1>3, <1>4, <1>5, <1>6, <1>7, <1>8

LEMMA CreateEntryIInv ==
    ASSUME IInv, NEW e, CreateEntry(e)
    PROVE  IInv'
<1>. USE DEF IInv
<1>1. /\ phase \in DBs /\ step = "entries" /\ e \in Sample[phase]
      /\ families' = [families EXCEPT ![phase] = @ \cup {e}]
      /\ UNCHANGED <<there, records, named, lock, phase, step, user, history, todo,
                     fresh, met, broken, outlived>>
  BY DEF CreateEntry, TypeOK, initVars, sessionVars, ghostVars
<1>2. Done' = Done /\ Done \subseteq DBs /\ phase \notin Done
  BY <1>1, DoneFacts DEF Done
<1>3. \A d \in DBs : families'[d] = IF d = phase THEN families[d] \cup {e} ELSE families[d]
  BY <1>1 DEF Functions
<1>4. TypeOK'
  <2>1. \A d \in DBs : families'[d] \subseteq Names(d) /\ records[d] \subseteq families'[d]
    BY <1>1, <1>3, SampleFacts DEF TypeOK
  <2>. QED BY <1>1, <2>1 DEF TypeOK
<1>5. Functions'
  BY <1>1, SampleFacts DEF Functions
<1>6. SessionForm'
  BY <1>1 DEF SessionForm, LoggedIn
<1>7. LocksHeld' /\ NobodyMet'
  BY <1>1 DEF LocksHeld, NobodyMet
<1>8. AtPhase'
  BY <1>1, <1>3 DEF AtPhase
<1>9. DonePopulated' /\ DoneNamed'
  BY <1>1, <1>2, <1>3 DEF DonePopulated, DoneNamed
<1>10. HistoryStored' /\ NamedOrdersExist'
  BY <1>1 DEF HistoryStored, NamedOrdersExist, LoggedIn
<1>. QED BY <1>4, <1>5, <1>6, <1>7, <1>8, <1>9, <1>10

LEMMA CreatedIInv ==
    ASSUME IInv, Created
    PROVE  IInv'
<1>. USE DEF IInv
<1>1. /\ phase \in DBs /\ step = "entries" /\ step' = "open"
      /\ lock' = [lock EXCEPT ![phase] = "free"]
      /\ UNCHANGED <<there, families, records, named, phase, user, history, todo,
                     fresh, met, broken, outlived>>
  BY DEF Created, TypeOK, dbVars, sessionVars, ghostVars
<1>2. Done' = Done
  BY <1>1 DEF Done
<1>3. TypeOK' /\ Functions'
  BY <1>1 DEF TypeOK, Functions, Steps
<1>4. SessionForm'
  BY <1>1 DEF SessionForm, LoggedIn
<1>5. LocksHeld' /\ NobodyMet'
  BY <1>1 DEF LocksHeld, NobodyMet, TypeOK
<1>6. AtPhase'
  BY <1>1 DEF AtPhase
<1>7. DonePopulated' /\ DoneNamed'
  BY <1>1, <1>2 DEF DonePopulated, DoneNamed
<1>8. HistoryStored' /\ NamedOrdersExist'
  BY <1>1 DEF HistoryStored, NamedOrdersExist, LoggedIn
<1>. QED BY <1>3, <1>4, <1>5, <1>6, <1>7, <1>8

LEMMA OpenIInv ==
    ASSUME IInv, Open
    PROVE  IInv'
<1>. USE DEF IInv
<1>1. /\ phase \in DBs /\ step = "open" /\ step' = "write"
      /\ lock[phase] = "free" /\ families[phase] \subseteq Sample[phase]
      /\ there' = [there EXCEPT ![phase] = TRUE]
      /\ families' = [families EXCEPT ![phase] = Sample[phase]]
      /\ lock' = [lock EXCEPT ![phase] = "init"]
      /\ UNCHANGED <<records, named, phase, user, history, todo,
                     fresh, met, broken, outlived>>
  BY DEF Open, CanOpen, TypeOK, sessionVars, ghostVars
<1>2. Done' = Done /\ Done \subseteq DBs /\ phase \notin Done
  BY <1>1, DoneFacts DEF Done
<1>3. \A d \in DBs : families'[d] = IF d = phase THEN Sample[d] ELSE families[d]
  BY <1>1 DEF Functions
<1>4. TypeOK'
  <2>1. \A d \in DBs : families'[d] \subseteq Names(d) /\ records[d] \subseteq families'[d]
    BY <1>1, <1>3, SampleFacts DEF TypeOK
  <2>. QED BY <1>1, <2>1 DEF TypeOK, Steps
<1>5. Functions'
  BY <1>1, SampleFacts DEF Functions
<1>6. SessionForm'
  BY <1>1 DEF SessionForm, LoggedIn
<1>7. LocksHeld' /\ NobodyMet'
  BY <1>1 DEF LocksHeld, NobodyMet, TypeOK
<1>8. AtPhase'
  BY <1>1, <1>3 DEF AtPhase
<1>9. DonePopulated' /\ DoneNamed'
  BY <1>1, <1>2, <1>3 DEF DonePopulated, DoneNamed
<1>10. HistoryStored' /\ NamedOrdersExist'
  BY <1>1 DEF HistoryStored, NamedOrdersExist, LoggedIn
<1>. QED BY <1>4, <1>5, <1>6, <1>7, <1>8, <1>9, <1>10

\* The batch of a database: the records of the sample are there, and the run
\* goes on with the next database or ends.
LEMMA WriteEffect ==
    ASSUME IInv, Write
    PROVE  /\ phase \in DBs /\ step = "write" /\ step' = "destroy"
           /\ records' = [records EXCEPT ![phase] = Sample[phase]]
           /\ named' = IF phase = "users" THEN SampleOrders ELSE named
           /\ lock' = [lock EXCEPT ![phase] = "free"]
           /\ \/ phase = "users" /\ phase' = "products"
              \/ phase = "products" /\ phase' = "orders"
              \/ phase = "orders" /\ phase' = "none"
           /\ broken' = IF phase' = "none" THEN FALSE ELSE broken
           /\ UNCHANGED <<there, families, user, history, todo, fresh, met, outlived>>
           /\ \A d \in DBs : records'[d] = IF d = phase THEN Sample[d] ELSE records[d]
           /\ families[phase] = Sample[phase]
<1>1. phase \in DBs /\ phase # "none"
  BY DEF Write, IInv, TypeOK
<1>2. \/ phase = "users" /\ phase' = "products"
      \/ phase = "products" /\ phase' = "orders"
      \/ phase = "orders" /\ phase' = "none"
  BY <1>1 DEF Write, NextDB, DBs
<1>3. \A d \in DBs : records'[d] = IF d = phase THEN Sample[d] ELSE records[d]
  BY <1>1 DEF Write, IInv, Functions
<1>. QED BY <1>1, <1>2, <1>3 DEF Write, IInv, AtPhase, sessionVars

LEMMA WriteIInv ==
    ASSUME IInv, Write
    PROVE  IInv'
<1>. USE DEF IInv
<1>1. /\ phase \in DBs /\ phase # "none" /\ step = "write" /\ step' = "destroy"
      /\ phase' \in DBs \cup {"none"} /\ phase' # phase
  BY WriteEffect DEF DBs
<1>2. TypeOK'
  <2>1. \A d \in DBs : records'[d] \subseteq families'[d]
    BY WriteEffect DEF TypeOK
  <2>2. named' \in [Users -> SUBSET Names("orders")]
    BY WriteEffect, SampleFacts DEF TypeOK
  <2>. QED BY <1>1, <2>1, <2>2, WriteEffect DEF TypeOK, Steps
<1>3. Functions'
  BY <1>1, WriteEffect, SampleFacts DEF Functions
<1>4. SessionForm'
  BY WriteEffect DEF SessionForm, LoggedIn
<1>5. LocksHeld'
  <2>1. \A d \in DBs : lock'[d] = IF d = phase THEN "free" ELSE lock[d]
    BY WriteEffect DEF TypeOK
  <2>2. step' = "destroy" /\ todo' = todo /\ families' = families
    BY WriteEffect
  <2>. QED BY <1>1, <2>1, <2>2 DEF LocksHeld
<1>6. NobodyMet'
  BY <1>1, WriteEffect DEF NobodyMet, TypeOK
<1>7. AtPhase'
  BY <1>1 DEF AtPhase
<1>8. Done' = IF phase' = "none" THEN {} ELSE Done \cup {phase}
  BY WriteEffect DEF Done
<1>9. DonePopulated'
  <2>. SUFFICES ASSUME NEW d \in Done'
                PROVE  Sample[d] \subseteq records'[d] /\ (~ met' => families'[d] = Sample[d])
    BY DEF DonePopulated
  <2>1. CASE d = phase
    BY <1>1, <2>1, WriteEffect
  <2>2. CASE d # phase
    <3>1. d \in Done /\ d \in DBs
      BY <1>8, <2>2, DoneFacts
    <3>2. records'[d] = records[d] /\ families'[d] = families[d] /\ met' = met
      BY <2>2, <3>1, WriteEffect
    <3>. QED BY <3>1, <3>2 DEF DonePopulated
  <2>. QED BY <2>1, <2>2
<1>10. DoneNamed'
  BY <1>8, WriteEffect, DoneFacts DEF DoneNamed
<1>11. HistoryStored'
  BY <1>1, WriteEffect DEF HistoryStored, SessionForm, LoggedIn
<1>12. NamedOrdersExist'
  <2>. SUFFICES ASSUME phase' = "none", ~ outlived', NEW u \in Users
                PROVE  named'[u] \subseteq records'["orders"]
    BY DEF NamedOrdersExist
  <2>1. phase = "orders" /\ ~ outlived /\ named' = named /\ records'["orders"] = Sample["orders"]
    BY WriteEffect DEF DBs
  <2>2. named = SampleOrders
    BY <2>1, DoneFacts DEF DoneNamed
  <2>. QED BY <2>1, <2>2, SampleFacts
<1>. QED BY <1>2, <1>3, <1>4, <1>5, <1>6, <1>7, <1>9, <1>10, <1>11, <1>12

\* The end of a run, killed or refused a database, that has lost some records.
LEMMA EndsIInv ==
    ASSUME IInv, phase # "none", InitEnds,
           records' \in [DBs -> SUBSET AllNames],
           \A d \in DBs : records'[d] \subseteq records[d],
           named' \in [Users -> SUBSET Names("orders")]
    PROVE  IInv'
<1>. USE DEF IInv
<1>1. /\ phase' = "none" /\ step' = "destroy" /\ broken' = TRUE
      /\ lock' = Released("init")
      /\ UNCHANGED <<there, families, user, history, todo, fresh, met, outlived>>
  BY DEF InitEnds, sessionVars
<1>2. \A d \in DBs : lock'[d] = IF lock[d] = "init" THEN "free" ELSE lock[d]
  BY <1>1 DEF Released
<1>3. lock' \in [DBs -> {"free", "init", "session"}]
  BY <1>1 DEF Released, TypeOK
<1>4. \A d \in DBs : records'[d] \subseteq families'[d]
  BY <1>1 DEF TypeOK
<1>5. TypeOK' /\ Functions'
  BY <1>1, <1>3, <1>4 DEF TypeOK, Functions, Steps
<1>6. SessionForm'
  BY <1>1 DEF SessionForm, LoggedIn
<1>7. LocksHeld'
  BY <1>1, <1>2 DEF LocksHeld, DBs
<1>8. NobodyMet' /\ AtPhase'
  BY <1>1 DEF NobodyMet, AtPhase
<1>9. Done' = {}
  BY <1>1 DEF Done
<1>10. DonePopulated' /\ DoneNamed'
  BY <1>9 DEF DonePopulated, DoneNamed
<1>11. HistoryStored'
  BY <1>1 DEF HistoryStored, SessionForm, LoggedIn
<1>12. NamedOrdersExist'
  BY <1>1 DEF NamedOrdersExist
<1>. QED BY <1>5, <1>6, <1>7, <1>8, <1>10, <1>11, <1>12

LEMMA KilledIInv ==
    ASSUME IInv, OpenFails \/ InitKilled
    PROVE  IInv'
<1>1. phase # "none" /\ InitEnds /\ records' = records /\ named' = named
  BY DEF OpenFails, InitKilled
<1>. QED BY <1>1, EndsIInv DEF IInv, TypeOK, Functions

LEMMA DestroyKilledIInv ==
    ASSUME IInv, DestroyKilled
    PROVE  IInv'
<1>. USE DEF IInv
<1>1. phase \in DBs /\ phase # "none" /\ InitEnds
  BY DEF DestroyKilled, TypeOK
<1>2. PICK kept \in SUBSET records[phase] :
        /\ records' = [records EXCEPT ![phase] = kept]
        /\ named' = IF phase # "users" THEN named
                    ELSE [u \in Users |-> IF u \in kept THEN named[u] ELSE {}]
  BY DEF DestroyKilled
<1>3. records' \in [DBs -> SUBSET AllNames]
      /\ \A d \in DBs : records'[d] \subseteq records[d]
  BY <1>1, <1>2 DEF Functions
<1>4. named' \in [Users -> SUBSET Names("orders")]
  BY <1>2 DEF TypeOK
<1>. QED BY <1>1, <1>3, <1>4, EndsIInv

\* productdb is not used between its two opens.
LEMMA ProductsNotCreatedIInv ==
    ASSUME IInv, ProductsNotCreated
    PROVE  IInv'
<1>. USE DEF IInv
<1>1. /\ phase = "products" /\ step = "create" /\ step' = "open" /\ ~ CanCreate
      /\ UNCHANGED <<there, families, records, named, lock, phase, user, history, todo,
                     fresh, met, broken, outlived>>
  BY DEF ProductsNotCreated, dbVars, sessionVars, ghostVars
<1>2. Done' = Done
  BY <1>1 DEF Done
<1>3. TypeOK' /\ Functions'
  BY <1>1 DEF TypeOK, Functions, Steps
<1>4. SessionForm'
  BY <1>1 DEF SessionForm, LoggedIn
<1>5. LocksHeld' /\ NobodyMet'
  BY <1>1 DEF LocksHeld, NobodyMet
<1>6. AtPhase'
  BY <1>1 DEF AtPhase
<1>7. DonePopulated' /\ DoneNamed'
  BY <1>1, <1>2 DEF DonePopulated, DoneNamed
<1>8. HistoryStored' /\ NamedOrdersExist'
  BY <1>1 DEF HistoryStored, NamedOrdersExist, LoggedIn
<1>. QED BY <1>3, <1>4, <1>5, <1>6, <1>7, <1>8

\* A command of the session that begins: nothing has been stored for it yet.
LEMMA CommandIInv ==
    ASSUME IInv, LoggedIn, todo = <<>>, todo' \in Seq(Stores), fresh' \subseteq fresh,
           UNCHANGED <<there, families, records, named, lock, phase, step, user, history,
                       met, broken, outlived>>
    PROVE  IInv'
<1>. USE DEF IInv
<1>1. Done' = Done
  BY DEF Done
<1>2. TypeOK' /\ Functions'
  <2>1. \A i \in DOMAIN todo' : todo'[i].db \in DBs /\ todo'[i].key \in Names(todo'[i].db)
    BY TodoType
  <2>. QED BY <2>1 DEF TypeOK, Functions
<1>3. SessionForm'
  BY DEF SessionForm, LoggedIn
<1>4. LocksHeld' /\ NobodyMet' /\ AtPhase'
  BY DEF LocksHeld, NobodyMet, AtPhase
<1>5. DonePopulated' /\ DoneNamed'
  BY <1>1 DEF DonePopulated, DoneNamed
<1>6. HistoryStored' /\ NamedOrdersExist'
  BY DEF HistoryStored, NamedOrdersExist, LoggedIn
<1>. QED BY <1>2, <1>3, <1>4, <1>5, <1>6

LEMMA BrowseIInv ==
    ASSUME IInv, NEW p \in Sample["products"], Browse(p)
    PROVE  IInv'
<1>1. Store("products", p) \in Stores
  BY StoreTypes, SampleFacts DEF DBs
<1>. QED BY <1>1, CommandIInv DEF Browse, dbVars, initVars, ghostVars

LEMMA ChangeIInv ==
    ASSUME IInv, Change
    PROVE  IInv'
<1>1. PICK u \in user : todo' = <<Store("users", u)>>
  BY DEF Change
<1>2. Store("users", u) \in Stores
  BY StoreTypes, SampleFacts DEF DBs, IInv, TypeOK
<1>. QED BY <1>1, <1>2, CommandIInv DEF Change, dbVars, initVars, ghostVars

LEMMA PlaceOrderIInv ==
    ASSUME IInv, NEW p \in Sample["products"], NEW t \in NewTIDs, PlaceOrder(p, t)
    PROVE  IInv'
<1>1. PICK u \in user :
        todo' = <<Store("products", p), Store("orders", t), Store("users", u)>>
  BY DEF PlaceOrder
<1>2. /\ Store("products", p) \in Stores /\ Store("orders", t) \in Stores
      /\ Store("users", u) \in Stores
  BY StoreTypes, SampleFacts DEF DBs, IInv, TypeOK
<1>3. todo' \in Seq(Stores)
  BY <1>1, <1>2
<1>. QED BY <1>3, CommandIInv DEF PlaceOrder, dbVars, initVars

LEMMA LoginIInv ==
    ASSUME IInv, NEW u \in Users, Login(u)
    PROVE  IInv'
<1>. USE DEF IInv
<1>1. /\ ~ LoggedIn /\ named[u] \subseteq records["orders"]
      /\ user' = {u} /\ history' = named[u] /\ outlived' = (outlived \/ phase # "none")
      /\ UNCHANGED <<there, families, records, named, lock, phase, step, fresh, met, broken>>
  BY DEF Login, dbVars, initVars
<1>2. todo' \in Seq(Stores)
  <2>1. Store("users", u) \in Stores
    BY StoreTypes, SampleFacts DEF DBs
  <2>2. \A p \in records["products"] : Store("products", p) \in Stores
    BY StoreTypes DEF DBs, TypeOK
  <2>3. CASE named[u] = {}
    BY <2>1, <2>3 DEF Login
  <2>4. CASE named[u] # {}
    <3>1. PICK p \in records["products"] :
            todo' = <<Store("products", p), Store("users", u)>>
      BY <2>4 DEF Login
    <3>. QED BY <2>1, <2>2, <3>1
  <2>. QED BY <2>3, <2>4
<1>3. \A d \in DBs : lock[d] # "session"
  BY <1>1 DEF SessionForm, LocksHeld
<1>4. Done' = Done
  BY <1>1 DEF Done
<1>5. TypeOK' /\ Functions'
  <2>1. \A i \in DOMAIN todo' : todo'[i].db \in DBs /\ todo'[i].key \in Names(todo'[i].db)
    BY <1>2, TodoType
  <2>. QED BY <1>1, <2>1 DEF TypeOK, Functions
<1>6. SessionForm'
  BY <1>1, <1>2 DEF SessionForm, LoggedIn
<1>7. LocksHeld' /\ NobodyMet' /\ AtPhase'
  BY <1>1, <1>3 DEF LocksHeld, NobodyMet, AtPhase
<1>8. DonePopulated' /\ DoneNamed'
  BY <1>1, <1>4 DEF DonePopulated, DoneNamed, TypeOK
<1>9. HistoryStored' /\ NamedOrdersExist'
  BY <1>1 DEF HistoryStored, NamedOrdersExist, LoggedIn
<1>. QED BY <1>5, <1>6, <1>7, <1>8, <1>9

LEMMA StoreOpenIInv ==
    ASSUME IInv, StoreOpen
    PROVE  IInv'
<1>. USE DEF IInv
<1>. DEFINE d == Head(todo).db
            k == Head(todo).key
<1>1. /\ todo # <<>> /\ lock[d] = "free"
      /\ lock' = [lock EXCEPT ![d] = "session"]
      /\ there' = [there EXCEPT ![d] = TRUE]
      /\ families' = [families EXCEPT ![d] = @ \cup {k}]
      /\ met' = (met \/ phase # "none")
      /\ UNCHANGED <<records, named, phase, step, user, history, todo,
                     fresh, broken, outlived>>
  BY DEF StoreOpen, Touches, initVars, sessionVars
<1>2. d \in DBs /\ k \in Names(d) /\ k \in AllNames
  BY <1>1, HeadStore, StoreTypes
<1>3. Done' = Done /\ Done \subseteq DBs
  BY <1>1, DoneFacts DEF Done
<1>. HIDE DEF d, k
<1>4. /\ \A x \in DBs : families'[x] = IF x = d THEN families[x] \cup {k} ELSE families[x]
      /\ \A x \in DBs : lock'[x] = IF x = d THEN "session" ELSE lock[x]
  BY <1>1 DEF Functions, TypeOK
<1>5. TypeOK'
  <2>1. \A x \in DBs : families'[x] \subseteq Names(x) /\ records[x] \subseteq families'[x]
    BY <1>1, <1>2, <1>4 DEF TypeOK
  <2>. QED BY <1>1, <1>2, <2>1 DEF TypeOK
<1>6. Functions'
  BY <1>1, <1>2 DEF Functions
<1>7. SessionForm'
  BY <1>1 DEF SessionForm, LoggedIn
<1>8. LocksHeld'
  <2>1. d = Head(todo).db /\ k = Head(todo).key
    BY DEF d, k
  <2>2. todo' = todo /\ phase' = phase /\ step' = step /\ todo # <<>> /\ lock[d] = "free"
    BY <1>1
  <2>3. families'[d] = families[d] \cup {k}
    BY <1>2, <1>4
  <2>4. \A x \in DBs \ {d} : lock'[x] = lock[x] /\ families'[x] = families[x]
    BY <1>4
  <2>. QED BY <1>2, <1>4, <2>1, <2>2, <2>3, <2>4 DEF LocksHeld
<1>9. NobodyMet'
  BY <1>1, <1>4 DEF NobodyMet
<1>10. AtPhase'
  <2>1. phase # "none" => met'
    BY <1>1
  <2>2. step \in {"entries", "write"} /\ phase \in DBs => families'[phase] = families[phase]
    BY <1>1, <1>4 DEF LocksHeld
  <2>. QED BY <1>1, <2>1, <2>2 DEF AtPhase, TypeOK
<1>11. DonePopulated'
  BY <1>1, <1>3, DoneFacts DEF DonePopulated
<1>12. DoneNamed'
  BY <1>1, <1>3, DoneFacts DEF DoneNamed
<1>13. HistoryStored' /\ NamedOrdersExist'
  BY <1>1 DEF HistoryStored, NamedOrdersExist, LoggedIn
<1>. QED BY <1>5, <1>6, <1>7, <1>8, <1>9, <1>10, <1>11, <1>12, <1>13

LEMMA StoreWriteIInv ==
    ASSUME IInv, StoreWrite
    PROVE  IInv'
<1>. USE DEF IInv
<1>. DEFINE d == Head(todo).db
            k == Head(todo).key
<1>1. /\ todo # <<>> /\ lock[d] = "session" /\ todo' = Tail(todo)
      /\ lock' = [lock EXCEPT ![d] = "free"]
      /\ records' = [records EXCEPT ![d] = @ \cup {k}]
      /\ named' = IF d = "users" THEN [named EXCEPT ![k] = history] ELSE named
      /\ history' = IF d = "orders" THEN history \cup {k} ELSE history
      /\ met' = (met \/ phase # "none")
      /\ UNCHANGED <<there, families, phase, step, user, fresh, broken, outlived>>
  BY DEF StoreWrite, Touches, initVars
<1>2. d \in DBs /\ k \in Names(d) /\ k \in AllNames /\ todo' \in Seq(Stores)
  BY <1>1, HeadStore, StoreTypes
<1>3. Done' = Done /\ Done \subseteq DBs
  BY <1>1, DoneFacts DEF Done
<1>4. LoggedIn
  BY <1>1 DEF SessionForm
<1>5. \A x \in DBs : lock[x] = "session" => x = d
  BY DEF LocksHeld
<1>. HIDE DEF d, k
<1>6. /\ \A x \in DBs : records'[x] = IF x = d THEN records[x] \cup {k} ELSE records[x]
      /\ \A x \in DBs : lock'[x] = IF x = d THEN "free" ELSE lock[x]
  BY <1>1 DEF Functions, TypeOK
<1>7. TypeOK' /\ Functions'
  <2>1. \A x \in DBs : records'[x] \subseteq families'[x]
    BY <1>1, <1>2, <1>6 DEF TypeOK, LocksHeld, d, k
  <2>2. named' \in [Users -> SUBSET Names("orders")]
    BY <1>1, <1>2, SampleFacts DEF TypeOK
  <2>3. history' \subseteq Names("orders")
    BY <1>1, <1>2 DEF TypeOK
  <2>4. \A i \in DOMAIN todo' : todo'[i].db \in DBs /\ todo'[i].key \in Names(todo'[i].db)
    BY <1>2, TodoType
  <2>5. Functions' /\ DOMAIN records' = DBs
    BY <1>1, <1>2 DEF Functions
  <2>6. lock' \in [DBs -> {"free", "init", "session"}]
    BY <1>1 DEF TypeOK
  <2>. QED BY <1>1, <2>1, <2>2, <2>3, <2>4, <2>5, <2>6 DEF TypeOK
<1>8. SessionForm'
  BY <1>1, <1>2, <1>4 DEF SessionForm, LoggedIn
<1>9. LocksHeld'
  BY <1>1, <1>5, <1>6 DEF LocksHeld
<1>10. NobodyMet'
  BY <1>1 DEF NobodyMet
<1>11. AtPhase'
  BY <1>1 DEF AtPhase
<1>12. DonePopulated'
  <2>1. \A x \in Done : Sample[x] \subseteq records'[x]
    BY <1>3, <1>6 DEF DonePopulated
  <2>2. Done # {} => met'
    BY <1>1, DoneFacts
  <2>. QED BY <1>3, <2>1, <2>2 DEF DonePopulated
<1>13. DoneNamed'
  <2>1. Done # {} => met' /\ outlived
    BY <1>1, <1>4, DoneFacts DEF HistoryStored
  <2>. QED BY <1>1, <1>3, <2>1 DEF DoneNamed
<1>14. HistoryStored'
  BY <1>1, <1>6 DEF HistoryStored, LoggedIn, DBs
<1>15. NamedOrdersExist'
  <2>. SUFFICES ASSUME phase = "none", ~ broken, ~ outlived, NEW u \in Users
                PROVE  named'[u] \subseteq records'["orders"]
    BY <1>1 DEF NamedOrdersExist
  <2>1. /\ named[u] \subseteq records["orders"] /\ history \subseteq records["orders"]
        /\ records["orders"] \subseteq records'["orders"]
    BY <1>6 DEF NamedOrdersExist, HistoryStored, DBs
  <2>2. named'[u] = named[u] \/ named'[u] = history
    BY <1>1 DEF TypeOK
  <2>. QED BY <2>1, <2>2
<1>. QED BY <1>7, <1>8, <1>9, <1>10, <1>11, <1>12, <1>13, <1>14, <1>15

LEMMA SessionEndsIInv ==
    ASSUME IInv, SessionEnds
    PROVE  IInv'
<1>. USE DEF IInv
<1>1. /\ user' = {} /\ history' = {} /\ todo' = <<>>
      /\ lock' = Released("session")
      /\ UNCHANGED <<there, families, records, named, phase, step, fresh, met, broken, outlived>>
  BY DEF SessionEnds, dbVars, initVars, ghostVars
<1>2. \A d \in DBs : lock'[d] = IF lock[d] = "session" THEN "free" ELSE lock[d]
  BY <1>1 DEF Released
<1>3. Done' = Done
  BY <1>1 DEF Done
<1>4. TypeOK' /\ Functions'
  <2>1. lock' \in [DBs -> {"free", "init", "session"}]
    BY <1>1 DEF Released, TypeOK
  <2>. QED BY <1>1, <2>1 DEF TypeOK, Functions
<1>5. SessionForm'
  BY <1>1 DEF SessionForm
<1>6. LocksHeld' /\ NobodyMet' /\ AtPhase'
  BY <1>1, <1>2 DEF LocksHeld, NobodyMet, AtPhase
<1>7. DonePopulated' /\ DoneNamed'
  BY <1>1, <1>3 DEF DonePopulated, DoneNamed
<1>8. HistoryStored' /\ NamedOrdersExist'
  BY <1>1 DEF HistoryStored, NamedOrdersExist, LoggedIn
<1>. QED BY <1>4, <1>5, <1>6, <1>7, <1>8

LEMMA NextIInv == IInv /\ [Next]_vars => IInv'
<1>. SUFFICES ASSUME IInv, [Next]_vars PROVE IInv'
  OBVIOUS
<1>1. CASE Start
  BY <1>1, StartIInv
<1>2. CASE InitStep
  <2>1. CASE Destroy
    BY <2>1, DestroyIInv
  <2>2. CASE Create
    BY <2>2, CreateIInv
  <2>3. CASE Created
    BY <2>3, CreatedIInv
  <2>4. CASE Open
    BY <2>4, OpenIInv
  <2>5. CASE Write
    BY <2>5, WriteIInv
  <2>6. CASE ProductsNotCreated
    BY <2>6, ProductsNotCreatedIInv
  <2>7. CASE OpenFails
    BY <2>7, KilledIInv
  <2>8. CASE \E d \in DBs : \E e \in Sample[d] : phase = d /\ CreateEntry(e)
    BY <2>8, CreateEntryIInv
  <2>. QED BY <1>2, <2>1, <2>2, <2>3, <2>4, <2>5, <2>6, <2>7, <2>8 DEF InitStep
<1>3. CASE InitKilled
  BY <1>3, KilledIInv
<1>4. CASE DestroyKilled
  BY <1>4, DestroyKilledIInv
<1>5. CASE SessionStep
  <2>1. CASE \E u \in Users : Login(u)
    BY <2>1, LoginIInv
  <2>2. CASE Change
    BY <2>2, ChangeIInv
  <2>3. CASE StoreOpen
    BY <2>3, StoreOpenIInv
  <2>4. CASE StoreWrite
    BY <2>4, StoreWriteIInv
  <2>5. CASE SessionEnds
    BY <2>5, SessionEndsIInv
  <2>6. ASSUME NEW p \in Sample["products"], Browse(p) \/ \E t \in NewTIDs : PlaceOrder(p, t)
        PROVE  IInv'
    BY <2>6, BrowseIInv, PlaceOrderIInv
  <2>. QED BY <1>5, <2>1, <2>2, <2>3, <2>4, <2>5, <2>6 DEF SessionStep
<1>6. CASE UNCHANGED vars
  <2>1. UNCHANGED <<there, families, records, named, lock, phase, step, user, history, todo,
                    fresh, met, broken, outlived>>
    BY <1>6 DEF vars, dbVars, initVars, sessionVars, ghostVars
  <2>2. Done' = Done
    BY <2>1 DEF Done
  <2>. QED BY <2>1, <2>2
           DEF IInv, TypeOK, Functions, SessionForm, LocksHeld, NobodyMet, AtPhase,
               DonePopulated, DoneNamed, HistoryStored, NamedOrdersExist, LoggedIn
<1>. QED BY <1>1, <1>2, <1>3, <1>4, <1>5, <1>6 DEF Next

-----------------------------------------------------------------------------
(* The theorems.                                                           *)

LEMMA Invariant == Spec => []IInv
BY InitIInv, NextIInv, PTL DEF Spec

\* Types of the variables: among them, that every record is in a column family
\* that exists, whatever initDB and the stores of a session do to it.
THEOREM InitDBTypes == Spec => []TypeOK
<1>1. IInv => TypeOK
  BY DEF IInv
<1>. QED BY <1>1, Invariant, PTL

\* initDB, started again after it was killed anywhere, any number of times,
\* comes through all its opens (StorageSystem.cpp): only a session that had a
\* database open while it ran can make it fail.
THEOREM InitRepairs == Spec => []RerunRepairs
<1>1. IInv => RerunRepairs
  <2>. SUFFICES ASSUME IInv, phase # "none", ~ met, step \in {"create", "open"}
                PROVE  /\ step = "create" => CanCreate
                       /\ step = "open" => CanOpen
    BY DEF RerunRepairs
  <2>1. phase \in DBs
    BY DEF IInv, TypeOK
  <2>2. lock[phase] # "init" /\ lock[phase] # "session"
    BY <2>1 DEF IInv, LocksHeld, NobodyMet
  <2>3. lock[phase] = "free"
    BY <2>1, <2>2 DEF IInv, TypeOK
  <2>. QED BY <2>3 DEF IInv, AtPhase, CanCreate, CanOpen
<1>. QED BY <1>1, Invariant, PTL

\* The orders that user records name exist, but for a run that is under way or
\* was killed and for a session that a run did not end: getUser can load them.
THEOREM NamedOrdersLoad == Spec => []NamedOrdersExist
<1>1. IInv => NamedOrdersExist
  BY DEF IInv
<1>. QED BY <1>1, Invariant, PTL

\* When initDB returns, every record of the sample is there, and nothing else
\* unless a session had a database open while it ran.
THEOREM InitPopulates == Spec => RunPopulates
<1>1. ASSUME IInv, Next, phase # "none", phase' = "none", ~ broken'
      PROVE  /\ \A d \in DBs : Sample[d] \subseteq records'[d]
             /\ ~ met => families' = Sample /\ records' = Sample /\ named' = SampleOrders
  <2>1. Write
    <3>1. ~ Start /\ ~ InitKilled /\ ~ DestroyKilled /\ ~ OpenFails
      BY <1>1 DEF Start, InitKilled, DestroyKilled, OpenFails, InitEnds
    <3>2. ~ SessionStep
      BY <1>1 DEF SessionStep, Login, Change, StoreOpen, StoreWrite, SessionEnds, Browse,
                  PlaceOrder, initVars
    <3>3. ~ Destroy /\ ~ Create /\ ~ Created /\ ~ Open /\ ~ ProductsNotCreated
      BY <1>1 DEF Destroy, Create, Created, Open, ProductsNotCreated
    <3>4. \A e : ~ CreateEntry(e)
      BY <1>1 DEF CreateEntry, initVars
    <3>. QED BY <1>1, <3>1, <3>2, <3>3, <3>4 DEF Next, InitStep
  <2>2. /\ phase = "orders" /\ families[phase] = Sample[phase] /\ named' = named
        /\ families' = families
        /\ \A d \in DBs : records'[d] = IF d = phase THEN Sample[d] ELSE records[d]
    BY <1>1, <2>1, WriteEffect
  <2>3. DBs = Done \cup {phase}
    BY <2>2, DoneFacts DEF DBs
  <2>4. \A d \in DBs : Sample[d] \subseteq records'[d]
    BY <1>1, <2>2, <2>3 DEF IInv, DonePopulated
  <2>5. ASSUME ~ met PROVE families' = Sample /\ records' = Sample /\ named' = SampleOrders
    <3>1. \A d \in DBs : families'[d] = Sample[d]
      BY <1>1, <2>2, <2>3, <2>5 DEF IInv, DonePopulated
    <3>2. IInv'
      BY <1>1, NextIInv
    <3>3. \A d \in DBs : records'[d] = Sample[d]
      BY <2>4, <3>1, <3>2 DEF IInv, TypeOK
    <3>4. families' = [d \in DBs |-> families'[d]] /\ records' = [d \in DBs |-> records'[d]]
      BY <3>2 DEF IInv, Functions
    <3>5. Sample = [d \in DBs |-> Sample[d]]
      BY InitAssumption
    <3>6. named = SampleOrders
      BY <1>1, <2>2, <2>5, DoneFacts DEF IInv, DoneNamed
    <3>. QED BY <2>2, <3>1, <3>3, <3>4, <3>5, <3>6
  <2>. QED BY <2>4, <2>5
<1>2. IInv /\ [Next]_vars =>
        [phase # "none" /\ phase' = "none" /\ ~ broken' =>
            /\ \A d \in DBs : Sample[d] \subseteq records'[d]
            /\ ~ met => families' = Sample /\ records' = Sample /\ named' = SampleOrders]_vars
  BY <1>1
<1>. QED BY <1>2, Invariant, PTL DEF Spec, RunPopulates

=============================================================================
