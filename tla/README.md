# Online Shopping Center: verification project

TLA+ specifications of the program in `OnlineShoppingCenter/`: a command line
shop that keeps users, products and orders in three RocksDB databases. The
specifications are checked with TLC on small instances and, where marked, proved
with TLAPS for every value of the constants.

## 1. Inventory

| Part | State | Operations | Correct when |
|---|---|---|---|
| `StorageSystem` (storagesystem.cpp) | the databases users, products, orders under `./OSCdb`, each with a LOCK file | store and get for user, product, transaction; `initDB` | no store loses or invents data; what it stores it can read again; a failed open does no harm |
| `ShoppingCart` (shoppingcart.cpp) | `map<SKU, pair<Product, unsigned>>` | addProduct, deleteProduct, changeQuantity, emptyCart, checkCart, buyCart | what is shown is what can be changed and bought; every change is stored |
| `Product` (product.cpp) | UPC, quantity, name, price, category | setters; `setQuantity` also **stores** | the quantity on disk is the number of units left |
| `Transaction` (transaction.cpp) | id, copy of the cart, address, card | constructors, `chargeCreditCard` | an order takes exactly its units; it never fails halfway |
| `TransactionHistory`, `User` | list of transactions; name, cart, history, address, card | addTransaction; changeShippingAddress, changeCreditCard (both **store**) | the history never shrinks and names only orders that exist |
| `ShippingAddress`, `PaymentInfo` | text and numbers, and which parts are set | setters | what is stored can be parsed at the next login; no part of an address is stored without the rest |
| checkout dialogue (main.cpp 294-565) | the prompt, the order's address and card, the form being typed, `cmd` | the prompts of address, card and confirmation | what is ordered is complete and was agreed to; what is on file is what the customer wants there |
| `initDB` | the three databases | destroy, create, write, per database | a run that ends has populated everything; one that was killed can be repeated |
| `main.cpp` | the menu the user is in | login; inventory; addtocart; cart: remove, changeqty, clear, checkout; account: addr, pay, orders; exit | every command ends at a prompt; the stock is never oversold |

How the parts interact. Everything is a direct call; the only shared state
between two running copies of the program is the directory. `main` logs in with
`getUser`, which loads every past order with `getTransaction` and every product
in them and in the cart with `getProduct`. A method of the logged-in user's cart
ends with `storeUser`. Checking out makes a `Transaction` with a copy of the
cart; `chargeCreditCard` stores the products, then the transaction, then the
user.

What is hard about it:

- **Reads that write.** `getProduct` ends with `setQuantity`, which stores the
  product. Logging in or looking at the inventory writes the products database,
  with the number read a moment before.
- **Copies.** Cart and transaction hold copies of products. `chargeCreditCard`
  subtracts from its copy and never reads the database again.
- **Three databases, no transaction.** A process that ends inside
  `chargeCreditCard` leaves some of the stores done and the others not.
- **Locks that do not wait.** `DB::Open` fails at once when another process has
  the LOCK file. The code ignores the status and indexes an empty vector.
- **Stores at login.** `getUser` stores the user before it has read the cart.
- **Jumps.** The dialogue is a web of `goto`s through which an order passes several
  times with its address and its card set or not; two of its questions read no
  answer; at the end of input every question counts as answered.
- **Text that must convert.** What a form accepts is converted again by the next
  login, and an exception there locks the user out.
- **`--init` is not atomic**, does not look at errors, and can meet a session.

`PROJECT.json` lists each of these as a hazard, at its line, with the properties
aimed at it.

## 2. Modules

| Module | What it is | Code |
|---|---|---|
| `ShoppingCart` | cart data and what each method does to it | shoppingcart.cpp, product.h |
| `StorageSystem` | the databases, their locks, and the open and the write of each store method | storagesystem.cpp |
| `OnlineShop` | the program, in any number of processes; its properties | main.cpp, transaction.cpp, user.cpp, getUser, getTransaction |
| `SessionCart` | `OnlineShop` with a history variable: which sessions have stored their cart | - |
| `StockLedger` | abstract specification: what the shop promises about its stock | - |
| `Account` | lines of text as `stoul` sees them; address and card in memory and on disk | shippingaddress.cpp, paymentinfo.cpp, parts of storeUser and getUser |
| `CheckoutDialog` | login, account menu and checkout prompt by prompt | main.cpp, user.cpp |
| `OrderStages` | abstract specification of that dialogue: address, card, confirmation | - |
| `TypedNumbers` | quantities and viewer indices through their conversions | main.cpp |
| `InitDB` | `--init` as a process, next to a session | storagesystem.cpp 491-804, RocksDB's open and destroy |
| `MCOnlineShop`, `MCSessionCart`, `MCCheckoutDialog`, `MCTypedNumbers`, `MCInitDB` | values of the constants for TLC | - |
| `OnlineShopProofs` | theorems for any number of processes | - |
| `SingleSessionProofs` | theorems about the stock for one process at a time, and the refinement of `StockLedger` | - |
| `UserRecordProofs` | theorems about history, cart and orders of users, each with one session at a time | - |
| `CheckoutDialogProofs` | theorems about the dialogue, and its refinement of `OrderStages` | - |
| `DialogInputProofs` | theorems about lines that wait in the input and about its end | - |
| `TypedNumbersProofs`, `InitDBProofs` | theorems about `TypedNumbers` and `InitDB` | - |

`SessionCart` extends `OnlineShop`, which extends `StorageSystem`, which extends
`ShoppingCart`;
`StockLedger` is instantiated by `OnlineShop`. `CheckoutDialog` and `TypedNumbers`
extend `Account`; `CheckoutDialog` instantiates `OrderStages`. Each of the three
big modules keeps what its questions need and replaces the others by what they
do to it: `OnlineShop` has the databases and any number of processes and passes
through the dialogue in the stages of `OrderStages`; `CheckoutDialog` has the
dialogue and reduces cart, stock and orders to whether the cart is filled;
`InitDB` has the databases as they come and go and reduces a session to the
stores it makes.

### OnlineShop

A process is a label `pc` and the program's memory. *A step is one access to a
database with all the computing up to the next access.* A store is two steps,
because other processes can act between the open that takes the LOCK file and the
batch: labels `sp_open`, `sp_write` (storeProduct), `su_open`, `su_write`
(storeUser), `st_list`, `st_open`, `st_write` (storeTransaction, which also lists
the column families beforehand). The first two return to the label in `ret`.
Writing the batch and closing the database is one step: another process cannot
tell whether the writer still has the lock after the batch from whether it had it
before. `OpenForReadOnly` takes no lock and shows the data as of the open, so a
read is one step; `getUser` keeps its handle open and reads from it later, which
is the variable `userdb`.

| Code | Actions |
|---|---|
| getUser, getTransaction | Login, GuOrder, GuItem, GuOrderDone, GuAddress, GuCard, GuCart, GuAdd, LoggedIn |
| inventory | ListItem, ListDone |
| addtocart, addProduct | AddToCart, AddToCartBadUpc, AddToCartBadQty, AddOne, PutZero, Put |
| cart menu | RemoveItem, ChangeQty, Clear, Checkout, Back |
| checkout dialogue | OrderAddress, OrderCard, Decline, PlaceOrder |
| chargeCreditCard | Charge, ChargeAgain, Charged, StList, StOpen, StWrite, Finish |
| account menu | ChangeAccount |
| stores | SpOpen, SpWrite, SuOpen, SuWrite, OpenFails |
| end of a process | Exit, Crash (a signal or an uncaught exception, at any label) |

Commands that only print an error and ask again change nothing and are
stuttering steps. `sold` and `killed` are history variables: units in the orders
written since `--init`, and whether any process ended other than by `exit`.

`SessionCart` adds one more, `touched`: whether a command of the session has changed
the cart or stored the user. What the database has of the cart depends on it, since
`getUser` erases the stored cart and fills only the one in memory. `Observe` follows
the steps and restrains none, so every behaviour of `OnlineShop` is one of
`SessionCart` (`SpecH`), and conversely.

`StockLedger`, the abstract specification, has the units that are in no order, the
orders, and a `till` that is closed, open or charging an order. Units go only with
an order that is placed, or when the program ends while it is charging.

Abstractions. Of a product only UPC and quantity are kept, of an order id and
items, of a user cart and order ids: no decision modelled here depends on the
rest. Address and card are reduced to the stores they cause. A quantity is what
`stoul` and the cast to unsigned int have made of the text, so it is any member
of the set `Qtys`. Unsigned subtraction keeps its width (`Minus`). A transaction
id is drawn from `TIDs`, never one used before (uuid_generate); when `TIDs` is used
up, nobody can check out any more.

The initial state of `OnlineShop` is what `initDB` leaves behind: `Stock`, `SampleUsers` and
`SampleOrders`. In most runs the users are like testuser003 and testuser004,
without cart and orders; the orders of other users are then left out, because
only their owner reads them and because every process lists them. In the run
`repeat` one user is like testuser001 and has an order from the start.

### Account and CheckoutDialog

A line of text is a kind (blank, begins with n, another word, digits, digits and
more, a command) and the value of its digits: this is all that `isspace`,
`front()`, `split` and `stoul` can tell of it. `stoul` of the C++ library throws
`invalid_argument` if there are no digits (`Converts`) and `out_of_range` if they
are too many (`Fits`). An address is the set of parts that are set, and the
postal code; the other parts are text that is never looked at. On disk it is the
set of keys present. `storeAddress` has the logical `&&` of storagesystem.cpp:60
and the uninitialized `zip`, which is any unsigned int. `loadCard` takes the CV2
from `cc_exp`, as getUser does.

`pc` is the prompt at which the program waits in `getline`; *a step reads one line
and does everything up to the next `getline`*. `cmd` is main's variable of that
name, which keeps its value from prompt to prompt. Input that is typed before it
is asked for waits in `ahead`, which is how the answer to a question that reads
none gets to the next prompt. `eof` is the stream's eofbit: it can be set by any
line, since the last line may lack its newline; from then on a `getline` leaves
its variable alone. At a question any line can be typed (`AnyLine`): what begins with
an n means no, everything else means yes, the name of a command too, and if it was
the last line a menu finds it in `cmd` afterwards and carries it out. `cmd.front()`
of an empty string is the terminating zero.

| Code | Actions |
|---|---|
| getUser, uncaught exceptions | Login, LoginCard, LoginFails |
| menus | AddToCart, RemoveItem (with changeqty), Clear, OpenMenu, Back, Exit, ChangeAccount, Checkout, OtherCommand |
| address form, of the checkout and of the account menu | TextField, ZipField, RefuseAddress, AcceptAddress, KeepAddress |
| card form, likewise | CardNumber, CardExpiry, CardCv2, RefuseCard, AcceptCard, KeepCard |
| use what is on file | UseAddress, UseCard |
| confirmation | Decline, PlaceOrder |

The two forms exist twice in main.cpp (328-470 and 609-751, 482-538 and 753-806)
and differ in where they go; `caller` tells which. `orderaddr`, `AskAddress`,
`ordercc` and `AskCard` are the labels and tests of the checkout: the prompt that
the next `getline` is at. A store is one step here: one process at a time. The
address and card that `storeTransaction` copies into the order are not kept, as
nothing reads them but the viewer's output. `late` is a history variable.

### TypedNumbers

One product, its quantity in the database, its entry in the cart with the copy of the
product made when it was put there, the length of the history, and the conversions of
`addtocart`, `changeqty` and `orders`, with both widths as constants. An order is
charged in one step (`Charge`), from the copy in the cart, as `OnlineShop` shows it can
be for one session. `t_idx-1` overflows for the smallest int: undefined, so that the
result is either of those that compiled code gives. `asked` and `index` record
what was typed, `sold` adds up what was ordered.

### InitDB

A database is whether it exists, its column families, and which of them have
data; of a user record only the orders it names are kept. `phase` and `step` are
where `initDB` is: destroy, create, one `CreateDBEntry` after the other, close
and open again, write and close. The products are created through the deleted
`userdb`: in practice the new object may be in the place of the old one, so any
number of them may come into being (`CreateEntry`, `Created`), or the process
ends (`InitKilled`). `DestroyDB` of a database that is open elsewhere fails
without effect and unnoticed; a failed open leaves a null pointer, which ends the
process, except at the first open of the products, whose handle is never used
(`ProductsNotCreated`). Killed inside `DestroyDB`, any part of the data is left.

A session logs in, stores products and its user, places orders and ends, in the
steps open and write. Listing the column families and opening are one step here
(`OnlineShop` has them apart). `met`, `broken` and `outlived` are history
variables that say under which circumstances a property is claimed.

## 3. Properties and runs

Every passing run also lets processes be killed at any label.

**single** - one process at a time, products a and b with one unit each, two
orders, quantities 0, 1 and 2 (2 is more than there is).
- `TypeOK`.
- `StockAccounted`: units on the shelf, in orders written and taken by the order
  being charged add up to what there was; to less only after a crash.
- `ImplementsLedger`: the program implements `StockLedger`, where an order takes
  all its units and is recorded in one step. The refinement mapping counts the
  units already taken by an order that is not written yet as still on the shelf;
  the step of the ledger is `StWrite`. The till of the ledger is charging while the
  process is in `chargeCreditCard`; units that vanish at any other step, or with any
  other end of a process, violate the property.

**repeat** - one process at a time, two users, two units of one product, one
order from `--init` and two more.
- `CartStored`, of `SessionCart`: at every prompt the cart on disk is exactly the one
  on the screen if a command of this session has changed or stored it, and is empty
  otherwise. So an `addtocart` that stores nothing violates it, also when the stored
  cart is empty. It says as well that the cart on disk *is* empty after a login,
  whatever is on the screen, as `getUser` stores the user before it reads the cart:
  logging in and leaving loses the stored cart. Nothing in the repository promises otherwise, so this
  is recorded here and in the hazards and not as a finding.
- `OrdersOwned`: without a crash every order written is in somebody's history or
  on its way there.
- `HistoryGrows`: no store cuts or rewrites the list of a user's orders.

**shared** - two processes of the same user, one unit.
- `LockOwned`, `OrdersExist`, `ChargeWithinCopy`, `StockBounded`,
  `OrdersImmutable`. These are what remains true when processes meet.

**answers** - two processes, one order, with fairness.
- `AlwaysAnswers`: whatever a process was told to do, it comes back to a prompt
  or ends.

**dialog** - sessions that follow each other, of a user with address and card on
file and one without, and of two who cannot log in; every kind of line is typed at
every prompt, commands as answers to questions included. With fairness.
- `TypeOK`, of `CheckoutDialog`.
- `AddressWhole`: an address is complete or absent, on disk, in memory and in the
  order; what makes the `&&` in storeUser harmless.
- `LoginWorks`: as long as expiration dates begin with a digit, nobody who could
  log in is locked out by what a session stores.
- `OrderComplete`: "Place order" is reached only with an address and a card.
- `FileMatchesMemory`: at every prompt the keys of the record on disk have what is in
  memory, `cc_cv2` the CV2: every change was stored. It does not say that the next
  login finds the same CV2: getUser takes that from `cc_exp`.
- `ImplementsStages`: the dialogue implements `OrderStages`. The stage is `ordercc`
  as soon as the order has an address, even while the program asks about the
  address again after a refused card.
- `OneOrderAfterEOF`, `SettlesAfterEOF`: after the end of input at most one order is
  placed, and the program comes to a loop (a menu, or the first prompt of a form,
  over and over) in which it changes nothing. The last line may be a command given
  as an answer: `cart` typed at "Place order" places the order and then opens the
  cart menu, which does not know the command and stays there; `checkout` is no
  command of the shell, and `exit` ends the program.

**viewer** - 3 bits of unsigned int, 5 of unsigned long, every number typed.
- `TypeOK`, of `TypedNumbers`.
- `ShowsListedOrder`: the viewer shows the order listed under the number typed, cut
  to an unsigned int, or none.
- `StockAsTyped`: over any number of orders the stock goes down by the quantities
  typed last, each cut to an unsigned int, and by nothing else. A copy in the cart
  that an earlier order made out of date, or a subtraction that wraps around, would
  violate it.

**populate** - two users, one of them with an order, two products, one order to be
placed; `--init` is killed and repeated any number of times next to one session.
- `TypeOK`, of `InitDB`.
- `RunPopulates`: a run that ends has written every record of the sample, and
  nothing else is there unless a session had a database open meanwhile.
- `RerunRepairs`: only such a session can make a run fail.
- `NamedOrdersExist`: outside of runs that did not end and sessions that outlived
  one, the orders named by user records exist.

**backorder** (expected violation of `NoBackorder`). Process 2 logs in and reads
the product while there is one unit; process 1 sells it; process 2 writes "one
unit" back, and sells it again. The program tells customers "WE CANNOT PLACE
ITEMS ON BACKORDER." (main.cpp:166).

**zero_quantity** (expected violation of `ShownIsInCart`). `addtocart <UPC> 0`
deletes the item and inserts it again with quantity 0; the cart shows it, and
`remove` says "No item with UPC %lu exists in the cart." (main.cpp:242).

**locked_out** (expected violation of `LoginWorks`). testuser003 enters a card with
an expiration date like "June 2020". It is accepted and stored, and getUser, which
takes the CV2 from `cc_exp`, cannot convert it any more. The README of the
repository says of the sample users "You may log in with any of them" (16).

**keep_on_file** (expected violation of `KeptWithConsent`). "Would you like to keep
this address on file [Y/n]?" (main.cpp:466) reads no answer; the address is stored,
and the n is taken by the next prompt.

**refused_address** (expected violation of `RefusalHonoured`). Refusing a card just
entered goes back to the address of an order that has one; answering n to "Would
you like to use this shipping address for this order [Y/n]?" (main.cpp:319) then
keeps that address.

Seen while modelling, and not runs of their own:

- testuser002 has the postal code V8T4G7 (storagesystem.cpp:552), which getUser
  passes to `stoul`: this sample user can never log in (`LoginFails`).
- The CV2 is converted from the card number (main.cpp:513 and 785; `EnteredCard`),
  and at the next login from the expiration date (storagesystem.cpp:202).
- At the end of input every question counts as answered with yes or with the line
  before: an order under way is placed (`OneOrderAfterEOF` says: one).
- A number that does not fit unsigned long ends the program at any prompt that
  converts one; only `invalid_argument` is caught.
- A quantity above unsigned int is cut before it is compared with the stock.
- `--help` says that missing databases will be created; a login opens them
  read-only and fails.
- With two processes of one user, a login that read the record before the other's
  order was placed stores the old list of orders: `OrdersOwned` and `HistoryGrows`
  are properties of users with one session at a time.

| Run | Distinct states | Time, 2 workers |
|---|---|---|
| single | 965,930 | 70 s |
| repeat | 348,944 | 12 s |
| shared | 831,375 | 60 s |
| answers | 363,442 | 130 s |
| dialog | 224,766 | 50 s |
| viewer | 39,579 | 4 s |
| populate | 381,111 | 16 s |

**Bounds.** Two products are enough for an order that has stored one and not the
other; two orders for a second sale after the first, and for a second order while
the first is in the history; two processes for every conflict on a lock, since a
lock has one holder and one loser; `UIntMax` is 2, so that a subtraction that went
below zero would come out inside the range and be noticed as wrong stock.
In the dialogue `UIntMax` is 1 and `ULongMax` 2: there are numbers that fit,
numbers that the cast cuts and numbers that are too long. At most one line waits
in `ahead` (`Waiting`, section 4), because a question that reads no answer is
followed by one that does. In `viewer` the widths are such that the negative ints, their size_t and
the longest history do not overlap, as with the real widths; with a stock of 5 there
are quantities below, at and above it, and three orders can use it up. In `populate` two
users and two products are enough for a database that is half created, and one
order from `--init` and one of a session for both generations.
Deadlock checking is on: a process can always exit, crash or log in. In `viewer`
it is off, as the process may end.

**Symmetry.** Processes and the ids of new transactions are only compared, never
ordered or chosen by name. The run with a liveness property uses no symmetry.

**Fairness.** `FairSpec` has weak fairness of `Step(p)`, the steps a process
takes by itself, for each process. The operating system runs every process that
can run, and none of these steps waits: an open that finds the lock taken fails
(`OpenFails`). There is no fairness of input or of crashes. In `CheckoutDialog`,
`FairSpec` has weak fairness of `eof /\ Step`: with no input left no `getline`
waits, so the process goes on by itself; while there is input, nothing is assumed
of the customer.

## 4. Proofs

All theorems are about `Spec`, `CartStoredCorrect` about `SpecH`, from the named assumptions of the modules:
`CartAssumption` (there is a product; `UIntMax` is positive),
`StorageAssumption` (NoProc and NoTID are not a process or an id),
`SampleAssumption` (types of what `--init` writes, and that the orders its users
name exist) and `ShopAssumption` (there is a user; quantities typed are unsigned
ints); for the dialogue `WidthAssumption` (an unsigned long holds every unsigned
int) and `DialogAssumption` (there is a user; types of the records at the
beginning, whose addresses have all keys or none, as `initDB` writes them, and of
the lines typed); for the numbers `WidthAssumption` and `TypedAssumption` (the stock
is an unsigned int, and the longest history is shorter than the largest int); for
`--init` `InitAssumption` (the sample is a function on the three databases, with
something in each; the orders its users name are in it; new ids are not).
Nothing is assumed finite. Where a theorem needs more, its statement has it as a
hypothesis: that there is one process, or one session of each user at a time; that
dates begin with a number; that the orders of `--init` are in somebody's history.

`OnlineShopProofs`, for any number of processes:

- `TypeCorrect`: `TypeOK` alone is not inductive. `GuAdd` and `Charge` apply a
  partial function, `GuOrderDone` indexes a sequence, and `StOpen` and `Finish` use
  the id of the order. `Control` adds, per process, what its label implies: the set
  still to visit is part of the cart or order being visited, the next order to
  load is inside the list, an order being placed has an id. `Where(p)` is the
  label a process will go on at, so that a fact survives the two steps of a store.
- `OrdersExistCorrect`: `HistoryWritten` adds that at label `finish` the order is
  written. It is this that makes the order of the stores in `chargeCreditCard`
  matter.
- `LockOwnedCorrect`: inductive together with the type invariant.
- `ChargeWithinCopyCorrect`, `StockBoundedCorrect`: `Quantities` says that no copy
  of a product anywhere (in hand, in a cart, in an order) has more than the
  initial stock, and that an order asks for no more than its copies have, so that
  the subtraction does not wrap around.

- `OrdersImmutableCorrect`: `OrderIds` follows an id from `uuid_generate` to the
  database. Two processes never have the same one; it is no column family of the
  orders database before `StOpen`; at `st_write` it is one that has no order yet.
  So the only step that writes orders, `StWrite`, adds one.

`SingleSessionProofs`, for one process:

- `StockAccountedCorrect`: the invariant is `Fresh`: every copy of a product that
  will be stored or subtracted from has the number that is in the database. Then
  storing a product just read changes nothing (`FreshStoreStep`), and the first
  store of a product by `chargeCreditCard` moves exactly the ordered units from
  the shelf into the order (`StoreFrame`). With two processes `Fresh` is false:
  this is the run `backorder`.
- `SessionImplementsLedger`: the same invariant, `OrderIds`, and `TodoDone`: at
  storeTransaction the loop over the items is over, so everything ordered has been
  taken. `StWrite` is then the ledger's `Place` (`WritePlaces`), the end of a process
  that is charging its `Lose`, and every other step, the stores of products and all
  other ends of a process included, leaves shelf plus units in flight as they were and
  moves the till or nothing. That the till stays at charging through the stores of
  products is `StoreTill`; where a store returns to, `Returns`.

`UserRecordProofs`, for any number of processes of which no two are logged in as the
same user at the same time (`OneSessionEach`). The program does not enforce this, and
with two sessions of one user the properties are false (section 3); with one process
it is always so, which the corollaries `RecordsKeptAlone` and `OrdersOwnedAlone`
state and the run `repeat` checks. A record then has one writer: other processes
leave it alone (`OthersRecord`). storeUser writes the whole record from memory, so
each property needs to know what memory has at the stores of a login:

- `HistoryGrowsCorrect`: by `HistoryKept`, memory has a beginning of the list on disk
  while getUser loads the orders, and nothing is stored then; afterwards the disk has
  a beginning of the list in memory. The sequence lemmas (`BeginsIsPrefix`,
  `BeginsAppend`, `BeginsRange`) connect this with `IsPrefix` and `Range`.
- `CartStoredCorrect`: by `CartKept`, the cart in memory is empty at the stores of a
  login, which therefore leave an empty cart on disk. It stays so until the session is
  `touched`; every command that changes the cart is at a store when it has changed it,
  and the end of that store makes disk and memory equal. `ObservedIsSpec` carries the
  invariants of `Spec` over to `SpecH`.
- `OrdersOwnedCorrect`: inductive together with `HistoryKept`, which is what keeps a
  store from dropping an order that only this user's record names. Its hypothesis on
  the sample holds of `initDB`, whose four orders are testuser001's.

`CheckoutDialogProofs`, for any users, records and lines typed:

- `DialogTypes`, `AddressesWhole`, `OrdersComplete`: none is inductive alone. `IInv`
  adds `FormParts`, which parts of the address form are set at which prompt and
  that every way out of the form has reset it; `NumberFits`, that the card number
  kept in `pay` has been through `stoul`; and `OrderSoFar`, what the order has and
  has not at the prompts before and after its address and its card. Since the
  labels jump to each other (`orderaddr`, `ordercc`), `LabelFacts` states once
  where they lead.
- `FileMatches`: the invariant is `OnFile`: the record on disk is what `storeUser`
  would write for the user in memory. Between the two halves of `getUser` it holds of the address alone.
  `Effects` sorts the steps into those that leave the user alone and those that
  store it as it is, with a new address, or with a new card.
- `DialogImplementsStages`: `StageByPrompt` gives the stage at each prompt. By
  `OnFile`, storing a user writes again what is there except for the part that has
  changed (`FilesEffect`), so settling an address leaves all cards alone, settling
  a card leaves all addresses alone, and placing an order leaves both alone.

`DialogImplementsStages` is a safety refinement: `OrderStages` has no fairness.

`DialogInputProofs`, on the invariants of `CheckoutDialogProofs`:

- `LoginKeepsWorking`, if every line typed for a date begins with digits that fit: an
  answer that waits in the input could be taken for the date. `Waiting` says that
  only an answer to one of the two questions that read none waits, that the next
  prompt takes it, and that none waits at the prompt for the date. `DatesLoad`
  follows the date through the form into memory, `OnFile` from there to disk. The
  hypothesis is needed: without it, `locked_out` is the counterexample.
- `OneLateOrder`: after an order at the end of input `cmd` keeps the answer to the last
  question for ever, and it may be a command. `AfterLateOrder` says that the program
  is then at a menu, and that at the cart or account menu `cmd` is the command that
  opened it: a second order would need a `cmd` that is both `cart` and `checkout`.
  `MenuAtEOF` goes through what a menu does with a line that does not change.

`TypedNumbersProofs`, for integers of any width: `NumberTypes`,
`ViewerShowsListedOrder`, `StockGoesAsTyped`. The invariant adds `CartAsTyped`, that a
quantity in the cart is the cast of the number typed last and that its copy of the
product has the number in the database, which the test at checkout then compares. The work is in the lemmas
about the conversions (`CastIsUInt`, `Wraps`, `HalfRange`, `IndexOfOrder`): an index
outside the history is still outside it after unsigned int, int, the subtraction and
size_t, including both outcomes of the overflow.

`InitDBProofs`, for any sample and any number of runs, kills and sessions:
`InitDBTypes`, `InitRepairs`, `NamedOrdersLoad` and `InitPopulates`. `IInv` says who
holds which LOCK file (`LocksHeld`) and that without a meeting it is not the session
(`NobodyMet`), which column families the database at hand has at each step
(`AtPhase`), what the databases before it have (`DonePopulated`, `DoneNamed`), and
that a session no run has met finds its orders on disk (`HistoryStored`). The run of
three databases is the induction: `DonePopulated` of the last one is `RunPopulates`.

Each step lemma sorts the actions into those that cannot disturb the invariant,
which a frame lemma settles together, and the few that can. Every invariant above
was checked with TLC on the constants of the runs before it was proved.

Only model-checked: `AlwaysAnswers` and `SettlesAfterEOF`, which are liveness under
fairness and out of TLAPS's reach, and the violations, whose counterexamples are
TLC's. Every other property of a passing run is a theorem. Not stated as a theorem
for one process is `NoBackorder`: it adds up the orders with a fold over a set, and
what a fold computes needs an induction that the prover does not have;
`StockAccountedCorrect`, with the sum kept in `sold`, takes its place.

## 5. Not modelled

- GLib and RocksDB themselves, under `externs/`. They are more than 99 percent of
  the lines in the repository and none of the program's own logic. Of RocksDB the
  LOCK file, the rule that an open names every column family, the creation of
  missing ones, `DestroyDB` and the read-only open are modelled, and mapped to its
  source; of GLib the program uses option parsing and printing.
- Option parsing, and all output.
- Name, price and category of a product, amount and date of an order: written,
  read and displayed, and never decided upon. The text of an address beyond
  whether it is there.
- Loss of power. The program never asks RocksDB to sync, so a crash of the
  machine can also lose the last batches.
- A read-only open that fails because another process compacts the database at
  that moment. At login the program ends with "Authentication failed...", which
  changes nothing; anywhere else it is an uncaught exception, which is `Crash`.
- Two processes in `DestroyDB` and `DB::Open` at once: the LOCK file is deleted after
  it is unlocked, and a process that opened it in between holds a lock on a file
  that is gone.

## 6. Plan

1. Done: cart, storage, the sessions, charging an order; type, lock, order and
   stock theorems.
2. Done: `Account`, `CheckoutDialog`, `TypedNumbers`, `InitDB`: the
   dialogue, typed numbers and `--init`.
3. Done: the safety theorems of every passing run: both refinements, the records of
   a user, ids of orders, the input of the dialogue, typed numbers and `--init`.
4. To consider next: how much of `StockAccounted` remains when several processes
   share the databases and sell different products. Every process still writes every
   product back when it lists the inventory, so `Fresh` would have to be replaced by
   a statement about the numbers in flight between a read and its store.
