--------------------------- MODULE CheckoutDialog ---------------------------
(***************************************************************************)
(* The dialogue of main.cpp, prompt by prompt: login, the account menu's   *)
(* addr and pay, and the checkout from "orderaddr" to "Order placed!", for *)
(* one process at a time.  A step reads one line; what the program does    *)
(* with it up to the next getline belongs to the step.  Input can end at   *)
(* any prompt, and the process can be killed at any prompt.                *)
(*                                                                         *)
(* OnlineShop has what this leaves out: carts, stock, orders, databases    *)
(* shared with other processes.                                            *)
(***************************************************************************)
EXTENDS Account

CONSTANTS
    Users,          \* users that log in
    SampleFiles,    \* their records as --init or earlier sessions left them
    TypedText,      \* lines typed at a prompt for text, other than blank ones
    TypedNumbers,   \* lines typed at a prompt for a number
    TypedDates      \* lines typed for the expiration date

\* initDB writes all keys of an address or none.
ASSUME DialogAssumption ==
    /\ Users # {}
    /\ SampleFiles \in [Users -> UserFile]
    /\ \A u \in Users : SampleFiles[u].addr.keys \in {{}, Fields}
    /\ TypedText \cup TypedNumbers \cup TypedDates \subseteq Line

VARIABLES
    pc,         \* the prompt the program waits at
    caller,     \* whether a form is filled in for an "order" or the "account"
    me,         \* logged_in: name, address and card
    filled,     \* whether logged_in's cart has something in it
    order,      \* address and card of the Transaction being checked out
    form,       \* the ShippingAddress being typed
    pay,        \* num_s, cc_exp and cv2_s, the card being typed
    file,       \* the users database
    cmd,        \* main's variable of that name
    eof,        \* whether a getline has met the end of the input
    ahead       \* lines typed that no getline has read

VARIABLES       \* history variable, not in the program
    late        \* orders this process has placed since the end of its input

inputVars == <<cmd, eof, ahead>>
formVars == <<caller, form, pay>>
vars == <<pc, formVars, me, filled, order, file, inputVars, late>>

Menus == {"shell", "cart", "account"}

AddressPrompts == {"name", "name2", "street", "street2", "city", "state", "zip", "country"}

Labels == Menus \cup AddressPrompts \cup
    {"off", "login", "use_addr", "addr_ok", "keep_addr",
     "use_card", "num", "exp", "cv2", "card_ok", "keep_card", "confirm"}

AnyUser == CHOOSE u \in Users : TRUE
Nobody == [name |-> AnyUser, addr |-> NoAddress, card |-> NoCard]
NoOrder == [addr |-> NoAddress, card |-> NoCard]
NoPay == [num |-> Blank, exp |-> Blank, cv2 |-> Blank]

\* Types of the variables.
TypeOK ==
    /\ pc \in Labels
    /\ caller \in {"order", "account"}
    /\ me \in [name : Users, addr : ShippingAddress, card : PaymentInfo]
    /\ filled \in BOOLEAN
    /\ order \in [addr : ShippingAddress, card : PaymentInfo]
    /\ form \in ShippingAddress
    /\ pay \in [num : Line, exp : Line, cv2 : Line]
    /\ file \in [Users -> UserFile]
    /\ cmd \in Line
    /\ eof \in BOOLEAN
    /\ ahead \in Seq(Line)
    /\ late \in Nat

Init ==
    /\ pc = "off"
    /\ caller = "order"
    /\ me = Nobody
    /\ filled = FALSE
    /\ order = NoOrder
    /\ form = NoAddress
    /\ pay = NoPay
    /\ file = SampleFiles
    /\ cmd = Blank
    /\ eof = FALSE
    /\ ahead = <<>>
    /\ late = 0

-----------------------------------------------------------------------------
(* Input.                                                                  *)

\* The lines a getline into a variable with the value old may leave there.
\* A getline that meets the end of the input leaves what came before it, a
\* last line without newline or nothing; later ones do not touch the variable.
Lines(old, typed) ==
    IF ahead # <<>> THEN {Head(ahead)}
    ELSE IF eof THEN {old}
    ELSE typed \cup {Blank}

Getline ==
    /\ ahead' = IF ahead = <<>> THEN ahead ELSE Tail(ahead)
    /\ eof' \in IF eof \/ Len(ahead) > 1 THEN {eof} ELSE BOOLEAN

\* Into cmd, and into a string that is declared for this one line.
CmdLines(typed) == Lines(cmd, typed)
ReadCmd(l) == Getline /\ cmd' = l

NewLines(typed) == Lines(Blank, typed)
ReadNew == Getline /\ UNCHANGED cmd

\* What can be typed where cmd is read: a command, an n, or something else,
\* a number included, that is no command.
AnyLine == {No, Word} \cup {Text(c) : c \in Commands}

\* A yes or no question.  Whatever does not begin with an n means yes, also
\* the name of a command.
Answers == CmdLines(AnyLine)

-----------------------------------------------------------------------------
(* The end of a process.                                                   *)

Off ==
    /\ pc' = "off"
    /\ caller' = "order"
    /\ me' = Nobody
    /\ filled' = FALSE
    /\ order' = NoOrder
    /\ form' = NoAddress
    /\ pay' = NoPay
    /\ UNCHANGED <<file, late>>

Crash ==
    /\ pc # "off"
    /\ Off
    /\ UNCHANGED inputVars

-----------------------------------------------------------------------------
(* storeUser(logged_in), for the logged_in that m is.                      *)

StoreUser(m) ==
    \E a \in storeAddress(file[m.name].addr, m.addr) :
        file' = [file EXCEPT ![m.name] =
                    [addr |-> a, card |-> storeCard(@.card, m.card)]]

\* User::changeShippingAddress and User::changeCreditCard of the user m.
changeShippingAddress(m, a) ==
    /\ me' = [m EXCEPT !.addr = a]
    /\ StoreUser(me')

\* Mutant of changeCreditCard: the user is not stored.
changeCreditCardUnstored(m, c) ==
    /\ me' = [m EXCEPT !.card = c]
    /\ UNCHANGED file

changeCreditCard(m, c) ==
    /\ me' = [m EXCEPT !.card = c]
    /\ StoreUser(me')

-----------------------------------------------------------------------------
(* getUser.  It stores the user twice, by changeShippingAddress and by     *)
(* changeCreditCard.                                                       *)

Login(u) ==
    /\ pc = "off"
    /\ LoadsAddress(file[u].addr)
    /\ changeShippingAddress([Nobody EXCEPT !.name = u], loadAddress(file[u].addr))
    /\ pc' = "login"
    /\ cmd' = Blank
    /\ eof' = FALSE
    /\ ahead' = <<>>
    /\ late' = 0
    /\ UNCHANGED <<formVars, filled, order>>

\* The card, and then the cart, which may be empty or not.
LoginCard ==
    /\ pc = "login"
    /\ LoadsCard(file[me.name].card)
    /\ IF file[me.name].card.keys
       THEN changeCreditCard(me, loadCard(file[me.name].card))
       ELSE UNCHANGED <<me, file>>
    /\ filled' \in BOOLEAN
    /\ pc' = "shell"
    /\ UNCHANGED <<formVars, order, inputVars, late>>

\* terminate, on an exception of stoul that main does not catch.
LoginFails ==
    /\ \/ pc = "off" /\ \E u \in Users : ~ LoadsAddress(file[u].addr)
       \/ pc = "login" /\ ~ LoadsCard(file[me.name].card)
    /\ Off
    /\ UNCHANGED inputVars

-----------------------------------------------------------------------------
(* Where the labels of the checkout lead, for the logged_in m and the      *)
(* order o.                                                                *)

AskCard(o) == IF o.card.is_set THEN "confirm" ELSE "num"

ordercc(m, o) == IF m.card.is_set THEN "use_card" ELSE AskCard(o)

\* Mutant of AskAddress: an order without address goes on to the card.
AskAddressNever(m, o) == ordercc(m, o)

AskAddress(m, o) == IF AddressSet(o.addr) THEN ordercc(m, o) ELSE "name"

orderaddr(m, o) == IF AddressSet(m.addr) THEN "use_addr" ELSE AskAddress(m, o)

-----------------------------------------------------------------------------
(* Menus.                                                                  *)

MenuCommands ==
    [shell   |-> {"addtocart", "cart", "account", "exit"},
     cart    |-> {"remove", "clear", "checkout", "back", "exit"},
     account |-> {"addr", "pay", "back", "exit"}]

\* The command c is read in menu m.
Command(m, c) ==
    /\ pc = m
    /\ c \in MenuCommands[m]
    /\ Text(c) \in CmdLines(AnyLine)
    /\ ReadCmd(Text(c))

\* Anything else: a blank line, what is no command of this menu, or one that is
\* refused, for its arguments or because the cart is empty or has invalid
\* quantities.
OtherCommand(m) ==
    /\ pc = m
    /\ \E l \in CmdLines(AnyLine) :
        /\ \/ l.kind \notin MenuCommands[m]
           \/ l.kind \in {"addtocart", "remove", "checkout"}
           \/ l.kind = "clear" /\ ~ filled
        /\ ReadCmd(l)
    /\ UNCHANGED <<pc, formVars, me, filled, order, file, late>>

\* Every method of the cart ends with storeUser.
AddToCart ==
    /\ Command("shell", "addtocart")
    /\ filled' = TRUE
    /\ StoreUser(me)
    /\ UNCHANGED <<pc, formVars, me, order, late>>

\* remove, of the last item or not, and changeqty.
RemoveItem ==
    /\ Command("cart", "remove")
    /\ filled
    /\ filled' \in BOOLEAN
    /\ StoreUser(me)
    /\ UNCHANGED <<pc, formVars, me, order, late>>

Clear ==
    /\ Command("cart", "clear")
    /\ filled
    /\ filled' = FALSE
    /\ StoreUser(me)
    /\ pc' = "shell"
    /\ UNCHANGED <<formVars, me, order, late>>

OpenMenu(m) ==
    /\ Command("shell", m)
    /\ pc' = m
    /\ UNCHANGED <<formVars, me, filled, order, file, late>>

Back(m) ==
    /\ Command(m, "back")
    /\ pc' = "shell"
    /\ UNCHANGED <<formVars, me, filled, order, file, late>>

Exit(m) ==
    /\ Command(m, "exit")
    /\ Off

ChangeAccount(c) ==
    /\ Command("account", c)
    /\ pc' = IF c = "addr" THEN "name" ELSE "num"
    /\ caller' = "account"
    /\ UNCHANGED <<form, pay, me, filled, order, file, late>>

Checkout ==
    /\ Command("cart", "checkout")
    /\ filled
    /\ order' = NoOrder
    /\ caller' = "order"
    /\ pc' = orderaddr(me, order')
    /\ UNCHANGED <<form, pay, me, filled, file, late>>

-----------------------------------------------------------------------------
(* The address form, the same in the checkout and in the account menu.     *)

\* Mutant of NextPrompt: the country is forgotten.
NextPromptNoCountry ==
    [name |-> "name2", name2 |-> "street", street |-> "street2",
     street2 |-> "city", city |-> "state", state |-> "zip", zip |-> "addr_ok",
     country |-> "addr_ok"]

NextPrompt ==
    [name |-> "name2", name2 |-> "street", street |-> "street2",
     street2 |-> "city", city |-> "state", state |-> "zip", zip |-> "country",
     country |-> "addr_ok"]

\* The field that is complete after a prompt.  The optional second line of a
\* name or a street is appended to the first.
FieldAfter ==
    [name2 |-> "name", street2 |-> "street", city |-> "city", state |-> "state",
     zip |-> "zip", country |-> "country"]

LeaveAddressForm ==
    /\ pc' = IF caller = "order" THEN orderaddr(me, order) ELSE "account"
    /\ form' = NoAddress
    /\ UNCHANGED <<caller, pay, me, filled, order, file, late>>

NextField(l) ==
    /\ form' = IF pc \in DOMAIN FieldAfter THEN change(form, FieldAfter[pc], l) ELSE form
    /\ pc' = NextPrompt[pc]
    /\ UNCHANGED <<caller, pay, me, filled, order, file, late>>

TextField ==
    /\ pc \in AddressPrompts \ {"zip"}
    /\ \E l \in NewLines(TypedText) :
        /\ ReadNew
        /\ IF l = Blank /\ pc \notin {"name2", "street2"} THEN LeaveAddressForm
           ELSE NextField(l)

ZipField ==
    /\ pc = "zip"
    /\ \E l \in NewLines(TypedNumbers) :
        /\ ReadNew
        /\ IF ~ Converts(l) THEN LeaveAddressForm
           ELSE IF Fits(l) THEN NextField(l)
           ELSE Off

RefuseAddress ==
    /\ pc = "addr_ok"
    /\ No \in Answers
    /\ ReadCmd(No)
    /\ LeaveAddressForm

\* In the account menu the address is stored; in the checkout it becomes the
\* order's, and the program asks whether to keep it on file.
AcceptAddress ==
    /\ pc = "addr_ok"
    /\ \E l \in Answers \ {No} : ReadCmd(l)
    /\ \/ /\ caller = "order"
          /\ order' = [order EXCEPT !.addr = form]
          /\ pc' = "keep_addr"
          /\ UNCHANGED <<me, form, file>>
       \/ /\ caller = "account"
          /\ changeShippingAddress(me, form)
          /\ form' = NoAddress
          /\ pc' = "account"
          /\ UNCHANGED order
    /\ UNCHANGED <<caller, pay, filled, late>>

\* "Would you like to keep this address on file [Y/n]?" No line is read: what
\* is tested is the line before.  If the customer answers, the answer waits
\* for the next prompt.
Reply ==
    /\ ahead' \in {ahead} \cup
        IF eof THEN {} ELSE {Append(ahead, l) : l \in AnyLine \cup TypedNumbers \cup {Blank}}
    /\ UNCHANGED <<cmd, eof>>

KeepAddress ==
    /\ pc = "keep_addr"
    /\ Reply
    /\ IF cmd = No THEN UNCHANGED <<me, file>> ELSE changeShippingAddress(me, form)
    /\ form' = NoAddress
    /\ pc' = ordercc(me', order)
    /\ UNCHANGED <<caller, pay, filled, order, late>>

\* "Would you like to use this shipping address for this order [Y/n]?"
UseAddress ==
    /\ pc = "use_addr"
    /\ \E l \in Answers :
        /\ ReadCmd(l)
        /\ order' = IF l = No THEN order ELSE [order EXCEPT !.addr = me.addr]
    /\ pc' = AskAddress(me, order')
    /\ UNCHANGED <<formVars, me, filled, file, late>>

-----------------------------------------------------------------------------
(* The card form.                                                          *)

LeaveCardForm(order_label) ==
    /\ pc' = IF caller = "order" THEN order_label ELSE "account"
    /\ pay' = NoPay
    /\ UNCHANGED <<caller, form, me, filled, order, file, late>>

\* The card number.
CardNumber ==
    /\ pc = "num"
    /\ \E l \in NewLines(TypedNumbers) :
        /\ ReadNew
        /\ IF ~ Converts(l) THEN LeaveCardForm(ordercc(me, order))
           ELSE IF ~ Fits(l) THEN Off
           ELSE /\ pay' = [pay EXCEPT !.num = l]
                /\ pc' = "exp"
                /\ UNCHANGED <<caller, form, me, filled, order, file, late>>

\* Mutant of CardExpiry: a blank expiration date is accepted.
CardExpiryAny ==
    /\ pc = "exp"
    /\ \E l \in NewLines(TypedDates) :
        /\ ReadNew
        /\ pay' = [pay EXCEPT !.exp = l]
    /\ pc' = "cv2"
    /\ UNCHANGED <<caller, form, me, filled, order, file, late>>

CardExpiry ==
    /\ pc = "exp"
    /\ \E l \in NewLines(TypedDates) :
        /\ ReadNew
        /\ IF l = Blank THEN LeaveCardForm(ordercc(me, order))
           ELSE /\ pay' = [pay EXCEPT !.exp = l]
                /\ pc' = "cv2"
                /\ UNCHANGED <<caller, form, me, filled, order, file, late>>

\* cv2_s is read, and num_s converted again, which cannot fail now.
CardCv2 ==
    /\ pc = "cv2"
    /\ \E l \in NewLines(TypedNumbers) :
        /\ ReadNew
        /\ pay' = [pay EXCEPT !.cv2 = l]
    /\ pc' = "card_ok"
    /\ UNCHANGED <<caller, form, me, filled, order, file, late>>

\* The card shown after "You entered:".
EnteredCard == Card(stoul(pay.num), pay.exp, Cast(stoul(pay.num)))

\* Mutant of RefuseCard: the whole order starts again.
RefuseCardRestart ==
    /\ pc = "card_ok"
    /\ No \in Answers
    /\ ReadCmd(No)
    /\ pc' = IF caller = "order" THEN orderaddr(me, NoOrder) ELSE "account"
    /\ order' = NoOrder
    /\ pay' = NoPay
    /\ UNCHANGED <<caller, form, me, filled, file, late>>

\* Refusing the card goes back to the address of the order.
RefuseCard ==
    /\ pc = "card_ok"
    /\ No \in Answers
    /\ ReadCmd(No)
    /\ LeaveCardForm(orderaddr(me, order))

AcceptCard ==
    /\ pc = "card_ok"
    /\ \E l \in Answers \ {No} : ReadCmd(l)
    /\ \/ /\ caller = "order"
          /\ order' = [order EXCEPT !.card = EnteredCard]
          /\ pc' = "keep_card"
          /\ UNCHANGED <<me, pay, file>>
       \/ /\ caller = "account"
          /\ changeCreditCard(me, EnteredCard)
          /\ pay' = NoPay
          /\ pc' = "account"
          /\ UNCHANGED order
    /\ UNCHANGED <<caller, form, filled, late>>

KeepCard ==
    /\ pc = "keep_card"
    /\ Reply
    /\ IF cmd = No THEN UNCHANGED <<me, file>> ELSE changeCreditCard(me, EnteredCard)
    /\ pay' = NoPay
    /\ pc' = "confirm"
    /\ UNCHANGED <<caller, form, filled, order, late>>

\* "Would you like to use this payment method for this order [Y/n]?"
UseCard ==
    /\ pc = "use_card"
    /\ \E l \in Answers :
        /\ ReadCmd(l)
        /\ order' = IF l = No THEN order ELSE [order EXCEPT !.card = me.card]
    /\ pc' = AskCard(order')
    /\ UNCHANGED <<formVars, me, filled, file, late>>

-----------------------------------------------------------------------------
(* "Place order [Y/n]?"  Placing it empties the cart and stores the user.  *)

Decline ==
    /\ pc = "confirm"
    /\ No \in Answers
    /\ ReadCmd(No)
    /\ order' = NoOrder
    /\ pc' = "cart"
    /\ UNCHANGED <<formVars, me, filled, file, late>>

\* Mutant of PlaceOrder: goto orderaddr instead of goto mainbby.
PlaceOrderAgain ==
    /\ pc = "confirm"
    /\ \E l \in Answers \ {No} : ReadCmd(l)
    /\ filled' = FALSE
    /\ StoreUser(me)
    /\ order' = NoOrder
    /\ late' = IF eof' /\ late < 2 THEN late + 1 ELSE late
    /\ pc' = orderaddr(me, order')
    /\ UNCHANGED <<formVars, me>>

PlaceOrder ==
    /\ pc = "confirm"
    /\ \E l \in Answers \ {No} : ReadCmd(l)
    /\ filled' = FALSE
    /\ StoreUser(me)
    /\ order' = NoOrder
    /\ late' = IF eof' THEN late + 1 ELSE late
    /\ pc' = "shell"
    /\ UNCHANGED <<formVars, me>>

-----------------------------------------------------------------------------
Step ==
    \/ LoginCard \/ LoginFails
    \/ \E m \in Menus : OtherCommand(m) \/ Exit(m)
    \/ \E m \in {"cart", "account"} : OpenMenu(m) \/ Back(m)
    \/ \E c \in {"addr", "pay"} : ChangeAccount(c)
    \/ AddToCart \/ RemoveItem \/ Clear \/ Checkout
    \/ UseAddress \/ TextField \/ ZipField \/ RefuseAddress \/ AcceptAddress \/ KeepAddress
    \/ UseCard \/ CardNumber \/ CardExpiry \/ CardCv2 \/ RefuseCard \/ AcceptCard \/ KeepCard
    \/ Decline \/ PlaceOrder

Next == (\E u \in Users : Login(u)) \/ Step \/ Crash

Spec == Init /\ [][Next]_vars

\* At the end of the input no getline waits.
FairSpec == Spec /\ WF_vars(eof /\ Step)

-----------------------------------------------------------------------------
(* Properties.                                                             *)

\* An address is complete or not there at all, on disk, in memory and in the
\* order: no refusal, blank field, end of input or crash lets a part of one
\* through.  storeUser depends on it: from one part it would write six, and
\* an uninitialized postal code among them.
AddressWhole ==
    /\ \A u \in Users : file[u].addr.keys \in {{}, Fields}
    /\ me.addr.parts \in {{}, Fields}
    /\ order.addr.parts \in {{}, Fields}

\* Whatever was refused, retyped or skipped on the way, an order that can be
\* placed has an address and a card: storeTransaction writes both without
\* asking whether they are set.
OrderComplete ==
    pc = "confirm" => AddressSet(order.addr) /\ order.card.is_set

\* While the program waits at a prompt, the keys of the record on disk hold the
\* address and the card that the program has in memory, whichever form, answer
\* or login they came from, so that killing it there loses nothing entered.
\* This is what storeUser has written; the next getUser does not read cc_cv2.
FileMatchesMemory ==
    pc \notin {"off", "login"} =>
        LET d == file[me.name].card IN
        /\ loadAddress(file[me.name].addr) = me.addr
        /\ d.keys = me.card.is_set
        /\ d.keys => /\ d.cc_num = to_string(me.card.cc_num)
                     /\ d.cc_exp = me.card.cc_exp
                     /\ d.cc_cv2 = to_string(me.card.cc_cv2)

\* Whoever could log in at the beginning can log in again: no session leaves
\* a record that getUser cannot convert.
LoginWorks ==
    \A u \in Users : Loads(SampleFiles[u]) => Loads(file[u])

\* A script that ends early places one order at most.
OneOrderAfterEOF == late <= 1

\* Where the end of the input can leave the program.
Loops ==
    {{"off"}, Menus, {"account", "name"}, {"use_addr", "name"},
     {"account", "num"}, {"use_card", "num"}}

\* At the end of the input the program does not stop.  Unless it is killed it
\* leaves every form, and from then on repeats a menu or starts the address or
\* the card over and over, and changes nothing any more.
SettlesAfterEOF ==
    <>[]eof =>
        /\ \E loop \in Loops : <>[](pc \in loop)
        /\ <>[][UNCHANGED <<me, order, file, filled>>]_vars

stage ==
    IF pc \in Menus \cup {"off", "login"} \/ caller = "account" THEN "menu"
    ELSE IF pc = "confirm" THEN "confirm"
    ELSE IF pc # "keep_addr" /\ AddressSet(order.addr) THEN "ordercc"
    ELSE "orderaddr"

Abstract == INSTANCE OrderStages WITH
    Addresses <- [Users -> StoredAddress],
    Cards <- [Users -> StoredCard],
    addr <- [u \in Users |-> file[u].addr],
    card <- [u \in Users |-> file[u].card]

\* The dialogue settles the address and then the card, each once, however
\* often a form is started over, and stores what belongs to the one it
\* settles: this is how OnlineShop has the dialogue.
ImplementsStages == Abstract!Spec

-----------------------------------------------------------------------------
(* What the program says of itself and does not keep.                      *)

\* Who answers n to "Would you like to keep this address on file [Y/n]?", or
\* to the same question about the card, leaves the file alone.
KeptWithConsent ==
    [][ahead' = <<No>> /\ pc \in {"keep_addr", "keep_card"} => file' = file]_vars

\* Who answers n to "Would you like to use this shipping address for this
\* order [Y/n]?" is asked for another one.
RefusalHonoured == [][pc = "use_addr" /\ cmd' = No /\ pc' # "off" => pc' = "name"]_vars

=============================================================================
