-------------------------- MODULE DialogInputProofs --------------------------
(***************************************************************************)
(* Theorems about what the input does to the dialogue: lines that wait for *)
(* a later prompt, and the end of the input.                               *)
(***************************************************************************)
EXTENDS CheckoutDialogProofs

-----------------------------------------------------------------------------
(* The invariants.                                                         *)

\* Only an answer to one of the two questions that read no line waits to be
\* read, and the prompt that follows the question reads it: one at most waits,
\* and none where a form is filled in beyond the card number.
Waiting ==
    /\ Len(ahead) <= 1
    /\ ahead # <<>> => ~ eof /\ pc \in {"use_card", "num", "confirm", "off"}

\* What getUser will make of the expiration date, in the form and in memory.
DateLoads(l) == Converts(l) /\ Fits(l)

DatesLoad ==
    /\ pc \in {"cv2", "card_ok", "keep_card"} => DateLoads(pay.exp)
    /\ me.card.is_set => DateLoads(me.card.cc_exp)

\* After an order at the end of the input, cmd keeps the answer to "Place
\* order" for ever, and a menu may have it for a command.  It cannot both open
\* the cart and be the checkout there.
AfterLateOrder ==
    late # 0 => /\ late = 1 /\ eof
                /\ pc \in Menus \cup {"off"}
                /\ pc \in {"cart", "account"} => cmd = Text(pc)

-----------------------------------------------------------------------------
(* What a step reads.                                                      *)

\* Every step of a session reads a line, or leaves an answer for later, or
\* touches no input.
LEMMA InputEffect ==
    ASSUME Next
    PROVE  \/ \E u \in Users : Login(u)
           \/ UNCHANGED inputVars /\ (pc = "login" \/ pc' = "off")
           \/ Getline
           \/ KeepAddress \/ KeepCard
<1>1. CASE Crash \/ LoginFails \/ LoginCard
  BY <1>1 DEF Crash, LoginFails, LoginCard, Off
<1>2. CASE \/ \E m \in Menus : OtherCommand(m) \/ Exit(m)
           \/ \E m \in {"cart", "account"} : OpenMenu(m) \/ Back(m)
           \/ \E c \in {"addr", "pay"} : ChangeAccount(c)
  BY <1>2 DEF OtherCommand, Exit, OpenMenu, Back, ChangeAccount, Command, ReadCmd
<1>3. CASE AddToCart \/ RemoveItem \/ Clear \/ Checkout
  BY <1>3 DEF AddToCart, RemoveItem, Clear, Checkout, Command, ReadCmd
<1>4. CASE UseAddress \/ TextField \/ ZipField \/ RefuseAddress \/ AcceptAddress
  BY <1>4 DEF UseAddress, TextField, ZipField, RefuseAddress, AcceptAddress, ReadCmd, ReadNew
<1>5. CASE UseCard \/ CardNumber \/ CardExpiry \/ CardCv2 \/ RefuseCard \/ AcceptCard
  BY <1>5 DEF UseCard, CardNumber, CardExpiry, CardCv2, RefuseCard, AcceptCard, ReadCmd, ReadNew
<1>6. CASE Decline \/ PlaceOrder
  BY <1>6 DEF Decline, PlaceOrder, ReadCmd
<1>. QED BY <1>1, <1>2, <1>3, <1>4, <1>5, <1>6 DEF Next, Step

\* A getline reads the one line that waits.
LEMMA GetlineReads ==
    ASSUME TypeOK, Waiting, Getline
    PROVE  ahead' = <<>>
BY DEF TypeOK, Waiting, Getline

\* The steps that lead to the prompts after the card number.
LEMMA CardPrompts ==
    ASSUME IInv, Next, pc' \in {"exp", "cv2", "card_ok", "keep_card"}
    PROVE  CardNumber \/ CardExpiry \/ CardCv2 \/ AcceptCard
<1>1. ~ Crash /\ ~ LoginFails /\ ~ LoginCard /\ \A u \in Users : ~ Login(u)
  BY DEF Crash, LoginFails, LoginCard, Login, Off
<1>2. \A m \in Menus : ~ OtherCommand(m) /\ ~ Exit(m)
  BY DEF OtherCommand, Exit, Off, Menus
<1>3. /\ \A m \in {"cart", "account"} : ~ OpenMenu(m) /\ ~ Back(m)
      /\ \A c \in {"addr", "pay"} : ~ ChangeAccount(c)
  BY DEF OpenMenu, Back, ChangeAccount
<1>4. ~ AddToCart /\ ~ RemoveItem /\ ~ Clear
  BY DEF AddToCart, RemoveItem, Clear, Command
<1>5. ~ Checkout /\ ~ UseAddress /\ ~ UseCard /\ ~ KeepAddress
  BY LabelFacts DEF Checkout, UseAddress, UseCard, KeepAddress
<1>6. ~ LeaveAddressForm
  BY LabelFacts DEF LeaveAddressForm
<1>7. ~ Off /\ (pc \in AddressPrompts => \A l : ~ NextField(l))
  BY DEF Off, NextField, NextPrompt, AddressPrompts
<1>8. ~ TextField /\ ~ ZipField /\ ~ RefuseAddress
  BY <1>6, <1>7 DEF TextField, ZipField, RefuseAddress, AddressPrompts
<1>9. ~ AcceptAddress /\ ~ KeepCard /\ ~ Decline /\ ~ PlaceOrder
  BY DEF AcceptAddress, KeepCard, Decline, PlaceOrder
<1>10. ~ RefuseCard
  BY LabelFacts DEF RefuseCard, LeaveCardForm
<1>. QED BY <1>1, <1>2, <1>3, <1>4, <1>5, <1>8, <1>9, <1>10 DEF Next, Step

\* What a step does to the user in memory.
LEMMA UserEffect ==
    ASSUME IInv, Next
    PROVE  \/ me' = Nobody
           \/ \E u \in Users : Login(u)
           \/ LoginCard
           \/ UNCHANGED me
           \/ StoresAddress
           \/ (AcceptCard \/ KeepCard) /\ me' = [me EXCEPT !.card = EnteredCard]
<1>1. CASE AcceptCard \/ KeepCard
  BY <1>1 DEF AcceptCard, KeepCard, changeCreditCard
<1>2. CASE Crash \/ LoginFails \/ \E m \in Menus : Exit(m)
  BY <1>2 DEF Crash, LoginFails, Exit, Off
<1>3. CASE AcceptAddress \/ KeepAddress
  <2>1. form.parts = Fields
    BY <1>3 DEF AcceptAddress, KeepAddress, IInv, FormParts, PartsAt
  <2>. QED BY <1>3, <2>1 DEF AcceptAddress, KeepAddress, changeShippingAddress, StoresAddress
<1>4. CASE \/ \E m \in Menus : OtherCommand(m)
           \/ \E m \in {"cart", "account"} : OpenMenu(m) \/ Back(m)
           \/ \E c \in {"addr", "pay"} : ChangeAccount(c)
           \/ AddToCart \/ RemoveItem \/ Clear \/ Checkout
  BY <1>4 DEF OtherCommand, OpenMenu, Back, ChangeAccount, AddToCart, RemoveItem, Clear, Checkout
<1>5. CASE TextField \/ ZipField \/ RefuseAddress
  BY <1>5 DEF TextField, ZipField, RefuseAddress, LeaveAddressForm, NextField, Off
<1>6. CASE CardNumber \/ CardExpiry \/ CardCv2 \/ RefuseCard
  BY <1>6 DEF CardNumber, CardExpiry, CardCv2, RefuseCard, LeaveCardForm, Off
<1>7. CASE UseAddress \/ UseCard \/ Decline \/ PlaceOrder
  BY <1>7 DEF UseAddress, UseCard, Decline, PlaceOrder
<1>. QED BY <1>1, <1>2, <1>3, <1>4, <1>5, <1>6, <1>7 DEF Next, Step

LEMMA NextWaiting == IInv /\ Waiting /\ [Next]_vars => Waiting'
<1>. SUFFICES ASSUME IInv, Waiting, Next PROVE Waiting'
  BY DEF Waiting, vars, inputVars
<1>0. TypeOK
  BY DEF IInv
<1>1. ASSUME NEW u \in Users, Login(u) PROVE Waiting'
  BY <1>1 DEF Login, Waiting
<1>2. CASE UNCHANGED inputVars /\ (pc = "login" \/ pc' = "off")
  BY <1>2 DEF inputVars, Waiting
<1>3. CASE Getline
  BY <1>0, <1>3, GetlineReads DEF Waiting
<1>4. CASE KeepAddress \/ KeepCard
  <2>1. ahead = <<>> /\ Reply
    BY <1>4 DEF Waiting, KeepAddress, KeepCard
  <2>2. ahead' = <<>> \/ (~ eof' /\ \E l : ahead' = <<l>>)
    BY <2>1 DEF Reply
  <2>3. pc' \in {"use_card", "num", "confirm"}
    BY <1>4 DEF KeepAddress, KeepCard, ordercc, AskCard
  <2>4. Len(ahead') <= 1
    BY <2>2
  <2>. QED BY <2>2, <2>3, <2>4 DEF Waiting
<1>. QED BY <1>1, <1>2, <1>3, <1>4, InputEffect

-----------------------------------------------------------------------------
(* Expiration dates.                                                       *)

\* A line read at the prompt for the expiration date has been typed there.
LEMMA NextDatesLoad ==
    ASSUME \A l \in TypedDates : DateLoads(l)
    PROVE  IInv /\ Waiting /\ DatesLoad /\ [Next]_vars => DatesLoad'
<1>. SUFFICES ASSUME IInv, Waiting, DatesLoad, Next PROVE DatesLoad'
  BY DEF DatesLoad, vars, formVars
<1>1. ASSUME pc' \in {"cv2", "card_ok", "keep_card"} PROVE DateLoads(pay'.exp)
  <2>1. pay \in [num : Line, exp : Line, cv2 : Line]
    BY DEF IInv, TypeOK
  <2>2. CASE CardNumber
    BY <1>1, <2>2, LabelFacts DEF CardNumber, LeaveCardForm, Off
  <2>3. CASE CardExpiry
    <3>1. PICK l \in NewLines(TypedDates) : l # Blank /\ pay' = [pay EXCEPT !.exp = l]
      BY <1>1, <2>3, LabelFacts DEF CardExpiry, LeaveCardForm
    <3>2. ahead = <<>>
      BY <2>3 DEF CardExpiry, Waiting
    <3>3. l \in TypedDates
      BY <3>1, <3>2 DEF NewLines, Lines
    <3>. QED BY <2>1, <3>1, <3>3
  <2>4. CASE CardCv2
    <3>1. PICK l : pay' = [pay EXCEPT !.cv2 = l]
      BY <2>4 DEF CardCv2
    <3>2. pay'.exp = pay.exp /\ pc = "cv2"
      BY <2>1, <2>4, <3>1 DEF CardCv2
    <3>. QED BY <3>2 DEF DatesLoad
  <2>5. CASE AcceptCard
    <3>1. pay' = pay /\ pc = "card_ok"
      BY <1>1, <2>5 DEF AcceptCard
    <3>. QED BY <3>1 DEF DatesLoad
  <2>. QED BY <1>1, <2>2, <2>3, <2>4, <2>5, CardPrompts
<1>2. ASSUME me'.card.is_set PROVE DateLoads(me'.card.cc_exp)
  <2>0. me \in [name : Users, addr : ShippingAddress, card : PaymentInfo]
    BY DEF IInv, TypeOK
  <2>1. CASE me' = Nobody
    BY <1>2, <2>1 DEF Nobody, NoCard
  <2>2. ASSUME NEW u \in Users, Login(u) PROVE FALSE
    <3>1. me' = [name |-> u, addr |-> loadAddress(file[u].addr), card |-> NoCard]
      BY <2>2 DEF Login, changeShippingAddress, Nobody
    <3>. QED BY <1>2, <3>1 DEF NoCard
  <2>3. CASE LoginCard
    <3>1. CASE file[me.name].card.keys
      <4>1. /\ me' = [me EXCEPT !.card = loadCard(file[me.name].card)]
            /\ LoadsCard(file[me.name].card)
        BY <2>3, <3>1 DEF LoginCard, changeCreditCard
      <4>2. me'.card.cc_exp = file[me.name].card.cc_exp
        BY <2>0, <3>1, <4>1 DEF loadCard, Card
      <4>. QED BY <3>1, <4>1, <4>2 DEF LoadsCard, DateLoads
    <3>2. CASE ~ file[me.name].card.keys
      BY <1>2, <2>3, <3>2 DEF LoginCard, DatesLoad
    <3>. QED BY <3>1, <3>2
  <2>4. CASE UNCHANGED me
    BY <1>2, <2>4 DEF DatesLoad
  <2>5. CASE StoresAddress
    BY <1>2, <2>0, <2>5 DEF StoresAddress, DatesLoad
  <2>6. CASE (AcceptCard \/ KeepCard) /\ me' = [me EXCEPT !.card = EnteredCard]
    <3>1. me'.card = EnteredCard /\ pc \in {"card_ok", "keep_card"}
      BY <2>0, <2>6 DEF AcceptCard, KeepCard
    <3>. QED BY <3>1 DEF DatesLoad, EnteredCard, Card
  <2>. QED BY <2>1, <2>2, <2>3, <2>4, <2>5, <2>6, UserEffect
<1>. QED BY <1>1, <1>2 DEF DatesLoad

\* storeUser writes a record that getUser can convert, if the expiration date
\* can be converted.
LEMMA StoreLoads ==
    ASSUME TypeOK, StoreUser(me'),
           me' \in [name : Users, addr : ShippingAddress, card : PaymentInfo],
           me'.card.is_set => DateLoads(me'.card.cc_exp),
           NEW u \in Users, Loads(file[u])
    PROVE  Loads(file'[u])
<1>1. file \in [Users -> UserFile] /\ me'.name \in Users
  BY DEF TypeOK
<1>2. PICK a \in storeAddress(file[me'.name].addr, me'.addr) :
        file' = [file EXCEPT ![me'.name] =
                    [addr |-> a, card |-> storeCard(file[me'.name].card, me'.card)]]
  BY DEF StoreUser
<1>3. CASE u # me'.name
  BY <1>1, <1>2, <1>3
<1>4. CASE u = me'.name
  <2>1. file'[u].addr = a /\ file'[u].card = storeCard(file[u].card, me'.card)
    BY <1>1, <1>2, <1>4
  <2>2. LoadsAddress(file'[u].addr)
    <3>1. CASE me'.addr.parts = {}
      BY <1>2, <1>4, <2>1, <3>1 DEF storeAddress, Loads
    <3>2. CASE me'.addr.parts # {}
      <4>1. PICK z \in UInt : a = [keys |-> Fields, zip |-> Number(z)]
        BY <1>2, <3>2 DEF storeAddress, to_string, ShippingAddress
      <4>2. Converts(Number(z)) /\ Fits(Number(z))
        BY WidthAssumption DEF Converts, Fits, Number, UInt
      <4>. QED BY <2>1, <4>1, <4>2 DEF LoadsAddress
    <3>. QED BY <3>1, <3>2
  <2>3. LoadsCard(file'[u].card)
    <3>1. CASE ~ me'.card.is_set
      BY <2>1, <3>1 DEF storeCard, Loads
    <3>2. CASE me'.card.is_set
      <4>1. file'[u].card = [keys |-> TRUE, cc_num |-> Number(me'.card.cc_num),
                             cc_exp |-> me'.card.cc_exp, cc_cv2 |-> Number(me'.card.cc_cv2)]
        BY <2>1, <3>2 DEF storeCard, to_string
      <4>2. Converts(Number(me'.card.cc_num)) /\ Fits(Number(me'.card.cc_num))
        BY WidthAssumption DEF Converts, Fits, Number, ULong, PaymentInfo
      <4>. QED BY <3>2, <4>1, <4>2 DEF LoadsCard, DateLoads
    <3>. QED BY <3>1, <3>2
  <2>. QED BY <2>2, <2>3 DEF Loads
<1>. QED BY <1>3, <1>4

LEMMA NextLoginWorks ==
    ASSUME IInv, IInv', DatesLoad', LoginWorks, [Next]_vars
    PROVE  LoginWorks'
<1>1. UNCHANGED file \/ StoreUser(me')
  <2>1. CASE Next
    <3>1. ASSUME NEW u \in Users, Login(u) PROVE StoreUser(me')
      BY <3>1 DEF Login, changeShippingAddress
    <3>2. CASE LoginCard
      BY <3>2 DEF LoginCard, changeCreditCard
    <3>. QED BY <2>1, <3>1, <3>2, Effects
             DEF LeavesUser, StoresUser, StoresAddress, StoresCard
  <2>2. CASE UNCHANGED vars
    BY <2>2 DEF vars
  <2>. QED BY <2>1, <2>2
<1>2. CASE UNCHANGED file
  BY <1>2 DEF LoginWorks
<1>3. CASE StoreUser(me')
  <2>1. /\ TypeOK /\ me' \in [name : Users, addr : ShippingAddress, card : PaymentInfo]
        /\ me'.card.is_set => DateLoads(me'.card.cc_exp)
    BY DEF IInv, TypeOK, DatesLoad
  <2>. QED BY <1>3, <2>1, StoreLoads DEF LoginWorks
<1>. QED BY <1>1, <1>2, <1>3

-----------------------------------------------------------------------------
(* The end of the input.                                                   *)

\* An order is counted when it is placed, and the count begins with a login.
LEMMA LateEffect ==
    ASSUME Next, late' # late
    PROVE  PlaceOrder \/ \E u \in Users : Login(u)
<1>1. ~ Crash /\ ~ LoginFails /\ ~ LoginCard /\ \A m \in Menus : ~ OtherCommand(m) /\ ~ Exit(m)
  BY DEF Crash, LoginFails, LoginCard, OtherCommand, Exit, Off
<1>2. /\ \A m \in {"cart", "account"} : ~ OpenMenu(m) /\ ~ Back(m)
      /\ \A c \in {"addr", "pay"} : ~ ChangeAccount(c)
      /\ ~ AddToCart /\ ~ RemoveItem /\ ~ Clear /\ ~ Checkout
  BY DEF OpenMenu, Back, ChangeAccount, AddToCart, RemoveItem, Clear, Checkout
<1>3. ~ UseAddress /\ ~ TextField /\ ~ ZipField /\ ~ RefuseAddress /\ ~ AcceptAddress
      /\ ~ KeepAddress
  BY DEF UseAddress, TextField, ZipField, RefuseAddress, AcceptAddress, KeepAddress,
         LeaveAddressForm, NextField, Off
<1>4. ~ UseCard /\ ~ CardNumber /\ ~ CardExpiry /\ ~ CardCv2 /\ ~ RefuseCard /\ ~ AcceptCard
      /\ ~ KeepCard /\ ~ Decline
  BY DEF UseCard, CardNumber, CardExpiry, CardCv2, RefuseCard, AcceptCard, KeepCard, Decline,
         LeaveCardForm, Off
<1>. QED BY <1>1, <1>2, <1>3, <1>4 DEF Next, Step

\* In a menu, at the end of the input, cmd stays as it is, and the prompt changes
\* only by a command of this menu.
LEMMA MenuAtEOF ==
    ASSUME Waiting, eof, pc \in Menus, pc \in {"cart", "account"} => cmd = Text(pc), Next
    PROVE  /\ eof'
           /\ pc' \in Menus \cup {"off"}
           /\ pc' \in {"cart", "account"} => cmd' = Text(pc')
<1>1. \A typed : CmdLines(typed) = {cmd}
  BY DEF Waiting, CmdLines, Lines
<1>2. ASSUME NEW m \in Menus, NEW c, Command(m, c)
      PROVE  eof' /\ cmd' = Text(c) /\ pc = m /\ m = "shell" /\ c \in MenuCommands["shell"]
  <2>1. pc = m /\ c \in MenuCommands[m] /\ Text(c) = cmd /\ cmd' = Text(c) /\ eof'
    BY <1>1, <1>2 DEF Command, ReadCmd, Getline
  <2>2. m = "shell"
    <3>. SUFFICES ASSUME m \in {"cart", "account"} PROVE FALSE
      BY DEF Menus
    <3>1. c = m
      BY <2>1 DEF Text
    <3>. QED BY <2>1, <3>1 DEF MenuCommands
  <2>. QED BY <2>1, <2>2
<1>3. CASE Crash \/ \E m \in Menus : Exit(m)
  BY <1>2, <1>3 DEF Crash, Exit, Off, inputVars
<1>4. ASSUME NEW m \in Menus, OtherCommand(m) PROVE eof' /\ cmd' = cmd /\ pc' = pc
  BY <1>1, <1>4 DEF OtherCommand, ReadCmd, Getline
<1>5. ASSUME NEW m \in {"cart", "account"}, OpenMenu(m) PROVE eof' /\ cmd' = Text(m) /\ pc' = m
  BY <1>2, <1>5 DEF OpenMenu, Menus
<1>6. CASE AddToCart
  BY <1>2, <1>6 DEF AddToCart, Menus
<1>7. /\ \A m \in {"cart", "account"} : ~ Back(m)
      /\ \A c \in {"addr", "pay"} : ~ ChangeAccount(c)
      /\ ~ RemoveItem /\ ~ Clear /\ ~ Checkout
  BY <1>2 DEF Back, ChangeAccount, RemoveItem, Clear, Checkout, Menus
<1>8. ~ LoginFails /\ ~ LoginCard /\ \A u \in Users : ~ Login(u)
  BY DEF LoginFails, LoginCard, Login, Menus
<1>9. ~ UseAddress /\ ~ TextField /\ ~ ZipField /\ ~ RefuseAddress /\ ~ AcceptAddress
      /\ ~ KeepAddress
  BY DEF UseAddress, TextField, ZipField, RefuseAddress, AcceptAddress, KeepAddress,
         AddressPrompts, Menus
<1>10. ~ UseCard /\ ~ CardNumber /\ ~ CardExpiry /\ ~ CardCv2 /\ ~ RefuseCard /\ ~ AcceptCard
       /\ ~ KeepCard /\ ~ Decline /\ ~ PlaceOrder
  BY DEF UseCard, CardNumber, CardExpiry, CardCv2, RefuseCard, AcceptCard, KeepCard, Decline,
         PlaceOrder, Menus
<1>. QED BY <1>3, <1>4, <1>5, <1>6, <1>7, <1>8, <1>9, <1>10 DEF Next, Step, Menus

\* With the program off.
LEMMA StuckOff ==
    ASSUME pc = "off", Next
    PROVE  (\E u \in Users : Login(u)) \/ LoginFails
<1>1. ~ Crash /\ ~ LoginCard
  BY DEF Crash, LoginCard
<1>2. /\ \A m \in Menus : ~ OtherCommand(m) /\ ~ Exit(m)
      /\ \A m \in {"cart", "account"} : ~ OpenMenu(m) /\ ~ Back(m)
      /\ \A c \in {"addr", "pay"} : ~ ChangeAccount(c)
      /\ ~ AddToCart /\ ~ RemoveItem /\ ~ Clear /\ ~ Checkout
  BY DEF OtherCommand, Exit, OpenMenu, Back, ChangeAccount, AddToCart, RemoveItem, Clear,
         Checkout, Command, Menus
<1>3. ~ UseAddress /\ ~ TextField /\ ~ ZipField /\ ~ RefuseAddress /\ ~ AcceptAddress
      /\ ~ KeepAddress
  BY DEF UseAddress, TextField, ZipField, RefuseAddress, AcceptAddress, KeepAddress,
         AddressPrompts
<1>4. ~ UseCard /\ ~ CardNumber /\ ~ CardExpiry /\ ~ CardCv2 /\ ~ RefuseCard /\ ~ AcceptCard
      /\ ~ KeepCard /\ ~ Decline /\ ~ PlaceOrder
  BY DEF UseCard, CardNumber, CardExpiry, CardCv2, RefuseCard, AcceptCard, KeepCard, Decline,
         PlaceOrder
<1>. QED BY <1>1, <1>2, <1>3, <1>4 DEF Next, Step

\* An order at the end of the input is the last one.
LEMMA NextAfterLateOrder ==
    IInv /\ Waiting /\ AfterLateOrder /\ [Next]_vars => AfterLateOrder'
<1>. SUFFICES ASSUME IInv, Waiting, AfterLateOrder, Next, late' # 0
              PROVE  AfterLateOrder'
  BY DEF AfterLateOrder, vars, inputVars
<1>1. \A u \in Users : ~ Login(u)
  BY DEF Login
<1>2. CASE late = 0
  <2>1. PlaceOrder
    BY <1>1, <1>2, LateEffect
  <2>2. late' = 1 /\ eof' /\ pc' = "shell"
    BY <1>2, <2>1 DEF PlaceOrder
  <2>. QED BY <2>2 DEF AfterLateOrder, Menus
<1>3. CASE late # 0 /\ pc \in Menus
  <2>1. late = 1 /\ eof /\ (pc # "shell" => cmd = Text(pc))
    BY <1>3 DEF AfterLateOrder, Menus
  <2>2. late' = late
    BY <1>1, <1>3, LateEffect DEF PlaceOrder, Menus
  <2>. QED BY <1>3, <2>1, <2>2, MenuAtEOF DEF AfterLateOrder, Menus
<1>4. CASE late # 0 /\ pc = "off"
  <2>1. LoginFails
    BY <1>1, <1>4, StuckOff
  <2>. QED BY <1>4, <2>1 DEF LoginFails, Off, inputVars, AfterLateOrder
<1>. QED BY <1>2, <1>3, <1>4 DEF AfterLateOrder

-----------------------------------------------------------------------------
(* Theorems.                                                               *)

LEMMA InitInput == Init => Waiting /\ DatesLoad /\ LoginWorks /\ AfterLateOrder
<1>. SUFFICES ASSUME Init
              PROVE  Waiting /\ DatesLoad /\ LoginWorks /\ AfterLateOrder
  OBVIOUS
<1>1. Waiting
  BY DEF Init, Waiting
<1>2. DatesLoad
  BY DEF Init, DatesLoad, Nobody, NoCard
<1>. QED BY <1>1, <1>2 DEF Init, LoginWorks, AfterLateOrder

LEMMA WaitingInvariant == Spec => []Waiting
BY Invariant, InitInput, NextWaiting, PTL DEF Spec

\* Whoever could log in at the beginning can log in again, if what is typed
\* for expiration dates begins with digits that fit an unsigned long: getUser
\* converts cc_exp with stoul, twice, and main checks no more of a date than
\* that it is not blank.  The lines typed at other prompts and the answers
\* that wait in the input do not matter.
THEOREM LoginKeepsWorking ==
    ASSUME \A l \in TypedDates : Converts(l) /\ Fits(l)
    PROVE  Spec => []LoginWorks
<1>1. \A l \in TypedDates : DateLoads(l)
  BY DEF DateLoads
<1>2. IInv /\ Waiting /\ DatesLoad /\ [Next]_vars => DatesLoad'
  BY <1>1, NextDatesLoad
<1>3. Spec => []DatesLoad
  BY <1>2, Invariant, WaitingInvariant, InitInput, PTL DEF Spec
<1>4. IInv /\ IInv' /\ DatesLoad' /\ LoginWorks /\ [Next]_vars => LoginWorks'
  BY NextLoginWorks
<1>. QED BY <1>3, <1>4, Invariant, InitInput, PTL DEF Spec

\* After the end of its input the program places one order at most, although
\* every getline after it leaves the last answer in cmd, "Place order" takes all
\* but an n for a yes, and the menus then have that answer for a command: if it
\* is "cart" the cart is opened, and "cart" is no command there; if it is
\* "addtocart" the cart fills again, and the shell is never left.
THEOREM OneLateOrder == Spec => []OneOrderAfterEOF
<1>1. Spec => []AfterLateOrder
  BY Invariant, WaitingInvariant, InitInput, NextAfterLateOrder, PTL DEF Spec
<1>2. AfterLateOrder => OneOrderAfterEOF
  BY DEF AfterLateOrder, OneOrderAfterEOF
<1>. QED BY <1>1, <1>2, PTL

=============================================================================
