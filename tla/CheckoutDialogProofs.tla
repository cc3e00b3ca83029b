------------------------ MODULE CheckoutDialogProofs ------------------------
(***************************************************************************)
(* Theorems about CheckoutDialog, for any users, records and lines typed.  *)
(***************************************************************************)
EXTENDS CheckoutDialog, TLAPS

-----------------------------------------------------------------------------
(* The inductive invariant.                                                *)

\* The parts of the form that are set at a prompt.  Outside of the form none
\* is: every way out of it resets it.
PartsAt(l) ==
    CASE l \in {"street", "street2"}      -> {"name"}
      [] l = "city"                       -> {"name", "street"}
      [] l = "state"                      -> {"name", "street", "city"}
      [] l = "zip"                        -> {"name", "street", "city", "state"}
      [] l = "country"                    -> Fields \ {"country"}
      [] l \in {"addr_ok", "keep_addr"}   -> Fields
      [] OTHER                            -> {}

FormParts == form.parts = PartsAt(pc)

\* A card number that was accepted has been converted.
NumberFits == Fits(pay.num)

\* What an order has at the prompts before and after its address, and before
\* and after its card.
OrderSoFar ==
    /\ pc \in {"use_addr", "keep_addr", "use_card", "keep_card", "confirm"}
            => caller = "order"
    /\ \/ pc \in {"keep_addr", "use_card", "keep_card", "confirm"}
       \/ pc \in {"num", "exp", "cv2", "card_ok"} /\ caller = "order"
       => AddressSet(order.addr)
    /\ pc \in AddressPrompts \cup {"addr_ok"} /\ caller = "order"
            => ~ AddressSet(order.addr)
    /\ pc \in {"keep_card", "confirm"} <=> order.card.is_set
    /\ pc = "use_addr" => AddressSet(me.addr)

IInv == TypeOK /\ AddressWhole /\ FormParts /\ NumberFits /\ OrderSoFar

-----------------------------------------------------------------------------
(* Types of what the actions are built from.                               *)

\* The cast of main.cpp:421 yields an unsigned int.
LEMMA CastType ==
    ASSUME NEW n \in Nat
    PROVE  Cast(n) \in UInt
<1>1. UIntMax \in Nat /\ UIntMax + 1 > 0
  BY WidthAssumption
<1>2. n % (UIntMax + 1) \in 0 .. UIntMax
  BY <1>1
<1>. QED BY <1>2 DEF Cast, UInt

\* The lines the model types are lines.
LEMMA LineType ==
    /\ Blank \in Line /\ No \in Line /\ Word \in Line
    /\ \A c \in Commands : Text(c) \in Line
    /\ \A n \in Nat : Number(n) \in Line
BY DEF Blank, No, Word, Text, Number, Line

LEMMA NoAddressType == NoAddress \in ShippingAddress /\ NoAddress.parts = {}
BY WidthAssumption DEF NoAddress, ShippingAddress, UInt

LEMMA NoCardType == NoCard \in PaymentInfo
BY WidthAssumption, LineType DEF NoCard, PaymentInfo, UInt, ULong

\* changeShippingName to changeCountry: the part is set in addition.
LEMMA ChangeType ==
    ASSUME NEW a \in ShippingAddress, NEW f \in Fields, NEW l \in Line
    PROVE  /\ change(a, f, l) \in ShippingAddress
           /\ change(a, f, l).parts = a.parts \cup {f}
<1>1. l.value \in Nat
  BY DEF Line
<1>2. Cast(stoul(l)) \in UInt
  BY <1>1, CastType DEF stoul
<1>. QED BY <1>2 DEF change, ShippingAddress

\* What getUser makes of a record that it can convert.
LEMMA LoadAddressType ==
    ASSUME NEW d \in StoredAddress
    PROVE  loadAddress(d) \in ShippingAddress /\ loadAddress(d).parts = d.keys
<1>1. d.zip.value \in Nat
  BY DEF StoredAddress, Line
<1>2. Cast(stoul(d.zip)) \in UInt /\ 0 \in UInt
  BY <1>1, CastType, WidthAssumption DEF stoul, UInt
<1>. QED BY <1>2 DEF loadAddress, ShippingAddress, StoredAddress

LEMMA LoadCardType ==
    ASSUME NEW d \in StoredCard, LoadsCard(d), d.keys
    PROVE  loadCard(d) \in PaymentInfo
<1>1. d.cc_num.value \in Nat /\ d.cc_exp.value \in Nat /\ d.cc_exp \in Line
  BY DEF StoredCard, Line
<1>2. stoul(d.cc_num) \in ULong
  BY <1>1, WidthAssumption DEF LoadsCard, Fits, stoul, ULong
<1>3. Cast(stoul(d.cc_exp)) \in UInt
  BY <1>1, CastType DEF stoul
<1>. QED BY <1>1, <1>2, <1>3 DEF loadCard, Card, PaymentInfo

\* storeUser keeps the type of the record, and writes no part of an address
\* if it is given none.
LEMMA StoreType ==
    ASSUME TypeOK,
           NEW m \in [name : Users, addr : ShippingAddress, card : PaymentInfo],
           StoreUser(m)
    PROVE  /\ file' \in [Users -> UserFile]
           /\ (\A u \in Users : file[u].addr.keys \in {{}, Fields})
                => \A u \in Users : file'[u].addr.keys \in {{}, Fields}
<1>1. file[m.name] \in UserFile /\ file \in [Users -> UserFile] /\ m.name \in Users
  BY DEF TypeOK
<1>2. PICK a \in storeAddress(file[m.name].addr, m.addr) :
        file' = [file EXCEPT ![m.name] = [addr |-> a, card |-> storeCard(@.card, m.card)]]
  BY DEF StoreUser
<1>3. m.addr.zip \in Nat /\ UInt \subseteq Nat /\ ULong \subseteq Nat
  BY WidthAssumption DEF ShippingAddress, UInt, ULong
<1>4. a \in StoredAddress /\ (a = file[m.name].addr \/ a.keys = Fields)
  <2>1. CASE m.addr.parts = {}
    BY <1>1, <2>1 DEF storeAddress, UserFile
  <2>2. CASE m.addr.parts # {}
    <3>1. PICK z \in UInt : a = [keys |-> Fields, zip |-> Number(z)]
      BY <1>3, <2>2 DEF storeAddress, to_string, ShippingAddress
    <3>2. Number(z) \in Line
      BY <1>3, LineType
    <3>. QED BY <3>1, <3>2 DEF StoredAddress
  <2>. QED BY <2>1, <2>2
<1>5. storeCard(file[m.name].card, m.card) \in StoredCard
  <2>1. /\ m.card.cc_num \in Nat /\ m.card.cc_cv2 \in Nat /\ m.card.cc_exp \in Line
    BY <1>3 DEF PaymentInfo
  <2>. QED BY <1>1, <2>1, LineType DEF storeCard, StoredCard, UserFile, to_string
<1>. QED BY <1>1, <1>2, <1>4, <1>5 DEF UserFile

\* getline.
LEMMA GetlineType ==
    ASSUME TypeOK, Getline
    PROVE  eof' \in BOOLEAN /\ ahead' \in Seq(Line)
BY DEF TypeOK, Getline

LEMMA LinesType ==
    ASSUME TypeOK, NEW old \in Line, NEW typed \in SUBSET Line
    PROVE  Lines(old, typed) \subseteq Line
BY LineType DEF TypeOK, Lines

LEMMA AnyLineType == AnyLine \subseteq Line
BY LineType DEF AnyLine

LEMMA AnswersType ==
    ASSUME TypeOK
    PROVE  Answers \subseteq Line
BY LinesType, AnyLineType DEF TypeOK, Answers, CmdLines

-----------------------------------------------------------------------------
(* The actions keep the invariant.                                         *)

LEMMA InitIInv == Init => IInv
<1>. SUFFICES ASSUME Init PROVE IInv
  OBVIOUS
<1>1. AnyUser \in Users
  BY DialogAssumption DEF AnyUser
<1>7. <<>> \in Seq(Line) /\ SampleFiles \in [Users -> UserFile]
  BY DialogAssumption
<1>2. TypeOK
  BY <1>1, <1>7, NoAddressType, NoCardType, LineType
     DEF Init, TypeOK, Nobody, NoOrder, NoPay, Labels
<1>3. AddressWhole
  BY DialogAssumption, NoAddressType DEF Init, AddressWhole, Nobody, NoOrder
<1>4. FormParts
  BY NoAddressType DEF Init, FormParts, PartsAt
<1>5. NumberFits
  BY WidthAssumption DEF Init, NumberFits, NoPay, Fits, Blank, Text
<1>6. OrderSoFar
  BY DEF Init, OrderSoFar, NoOrder, NoCard, AddressPrompts
<1>. QED BY <1>2, <1>3, <1>4, <1>5, <1>6 DEF IInv

\* The end of a process.
LEMMA OffIInv ==
    ASSUME IInv, Off, eof' \in BOOLEAN, ahead' \in Seq(Line), cmd' \in Line
    PROVE  IInv'
<1>1. AnyUser \in Users
  BY DialogAssumption DEF AnyUser
<1>2. TypeOK'
  BY <1>1, NoAddressType, NoCardType, LineType
     DEF IInv, Off, TypeOK, Nobody, NoOrder, NoPay, Labels
<1>3. AddressWhole'
  BY NoAddressType DEF IInv, Off, AddressWhole, Nobody, NoOrder
<1>4. FormParts'
  BY NoAddressType DEF Off, FormParts, PartsAt
<1>5. NumberFits'
  BY WidthAssumption DEF Off, NumberFits, NoPay, Fits, Blank, Text
<1>6. OrderSoFar'
  BY DEF Off, OrderSoFar, NoOrder, NoCard, AddressPrompts
<1>. QED BY <1>2, <1>3, <1>4, <1>5, <1>6 DEF IInv

\* Where the labels of the checkout lead, and what the order has there.
LEMMA LabelFacts ==
    ASSUME NEW m, NEW o
    PROVE  /\ AskCard(o) \in {"num", "confirm"}
           /\ ordercc(m, o) \in {"use_card", "num", "confirm"}
           /\ AskAddress(m, o) \in {"name", "use_card", "num", "confirm"}
           /\ orderaddr(m, o) \in {"use_addr", "name", "use_card", "num", "confirm"}
           /\ AskCard(o) = "confirm" <=> o.card.is_set
           /\ ordercc(m, o) = "confirm" => o.card.is_set
           /\ AskAddress(m, o) = "confirm" => o.card.is_set
           /\ orderaddr(m, o) = "confirm" => o.card.is_set
           /\ AskAddress(m, o) # "name" <=> AddressSet(o.addr)
           /\ orderaddr(m, o) = "name" => ~ AddressSet(o.addr)
           /\ orderaddr(m, o) = "use_addr" => AddressSet(m.addr)
           /\ orderaddr(m, o) \notin {"use_addr", "name"} => AddressSet(o.addr)
<1>1. AskCard(o) \in {"num", "confirm"} /\ (AskCard(o) = "confirm" <=> o.card.is_set)
  BY DEF AskCard
<1>2. /\ ordercc(m, o) \in {"use_card", "num", "confirm"}
      /\ ordercc(m, o) = "confirm" => o.card.is_set
  BY <1>1 DEF ordercc
<1>3. /\ AskAddress(m, o) \in {"name", "use_card", "num", "confirm"}
      /\ AskAddress(m, o) = "confirm" => o.card.is_set
      /\ AskAddress(m, o) # "name" <=> AddressSet(o.addr)
  BY <1>2 DEF AskAddress
<1>4. /\ orderaddr(m, o) \in {"use_addr", "name", "use_card", "num", "confirm"}
      /\ orderaddr(m, o) = "confirm" => o.card.is_set
      /\ orderaddr(m, o) = "name" => ~ AddressSet(o.addr)
      /\ orderaddr(m, o) = "use_addr" => AddressSet(m.addr)
      /\ orderaddr(m, o) \notin {"use_addr", "name"} => AddressSet(o.addr)
  BY <1>3 DEF orderaddr
<1>. QED BY <1>1, <1>2, <1>3, <1>4

\* getline into cmd, and into a string declared for one line.
LEMMA ReadCmdType ==
    ASSUME TypeOK, NEW l \in Line, ReadCmd(l)
    PROVE  eof' \in BOOLEAN /\ ahead' \in Seq(Line) /\ cmd' \in Line
BY GetlineType DEF ReadCmd

LEMMA ReadNewType ==
    ASSUME TypeOK, ReadNew
    PROVE  eof' \in BOOLEAN /\ ahead' \in Seq(Line) /\ cmd' \in Line
BY GetlineType DEF ReadNew, TypeOK

LEMMA ReplyType ==
    ASSUME TypeOK, Reply
    PROVE  eof' \in BOOLEAN /\ ahead' \in Seq(Line) /\ cmd' \in Line
<1>1. \A l \in Line : Append(ahead, l) \in Seq(Line)
  BY DEF TypeOK
<1>2. AnyLine \cup TypedNumbers \cup {Blank} \subseteq Line
  BY AnyLineType, LineType, DialogAssumption
<1>. QED BY <1>1, <1>2 DEF Reply, TypeOK

LEMMA NewLinesType ==
    ASSUME TypeOK
    PROVE  /\ NewLines(TypedText) \subseteq Line
           /\ NewLines(TypedNumbers) \subseteq Line
           /\ NewLines(TypedDates) \subseteq Line
BY LinesType, LineType, DialogAssumption DEF NewLines

\* Commands of the menus.
LEMMA CommandType ==
    ASSUME TypeOK, NEW m \in Menus, NEW c, Command(m, c)
    PROVE  /\ pc = m /\ c \in Commands
           /\ eof' \in BOOLEAN /\ ahead' \in Seq(Line) /\ cmd' \in Line
<1>1. MenuCommands[m] \subseteq Commands
  BY DEF MenuCommands, Commands, Menus
<1>2. pc = m /\ c \in Commands /\ ReadCmd(Text(c))
  BY <1>1 DEF Command
<1>. QED BY <1>2, LineType, ReadCmdType

\* changeShippingAddress and changeCreditCard, which store the user.
LEMMA ChangeAddressType ==
    ASSUME TypeOK, AddressWhole,
           NEW m \in [name : Users, addr : ShippingAddress, card : PaymentInfo],
           NEW a \in ShippingAddress, a.parts \in {{}, Fields},
           changeShippingAddress(m, a)
    PROVE  /\ me' \in [name : Users, addr : ShippingAddress, card : PaymentInfo]
           /\ me'.addr.parts \in {{}, Fields}
           /\ file' \in [Users -> UserFile]
           /\ \A u \in Users : file'[u].addr.keys \in {{}, Fields}
<1>1. /\ me' \in [name : Users, addr : ShippingAddress, card : PaymentInfo]
      /\ me'.addr = a /\ StoreUser(me')
  BY DEF changeShippingAddress
<1>. QED BY <1>1, StoreType DEF AddressWhole

LEMMA ChangeCardType ==
    ASSUME TypeOK, AddressWhole, NEW c \in PaymentInfo, changeCreditCard(me, c)
    PROVE  /\ me' \in [name : Users, addr : ShippingAddress, card : PaymentInfo]
           /\ me'.addr.parts \in {{}, Fields}
           /\ file' \in [Users -> UserFile]
           /\ \A u \in Users : file'[u].addr.keys \in {{}, Fields}
<1>1. /\ me' \in [name : Users, addr : ShippingAddress, card : PaymentInfo]
      /\ me'.addr = me.addr /\ StoreUser(me')
  BY DEF changeCreditCard, TypeOK
<1>. QED BY <1>1, StoreType DEF AddressWhole

\* Logins, and the end of a process.
LEMMA LoginIInv ==
    ASSUME IInv, NEW u \in Users, Login(u)
    PROVE  IInv'
<1>1. /\ AnyUser \in Users
      /\ [Nobody EXCEPT !.name = u] \in [name : Users, addr : ShippingAddress, card : PaymentInfo]
  BY DialogAssumption, NoAddressType, NoCardType DEF AnyUser, Nobody
<1>2. /\ loadAddress(file[u].addr) \in ShippingAddress
      /\ loadAddress(file[u].addr).parts \in {{}, Fields}
  BY LoadAddressType DEF IInv, TypeOK, AddressWhole, UserFile
<1>3. /\ me' \in [name : Users, addr : ShippingAddress, card : PaymentInfo]
      /\ me'.addr.parts \in {{}, Fields}
      /\ file' \in [Users -> UserFile]
      /\ \A v \in Users : file'[v].addr.keys \in {{}, Fields}
  BY <1>1, <1>2, ChangeAddressType DEF IInv, Login
<1>4. TypeOK'
  <2>1. <<>> \in Seq(Line) /\ "login" \in Labels /\ 0 \in Nat
    BY DEF Labels
  <2>. QED BY <1>3, <2>1, LineType DEF IInv, TypeOK, Login, formVars
<1>5. AddressWhole'
  BY <1>3 DEF IInv, AddressWhole, Login
<1>6. FormParts'
  BY DEF IInv, FormParts, Login, PartsAt, formVars
<1>7. NumberFits' /\ OrderSoFar'
  BY DEF IInv, NumberFits, OrderSoFar, Login, formVars, AddressPrompts
<1>. QED BY <1>4, <1>5, <1>6, <1>7 DEF IInv

LEMMA LoginCardIInv ==
    ASSUME IInv, LoginCard
    PROVE  IInv'
<1>1. /\ me' \in [name : Users, addr : ShippingAddress, card : PaymentInfo]
      /\ me'.addr.parts \in {{}, Fields}
      /\ file' \in [Users -> UserFile]
      /\ \A v \in Users : file'[v].addr.keys \in {{}, Fields}
  <2>1. CASE file[me.name].card.keys
    <3>1. file[me.name].card \in StoredCard
      BY DEF IInv, TypeOK, UserFile
    <3>. QED BY <2>1, <3>1, LoadCardType, ChangeCardType DEF IInv, LoginCard
  <2>2. CASE ~ file[me.name].card.keys
    BY <2>2 DEF LoginCard, IInv, TypeOK, AddressWhole
  <2>. QED BY <2>1, <2>2
<1>2. TypeOK'
  BY <1>1 DEF IInv, TypeOK, LoginCard, formVars, inputVars, Labels, Menus
<1>3. AddressWhole'
  BY <1>1 DEF IInv, AddressWhole, LoginCard
<1>4. FormParts'
  BY DEF IInv, FormParts, LoginCard, PartsAt, formVars
<1>5. NumberFits' /\ OrderSoFar'
  BY DEF IInv, NumberFits, OrderSoFar, LoginCard, formVars, AddressPrompts
<1>. QED BY <1>2, <1>3, <1>4, <1>5 DEF IInv

LEMMA EndIInv ==
    ASSUME IInv, LoginFails \/ Crash \/ \E m \in Menus : Exit(m)
    PROVE  IInv'
<1>1. CASE LoginFails \/ Crash
  BY <1>1, OffIInv DEF IInv, TypeOK, LoginFails, Crash, inputVars
<1>2. ASSUME NEW m \in Menus, Exit(m) PROVE IInv'
  <2>1. Command(m, "exit") /\ Off
    BY <1>2 DEF Exit
  <2>. QED BY <2>1, CommandType, OffIInv DEF IInv
<1>. QED BY <1>1, <1>2

\* A step that changes neither user, order, record nor forms, and leads to a
\* prompt where the order has what OrderSoFar asks for.
LEMMA PromptIInv ==
    ASSUME IInv, UNCHANGED <<me, order, file, form, pay>>,
           caller' \in {"order", "account"}, filled' \in BOOLEAN,
           eof' \in BOOLEAN, ahead' \in Seq(Line), cmd' \in Line, late' \in Nat,
           pc \in Labels, pc' \in Labels, PartsAt(pc') = PartsAt(pc), OrderSoFar'
    PROVE  IInv'
<1>1. TypeOK'
  BY DEF IInv, TypeOK
<1>2. AddressWhole' /\ FormParts' /\ NumberFits'
  BY DEF IInv, AddressWhole, FormParts, NumberFits
<1>. QED BY <1>1, <1>2 DEF IInv

\* Commands that change nothing but the prompt.
LEMMA MenuIInv ==
    ASSUME IInv,
           \/ \E m \in Menus : OtherCommand(m)
           \/ \E m \in {"cart", "account"} : OpenMenu(m) \/ Back(m)
           \/ \E c \in {"addr", "pay"} : ChangeAccount(c)
    PROVE  IInv'
<1>1. ASSUME NEW m \in Menus, OtherCommand(m) PROVE IInv'
  <2>1. PICK l \in CmdLines(AnyLine) : ReadCmd(l)
    BY <1>1 DEF OtherCommand
  <2>2. l \in Line
    BY <2>1, LinesType, AnyLineType DEF IInv, TypeOK, CmdLines
  <2>3. eof' \in BOOLEAN /\ ahead' \in Seq(Line) /\ cmd' \in Line
    BY <2>1, <2>2, ReadCmdType DEF IInv
  <2>4. UNCHANGED <<pc, caller, form, pay, me, filled, order, file, late>>
    BY <1>1 DEF OtherCommand, formVars
  <2>5. OrderSoFar'
    BY <2>4 DEF IInv, OrderSoFar, AddressPrompts
  <2>. QED BY <2>3, <2>4, <2>5, PromptIInv DEF IInv, TypeOK
<1>2. ASSUME NEW m \in {"cart", "account"}, OpenMenu(m) \/ Back(m) PROVE IInv'
  <2>1. Command("shell", m) \/ Command(m, "back")
    BY <1>2 DEF OpenMenu, Back
  <2>2. pc \in Menus /\ eof' \in BOOLEAN /\ ahead' \in Seq(Line) /\ cmd' \in Line
    BY <2>1, CommandType DEF IInv, Menus
  <2>3. /\ pc' \in Menus
        /\ UNCHANGED <<caller, form, pay, me, filled, order, file, late>>
    BY <1>2 DEF OpenMenu, Back, formVars, Menus
  <2>4. PartsAt(pc) = {} /\ PartsAt(pc') = {} /\ pc' \in Labels
    BY <2>2, <2>3 DEF Menus, PartsAt, Labels
  <2>5. OrderSoFar'
    BY <2>2, <2>3 DEF OrderSoFar, Menus, IInv, AddressPrompts
  <2>. QED BY <2>2, <2>3, <2>4, <2>5, PromptIInv DEF IInv, TypeOK
<1>3. ASSUME NEW c \in {"addr", "pay"}, ChangeAccount(c) PROVE IInv'
  <2>1. Command("account", c)
    BY <1>3 DEF ChangeAccount
  <2>2. pc = "account" /\ eof' \in BOOLEAN /\ ahead' \in Seq(Line) /\ cmd' \in Line
    BY <2>1, CommandType DEF IInv, Menus
  <2>3. /\ pc' \in {"name", "num"} /\ caller' = "account"
        /\ UNCHANGED <<form, pay, me, filled, order, file, late>>
    BY <1>3 DEF ChangeAccount
  <2>4. PartsAt(pc) = {} /\ PartsAt(pc') = {} /\ pc' \in Labels
    BY <2>2, <2>3 DEF PartsAt, Labels, AddressPrompts
  <2>5. OrderSoFar'
    BY <2>2, <2>3 DEF OrderSoFar, IInv, AddressPrompts
  <2>. QED BY <2>2, <2>3, <2>4, <2>5, PromptIInv DEF IInv, TypeOK
<1>. QED BY <1>1, <1>2, <1>3

\* Commands that store the user as it is, and the order that is placed.
LEMMA StoreIInv ==
    ASSUME IInv, StoreUser(me), pc' \in Menus, PartsAt(pc) = {},
           UNCHANGED <<caller, form, pay, me>>, filled' \in BOOLEAN,
           eof' \in BOOLEAN, ahead' \in Seq(Line), cmd' \in Line, late' \in Nat,
           order' = NoOrder \/ (order' = order /\ pc \in Menus)
    PROVE  IInv'
<1>1. /\ file' \in [Users -> UserFile]
      /\ \A u \in Users : file'[u].addr.keys \in {{}, Fields}
  BY StoreType DEF IInv, TypeOK, AddressWhole
<1>2. /\ order' \in [addr : ShippingAddress, card : PaymentInfo]
      /\ order'.addr.parts \in {{}, Fields}
  BY NoAddressType, NoCardType DEF IInv, TypeOK, AddressWhole, NoOrder
<1>3. TypeOK'
  BY <1>1, <1>2 DEF IInv, TypeOK, Labels
<1>4. AddressWhole'
  BY <1>1, <1>2 DEF IInv, AddressWhole
<1>5. FormParts' /\ NumberFits'
  BY DEF IInv, FormParts, NumberFits, PartsAt, Menus
<1>6. OrderSoFar'
  BY DEF OrderSoFar, Menus, IInv, AddressPrompts, NoOrder, NoCard
<1>. QED BY <1>3, <1>4, <1>5, <1>6 DEF IInv

LEMMA CartIInv ==
    ASSUME IInv, AddToCart \/ RemoveItem \/ Clear
    PROVE  IInv'
<1>1. Command("shell", "addtocart") \/ Command("cart", "remove") \/ Command("cart", "clear")
  BY DEF AddToCart, RemoveItem, Clear
<1>2. pc \in Menus /\ eof' \in BOOLEAN /\ ahead' \in Seq(Line) /\ cmd' \in Line
  BY <1>1, CommandType DEF IInv, Menus
<1>3. /\ StoreUser(me) /\ filled' \in BOOLEAN /\ pc' \in Menus
      /\ UNCHANGED <<caller, form, pay, me, order, late>>
  BY <1>2 DEF AddToCart, RemoveItem, Clear, formVars, Menus
<1>4. PartsAt(pc) = {}
  BY <1>2 DEF PartsAt, Menus
<1>. QED BY <1>2, <1>3, <1>4, StoreIInv DEF IInv, TypeOK

LEMMA CheckoutIInv ==
    ASSUME IInv, Checkout
    PROVE  IInv'
<1>1. Command("cart", "checkout")
  BY DEF Checkout
<1>2. pc = "cart" /\ eof' \in BOOLEAN /\ ahead' \in Seq(Line) /\ cmd' \in Line
  BY <1>1, CommandType DEF IInv, Menus
<1>3. /\ order' = NoOrder /\ caller' = "order" /\ pc' = orderaddr(me, NoOrder)
      /\ UNCHANGED <<form, pay, me, filled, file, late>>
  BY DEF Checkout
<1>4. /\ pc' \in {"use_addr", "name"} /\ ~ order'.card.is_set
      /\ ~ AddressSet(order'.addr)
      /\ pc' = "use_addr" => AddressSet(me.addr)
  BY <1>3, LabelFacts, NoAddressType DEF NoOrder, NoCard, AddressSet, Fields
<1>5. TypeOK'
  BY <1>2, <1>3, <1>4, NoAddressType, NoCardType
     DEF IInv, TypeOK, NoOrder, Labels, AddressPrompts
<1>6. AddressWhole'
  BY <1>3, NoAddressType DEF IInv, AddressWhole, NoOrder
<1>7. FormParts' /\ NumberFits'
  BY <1>2, <1>3, <1>4 DEF IInv, FormParts, NumberFits, PartsAt
<1>8. OrderSoFar'
  BY <1>3, <1>4 DEF OrderSoFar, IInv, AddressPrompts
<1>. QED BY <1>5, <1>6, <1>7, <1>8 DEF IInv

\* The address form: leaving it, a field more, and its fields.
LEMMA LeaveAddressFormIInv ==
    ASSUME IInv, LeaveAddressForm, pc \in AddressPrompts \cup {"addr_ok"},
           eof' \in BOOLEAN, ahead' \in Seq(Line), cmd' \in Line
    PROVE  IInv'
<1>1. /\ pc' = IF caller = "order" THEN orderaddr(me, order) ELSE "account"
      /\ form' = NoAddress
      /\ UNCHANGED <<caller, pay, me, filled, order, file, late>>
  BY DEF LeaveAddressForm
<1>2. /\ pc' \in {"use_addr", "name", "use_card", "num", "confirm", "account"}
      /\ pc' # "account" => caller = "order"
      /\ pc' \notin {"use_addr", "name", "account"} => AddressSet(order.addr)
      /\ pc' = "use_addr" => AddressSet(me.addr)
      /\ pc' = "confirm" => order.card.is_set
  BY <1>1, LabelFacts
<1>3. TypeOK'
  BY <1>1, <1>2, NoAddressType DEF IInv, TypeOK, Labels, Menus, AddressPrompts
<1>4. AddressWhole' /\ NumberFits'
  BY <1>1 DEF IInv, AddressWhole, NumberFits
<1>5. FormParts'
  BY <1>1, <1>2, NoAddressType DEF FormParts, PartsAt
<1>6. OrderSoFar'
  BY <1>1, <1>2 DEF OrderSoFar, IInv, AddressPrompts
<1>. QED BY <1>3, <1>4, <1>5, <1>6 DEF IInv

LEMMA NextFieldIInv ==
    ASSUME IInv, NEW l \in Line, NextField(l), pc \in AddressPrompts,
           eof' \in BOOLEAN, ahead' \in Seq(Line), cmd' \in Line
    PROVE  IInv'
<1>1. /\ form' = IF pc \in DOMAIN FieldAfter THEN change(form, FieldAfter[pc], l) ELSE form
      /\ pc' = NextPrompt[pc]
      /\ UNCHANGED <<caller, pay, me, filled, order, file, late>>
  BY DEF NextField
<1>2. /\ pc' \in (AddressPrompts \cup {"addr_ok"}) \ {"name"}
      /\ pc \in DOMAIN FieldAfter <=> pc \notin {"name", "street"}
      /\ pc \in DOMAIN FieldAfter => FieldAfter[pc] \in Fields
  BY <1>1 DEF NextPrompt, AddressPrompts, FieldAfter, Fields
<1>3. /\ form' \in ShippingAddress
      /\ form'.parts = IF pc \in {"name", "street"} THEN form.parts
                       ELSE form.parts \cup {FieldAfter[pc]}
  BY <1>1, <1>2, ChangeType DEF IInv, TypeOK
<1>4. TypeOK'
  BY <1>1, <1>2, <1>3 DEF IInv, TypeOK, Labels
<1>5. AddressWhole' /\ NumberFits'
  BY <1>1 DEF IInv, AddressWhole, NumberFits
<1>6. FormParts'
  <2>1. form.parts = PartsAt(pc)
    BY DEF IInv, FormParts
  <2>2. PartsAt(NextPrompt[pc]) = IF pc \in {"name", "street"} THEN PartsAt(pc)
                                  ELSE PartsAt(pc) \cup {FieldAfter[pc]}
    <3>1. CASE pc = "name"
      BY <3>1 DEF PartsAt, NextPrompt, FieldAfter, Fields
    <3>2. CASE pc = "name2"
      BY <3>2 DEF PartsAt, NextPrompt, FieldAfter, Fields
    <3>3. CASE pc = "street"
      BY <3>3 DEF PartsAt, NextPrompt, FieldAfter, Fields
    <3>4. CASE pc = "street2"
      BY <3>4 DEF PartsAt, NextPrompt, FieldAfter, Fields
    <3>5. CASE pc = "city"
      BY <3>5 DEF PartsAt, NextPrompt, FieldAfter, Fields
    <3>6. CASE pc = "state"
      BY <3>6 DEF PartsAt, NextPrompt, FieldAfter, Fields
    <3>7. CASE pc = "zip"
      BY <3>7 DEF PartsAt, NextPrompt, FieldAfter, Fields
    <3>8. CASE pc = "country"
      BY <3>8 DEF PartsAt, NextPrompt, FieldAfter, Fields
    <3>. QED BY <3>1, <3>2, <3>3, <3>4, <3>5, <3>6, <3>7, <3>8 DEF AddressPrompts
  <2>. QED BY <1>1, <1>3, <2>1, <2>2 DEF FormParts
<1>7. OrderSoFar'
  BY <1>1, <1>2 DEF OrderSoFar, AddressPrompts, IInv
<1>. QED BY <1>4, <1>5, <1>6, <1>7 DEF IInv

LEMMA FieldIInv ==
    ASSUME IInv, TextField \/ ZipField
    PROVE  IInv'
<1>1. ReadNew /\ pc \in AddressPrompts
  BY DEF TextField, ZipField, AddressPrompts
<1>2. eof' \in BOOLEAN /\ ahead' \in Seq(Line) /\ cmd' \in Line
  BY <1>1, ReadNewType DEF IInv
<1>3. LeaveAddressForm \/ Off \/ \E l \in Line : NextField(l)
  BY NewLinesType DEF TextField, ZipField, IInv
<1>. QED BY <1>1, <1>2, <1>3, LeaveAddressFormIInv, NextFieldIInv, OffIInv

LEMMA RefuseAddressIInv ==
    ASSUME IInv, RefuseAddress
    PROVE  IInv'
<1>1. pc = "addr_ok" /\ ReadCmd(No) /\ LeaveAddressForm
  BY DEF RefuseAddress
<1>. QED BY <1>1, LineType, ReadCmdType, LeaveAddressFormIInv DEF IInv

LEMMA AcceptAddressIInv ==
    ASSUME IInv, AcceptAddress
    PROVE  IInv'
<1>1. PICK l \in Answers : ReadCmd(l)
  BY DEF AcceptAddress
<1>2. eof' \in BOOLEAN /\ ahead' \in Seq(Line) /\ cmd' \in Line
  BY <1>1, AnswersType, ReadCmdType DEF IInv
<1>3. pc = "addr_ok" /\ form.parts = Fields /\ form \in ShippingAddress
  BY DEF AcceptAddress, IInv, TypeOK, FormParts, PartsAt
<1>4. CASE caller = "order"
  <2>1. /\ order' = [order EXCEPT !.addr = form]
        /\ pc' = "keep_addr"
        /\ UNCHANGED <<me, form, file, caller, pay, filled, late>>
    BY <1>4 DEF AcceptAddress
  <2>2. /\ order' \in [addr : ShippingAddress, card : PaymentInfo]
        /\ order'.addr = form
    BY <1>3, <2>1 DEF IInv, TypeOK
  <2>3. TypeOK'
    BY <1>2, <2>1, <2>2 DEF IInv, TypeOK, Labels
  <2>4. AddressWhole' /\ NumberFits'
    BY <1>3, <2>1, <2>2 DEF IInv, AddressWhole, NumberFits
  <2>5. FormParts'
    BY <1>3, <2>1 DEF FormParts, PartsAt
  <2>6. OrderSoFar'
    BY <1>3, <1>4, <2>1, <2>2 DEF OrderSoFar, AddressSet, IInv, AddressPrompts
  <2>. QED BY <2>3, <2>4, <2>5, <2>6 DEF IInv
<1>5. CASE caller = "account"
  <2>1. /\ changeShippingAddress(me, form)
        /\ form' = NoAddress
        /\ pc' = "account"
        /\ UNCHANGED <<order, caller, pay, filled, late>>
    BY <1>5 DEF AcceptAddress
  <2>2. /\ me' \in [name : Users, addr : ShippingAddress, card : PaymentInfo]
        /\ me'.addr.parts \in {{}, Fields}
        /\ file' \in [Users -> UserFile]
        /\ \A v \in Users : file'[v].addr.keys \in {{}, Fields}
    BY <1>3, <2>1, ChangeAddressType DEF IInv, TypeOK
  <2>3. TypeOK'
    BY <1>2, <2>1, <2>2, NoAddressType DEF IInv, TypeOK, Labels, Menus
  <2>4. AddressWhole' /\ NumberFits'
    BY <2>1, <2>2 DEF IInv, AddressWhole, NumberFits
  <2>5. FormParts' /\ OrderSoFar'
    BY <1>3, <2>1, NoAddressType DEF FormParts, PartsAt, OrderSoFar, IInv, AddressPrompts
  <2>. QED BY <2>3, <2>4, <2>5 DEF IInv
<1>. QED BY <1>4, <1>5 DEF AcceptAddress

LEMMA KeepAddressIInv ==
    ASSUME IInv, KeepAddress
    PROVE  IInv'
<1>1. eof' \in BOOLEAN /\ ahead' \in Seq(Line) /\ cmd' \in Line
  BY ReplyType DEF IInv, KeepAddress
<1>2. pc = "keep_addr" /\ form.parts = Fields /\ form \in ShippingAddress
  BY DEF KeepAddress, IInv, TypeOK, FormParts, PartsAt
<1>3. /\ me' \in [name : Users, addr : ShippingAddress, card : PaymentInfo]
      /\ me'.addr.parts \in {{}, Fields}
      /\ file' \in [Users -> UserFile]
      /\ \A v \in Users : file'[v].addr.keys \in {{}, Fields}
  <2>1. CASE cmd = No
    BY <2>1 DEF KeepAddress, IInv, TypeOK, AddressWhole
  <2>2. CASE cmd # No
    BY <1>2, <2>2, ChangeAddressType DEF KeepAddress, IInv, TypeOK
  <2>. QED BY <2>1, <2>2
<1>4. /\ form' = NoAddress
      /\ pc' = ordercc(me', order)
      /\ UNCHANGED <<caller, pay, filled, order, late>>
  BY DEF KeepAddress
<1>5. /\ pc' \in {"use_card", "num", "confirm"}
      /\ pc' = "confirm" => order.card.is_set
  BY <1>4, LabelFacts
<1>6. TypeOK'
  BY <1>1, <1>3, <1>4, <1>5, NoAddressType DEF IInv, TypeOK, Labels
<1>7. AddressWhole' /\ NumberFits'
  BY <1>3, <1>4 DEF IInv, AddressWhole, NumberFits
<1>8. FormParts'
  BY <1>4, <1>5, NoAddressType DEF FormParts, PartsAt
<1>9. OrderSoFar'
  BY <1>2, <1>4, <1>5 DEF IInv, OrderSoFar, AddressPrompts
<1>. QED BY <1>6, <1>7, <1>8, <1>9 DEF IInv

\* Whether to use the address, and the card, on file.
LEMMA UseIInv ==
    ASSUME IInv, UseAddress \/ UseCard
    PROVE  IInv'
<1>1. PICK l \in Answers : ReadCmd(l)
  BY DEF UseAddress, UseCard
<1>2. eof' \in BOOLEAN /\ ahead' \in Seq(Line) /\ cmd' \in Line
  BY <1>1, AnswersType, ReadCmdType DEF IInv
<1>3. /\ pc \in {"use_addr", "use_card"}
      /\ UNCHANGED <<caller, form, pay, me, filled, file, late>>
  BY DEF UseAddress, UseCard, formVars
<1>4. caller = "order"
  BY <1>3 DEF IInv, OrderSoFar
<1>5. /\ order' \in [addr : ShippingAddress, card : PaymentInfo]
      /\ order'.addr.parts \in {{}, Fields}
      /\ UseCard => order'.addr = order.addr
  BY DEF UseAddress, UseCard, IInv, TypeOK, AddressWhole
<1>6. /\ pc' \in {"name", "use_card", "num", "confirm"}
      /\ pc' # "name" <=> AddressSet(order'.addr)
      /\ pc' = "confirm" <=> order'.card.is_set
  <2>1. CASE UseAddress
    <3>1. pc' = AskAddress(me, order') /\ pc = "use_addr"
      BY <2>1 DEF UseAddress
    <3>2. order'.card = order.card /\ ~ order.card.is_set
      BY <2>1, <3>1 DEF UseAddress, IInv, TypeOK, OrderSoFar
    <3>. QED BY <3>1, <3>2, LabelFacts
  <2>2. CASE UseCard
    <3>1. AddressSet(order'.addr)
      BY <1>5, <2>2 DEF UseCard, IInv, OrderSoFar
    <3>. QED BY <2>2, <3>1, LabelFacts DEF UseCard
  <2>. QED BY <2>1, <2>2
<1>7. TypeOK'
  BY <1>2, <1>3, <1>5, <1>6 DEF IInv, TypeOK, Labels, AddressPrompts
<1>8. AddressWhole' /\ NumberFits'
  BY <1>3, <1>5 DEF IInv, AddressWhole, NumberFits
<1>9. FormParts'
  BY <1>3, <1>6 DEF IInv, FormParts, PartsAt
<1>10. OrderSoFar'
  BY <1>3, <1>4, <1>6 DEF OrderSoFar, IInv, AddressPrompts
<1>. QED BY <1>7, <1>8, <1>9, <1>10 DEF IInv

\* The card form.
LEMMA NoPayType == NoPay \in [num : Line, exp : Line, cv2 : Line] /\ Fits(NoPay.num)
BY LineType, WidthAssumption DEF NoPay, Fits, Blank, Text

LEMMA LeaveCardFormIInv ==
    ASSUME IInv, pc \in {"num", "exp", "card_ok"}, NEW label, LeaveCardForm(label),
           caller = "order" =>
               /\ label \in {"use_addr", "name", "use_card", "num", "confirm"}
               /\ label = "name" => ~ AddressSet(order.addr)
               /\ label = "use_addr" => AddressSet(me.addr)
               /\ label \notin {"use_addr", "name"} => AddressSet(order.addr)
               /\ label = "confirm" => order.card.is_set,
           eof' \in BOOLEAN, ahead' \in Seq(Line), cmd' \in Line
    PROVE  IInv'
<1>1. /\ pc' = IF caller = "order" THEN label ELSE "account"
      /\ pay' = NoPay
      /\ UNCHANGED <<caller, form, me, filled, order, file, late>>
  BY DEF LeaveCardForm
<1>2. TypeOK'
  BY <1>1, NoPayType DEF IInv, TypeOK, Labels, Menus, AddressPrompts
<1>3. AddressWhole' /\ NumberFits'
  BY <1>1, NoPayType DEF IInv, AddressWhole, NumberFits
<1>4. FormParts'
  BY <1>1 DEF IInv, TypeOK, FormParts, PartsAt
<1>5. OrderSoFar'
  BY <1>1 DEF OrderSoFar, IInv, AddressPrompts
<1>. QED BY <1>2, <1>3, <1>4, <1>5 DEF IInv

\* A line more of the card.
LEMMA PayIInv ==
    ASSUME IInv, pc \in {"num", "exp", "cv2"}, pc' \in {"exp", "cv2", "card_ok"},
           pay' \in [num : Line, exp : Line, cv2 : Line], Fits(pay'.num),
           UNCHANGED <<caller, form, me, filled, order, file, late>>,
           eof' \in BOOLEAN, ahead' \in Seq(Line), cmd' \in Line
    PROVE  IInv'
<1>1. TypeOK'
  BY DEF IInv, TypeOK, Labels
<1>2. AddressWhole' /\ NumberFits'
  BY DEF IInv, AddressWhole, NumberFits
<1>3. FormParts' /\ OrderSoFar'
  BY DEF IInv, FormParts, PartsAt, OrderSoFar, AddressPrompts
<1>. QED BY <1>1, <1>2, <1>3 DEF IInv

LEMMA CardFieldIInv ==
    ASSUME IInv, CardNumber \/ CardExpiry \/ CardCv2
    PROVE  IInv'
<1>1. ReadNew /\ pc \in {"num", "exp", "cv2"}
  BY DEF CardNumber, CardExpiry, CardCv2
<1>2. eof' \in BOOLEAN /\ ahead' \in Seq(Line) /\ cmd' \in Line
  BY <1>1, ReadNewType DEF IInv
<1>3. CASE LeaveCardForm(ordercc(me, order)) /\ pc # "cv2"
  <2>1. caller = "order" => AddressSet(order.addr)
    BY <1>1 DEF IInv, OrderSoFar
  <2>. QED BY <1>1, <1>2, <1>3, <2>1, LabelFacts, LeaveCardFormIInv
<1>4. CASE Off
  BY <1>2, <1>4, OffIInv
<1>5. CASE /\ pay' \in [num : Line, exp : Line, cv2 : Line] /\ Fits(pay'.num)
           /\ pc' \in {"exp", "cv2", "card_ok"}
           /\ UNCHANGED <<caller, form, me, filled, order, file, late>>
  BY <1>1, <1>2, <1>5, PayIInv
<1>6. CASE CardNumber
  <2>1. PICK l \in Line :
            \/ LeaveCardForm(ordercc(me, order))
            \/ Off
            \/ /\ Fits(l) /\ pay' = [pay EXCEPT !.num = l] /\ pc' = "exp"
               /\ UNCHANGED <<caller, form, me, filled, order, file, late>>
    BY <1>6, NewLinesType DEF CardNumber, IInv
  <2>. QED BY <1>3, <1>4, <1>5, <1>6, <2>1 DEF CardNumber, IInv, TypeOK
<1>7. CASE CardExpiry
  <2>1. PICK l \in Line :
            \/ LeaveCardForm(ordercc(me, order))
            \/ /\ pay' = [pay EXCEPT !.exp = l] /\ pc' = "cv2"
               /\ UNCHANGED <<caller, form, me, filled, order, file, late>>
    BY <1>7, NewLinesType DEF CardExpiry, IInv
  <2>. QED BY <1>3, <1>5, <1>7, <2>1 DEF CardExpiry, IInv, TypeOK, NumberFits
<1>8. CASE CardCv2
  <2>1. PICK l \in Line : pay' = [pay EXCEPT !.cv2 = l]
    BY <1>8, NewLinesType DEF CardCv2, IInv
  <2>. QED BY <1>5, <1>8, <2>1 DEF CardCv2, IInv, TypeOK, NumberFits
<1>. QED BY <1>6, <1>7, <1>8

LEMMA RefuseCardIInv ==
    ASSUME IInv, RefuseCard
    PROVE  IInv'
<1>1. pc = "card_ok" /\ ReadCmd(No) /\ LeaveCardForm(orderaddr(me, order))
  BY DEF RefuseCard
<1>2. eof' \in BOOLEAN /\ ahead' \in Seq(Line) /\ cmd' \in Line
  BY <1>1, LineType, ReadCmdType DEF IInv
<1>. QED BY <1>1, <1>2, LabelFacts, LeaveCardFormIInv

\* The card that has been typed.
LEMMA EnteredCardType ==
    ASSUME IInv
    PROVE  EnteredCard \in PaymentInfo /\ EnteredCard.is_set
<1>1. pay.num \in Line /\ pay.exp \in Line /\ pay.num.value \in Nat
  BY DEF IInv, TypeOK, Line
<1>2. stoul(pay.num) \in ULong
  BY <1>1, WidthAssumption DEF IInv, NumberFits, Fits, stoul, ULong
<1>3. Cast(stoul(pay.num)) \in UInt
  BY <1>1, CastType DEF stoul
<1>. QED BY <1>1, <1>2, <1>3 DEF EnteredCard, Card, PaymentInfo

LEMMA AcceptCardIInv ==
    ASSUME IInv, AcceptCard
    PROVE  IInv'
<1>1. PICK l \in Answers : ReadCmd(l)
  BY DEF AcceptCard
<1>2. eof' \in BOOLEAN /\ ahead' \in Seq(Line) /\ cmd' \in Line
  BY <1>1, AnswersType, ReadCmdType DEF IInv
<1>3. pc = "card_ok"
  BY DEF AcceptCard
<1>4. CASE caller = "order"
  <2>1. /\ order' = [order EXCEPT !.card = EnteredCard]
        /\ pc' = "keep_card"
        /\ UNCHANGED <<me, pay, file, caller, form, filled, late>>
    BY <1>4 DEF AcceptCard
  <2>2. /\ order' \in [addr : ShippingAddress, card : PaymentInfo]
        /\ order'.addr = order.addr /\ order'.card.is_set
    BY <2>1, EnteredCardType DEF IInv, TypeOK
  <2>3. TypeOK'
    BY <1>2, <2>1, <2>2 DEF IInv, TypeOK, Labels
  <2>4. AddressWhole' /\ NumberFits'
    BY <2>1, <2>2 DEF IInv, AddressWhole, NumberFits
  <2>5. FormParts'
    BY <1>3, <2>1 DEF IInv, FormParts, PartsAt
  <2>6. OrderSoFar'
    BY <1>3, <1>4, <2>1, <2>2 DEF IInv, OrderSoFar, AddressPrompts
  <2>. QED BY <2>3, <2>4, <2>5, <2>6 DEF IInv
<1>5. CASE caller = "account"
  <2>1. /\ changeCreditCard(me, EnteredCard)
        /\ pay' = NoPay /\ pc' = "account"
        /\ UNCHANGED <<order, caller, form, filled, late>>
    BY <1>5 DEF AcceptCard
  <2>2. /\ me' \in [name : Users, addr : ShippingAddress, card : PaymentInfo]
        /\ me'.addr.parts \in {{}, Fields}
        /\ file' \in [Users -> UserFile]
        /\ \A v \in Users : file'[v].addr.keys \in {{}, Fields}
    BY <2>1, EnteredCardType, ChangeCardType DEF IInv
  <2>3. TypeOK'
    BY <1>2, <2>1, <2>2, NoPayType DEF IInv, TypeOK, Labels, Menus
  <2>4. AddressWhole' /\ NumberFits'
    BY <2>1, <2>2, NoPayType DEF IInv, AddressWhole, NumberFits
  <2>5. FormParts' /\ OrderSoFar'
    BY <1>3, <2>1 DEF IInv, FormParts, PartsAt, OrderSoFar, AddressPrompts
  <2>. QED BY <2>3, <2>4, <2>5 DEF IInv
<1>. QED BY <1>4, <1>5 DEF AcceptCard

LEMMA KeepCardIInv ==
    ASSUME IInv, KeepCard
    PROVE  IInv'
<1>1. eof' \in BOOLEAN /\ ahead' \in Seq(Line) /\ cmd' \in Line
  BY ReplyType DEF IInv, KeepCard
<1>2. /\ me' \in [name : Users, addr : ShippingAddress, card : PaymentInfo]
      /\ me'.addr.parts \in {{}, Fields}
      /\ file' \in [Users -> UserFile]
      /\ \A v \in Users : file'[v].addr.keys \in {{}, Fields}
  <2>1. CASE cmd = No
    BY <2>1 DEF KeepCard, IInv, TypeOK, AddressWhole
  <2>2. CASE cmd # No
    BY <2>2, EnteredCardType, ChangeCardType DEF KeepCard, IInv
  <2>. QED BY <2>1, <2>2
<1>3. /\ pc = "keep_card" /\ pc' = "confirm" /\ pay' = NoPay
      /\ UNCHANGED <<caller, form, filled, order, late>>
  BY DEF KeepCard
<1>4. TypeOK'
  BY <1>1, <1>2, <1>3, NoPayType DEF IInv, TypeOK, Labels
<1>5. AddressWhole' /\ NumberFits'
  BY <1>2, <1>3, NoPayType DEF IInv, AddressWhole, NumberFits
<1>6. FormParts' /\ OrderSoFar'
  BY <1>3 DEF IInv, FormParts, PartsAt, OrderSoFar, AddressPrompts
<1>. QED BY <1>4, <1>5, <1>6 DEF IInv

\* The order declined or placed.
LEMMA ConfirmIInv ==
    ASSUME IInv, Decline \/ PlaceOrder
    PROVE  IInv'
<1>1. PICK l \in Answers : ReadCmd(l)
  BY DEF Decline, PlaceOrder
<1>2. eof' \in BOOLEAN /\ ahead' \in Seq(Line) /\ cmd' \in Line
  BY <1>1, AnswersType, ReadCmdType DEF IInv
<1>3. CASE Decline
  <2>1. /\ pc = "confirm" /\ pc' = "cart" /\ order' = NoOrder
        /\ UNCHANGED <<caller, form, pay, me, filled, file, late>>
    BY <1>3 DEF Decline, formVars
  <2>2. TypeOK'
    BY <1>2, <2>1, NoAddressType, NoCardType DEF IInv, TypeOK, Labels, Menus, NoOrder
  <2>3. AddressWhole' /\ NumberFits'
    BY <2>1, NoAddressType DEF IInv, AddressWhole, NumberFits, NoOrder
  <2>4. FormParts' /\ OrderSoFar'
    BY <2>1 DEF IInv, FormParts, PartsAt, OrderSoFar, AddressPrompts, NoOrder, NoCard
  <2>. QED BY <2>2, <2>3, <2>4 DEF IInv
<1>4. CASE PlaceOrder
  <2>1. /\ pc = "confirm" /\ pc' = "shell" /\ order' = NoOrder /\ filled' = FALSE
        /\ StoreUser(me) /\ UNCHANGED <<caller, form, pay, me>>
    BY <1>4 DEF PlaceOrder, formVars
  <2>2. late' \in Nat
    BY <1>4 DEF PlaceOrder, IInv, TypeOK
  <2>3. PartsAt(pc) = {} /\ pc' \in Menus
    BY <2>1 DEF PartsAt, Menus
  <2>. QED BY <1>2, <2>1, <2>2, <2>3, StoreIInv
<1>. QED BY <1>3, <1>4

\* Every step keeps the invariant.
LEMMA NextIInv == IInv /\ [Next]_vars => IInv'
<1>. SUFFICES ASSUME IInv, [Next]_vars PROVE IInv'
  OBVIOUS
<1>1. CASE \E u \in Users : Login(u)
  BY <1>1, LoginIInv
<1>2. CASE Crash \/ LoginFails \/ \E m \in Menus : Exit(m)
  BY <1>2, EndIInv
<1>3. CASE LoginCard
  BY <1>3, LoginCardIInv
<1>4. CASE \/ \E m \in Menus : OtherCommand(m)
           \/ \E m \in {"cart", "account"} : OpenMenu(m) \/ Back(m)
           \/ \E c \in {"addr", "pay"} : ChangeAccount(c)
  BY <1>4, MenuIInv
<1>5. CASE AddToCart \/ RemoveItem \/ Clear \/ Checkout
  BY <1>5, CartIInv, CheckoutIInv
<1>6. CASE TextField \/ ZipField \/ RefuseAddress \/ AcceptAddress \/ KeepAddress
  BY <1>6, FieldIInv, RefuseAddressIInv, AcceptAddressIInv, KeepAddressIInv
<1>7. CASE UseAddress \/ UseCard
  BY <1>7, UseIInv
<1>8. CASE CardNumber \/ CardExpiry \/ CardCv2 \/ RefuseCard \/ AcceptCard \/ KeepCard
  BY <1>8, CardFieldIInv, RefuseCardIInv, AcceptCardIInv, KeepCardIInv
<1>9. CASE Decline \/ PlaceOrder
  BY <1>9, ConfirmIInv
<1>10. CASE UNCHANGED vars
  BY <1>10 DEF vars, formVars, inputVars, IInv, TypeOK, AddressWhole, FormParts,
               NumberFits, OrderSoFar
<1>. QED BY <1>1, <1>2, <1>3, <1>4, <1>5, <1>6, <1>7, <1>8, <1>9, <1>10 DEF Next, Step

-----------------------------------------------------------------------------
(* The record on disk.                                                     *)

\* The record of the user m is what storeUser makes of m, so that storing m
\* once more changes nothing.
AddressOnFile(m) ==
    IF m.addr.parts = {} THEN m.addr.zip = 0 /\ file[m.name].addr.keys = {}
    ELSE file[m.name].addr = [keys |-> Fields, zip |-> Number(m.addr.zip)]

CardOnFile(m) ==
    IF m.card.is_set
    THEN file[m.name].card = [keys |-> TRUE, cc_num |-> Number(m.card.cc_num),
                              cc_exp |-> m.card.cc_exp, cc_cv2 |-> Number(m.card.cc_cv2)]
    ELSE ~ file[m.name].card.keys

\* Between the two halves of getUser the card is on disk and not in memory.
OnFile ==
    /\ pc # "off" => AddressOnFile(me)
    /\ pc = "login" => ~ me.card.is_set
    /\ pc \notin {"off", "login"} => CardOnFile(me)

\* storeUser: what it writes, and that it writes again what is there.
LEMMA StoreOnFile ==
    ASSUME TypeOK, StoreUser(me'), me'.addr.parts \in {{}, Fields},
           me' \in [name : Users, addr : ShippingAddress, card : PaymentInfo]
    PROVE  /\ \/ me'.addr.parts = Fields
              \/ me'.addr.zip = 0 /\ file[me'.name].addr.keys = {}
              => AddressOnFile(me)'
           /\ me'.card.is_set \/ ~ file[me'.name].card.keys => CardOnFile(me)'
           /\ \A u \in Users \ {me'.name} : file'[u] = file[u]
           /\ AddressOnFile(me') => file'[me'.name].addr = file[me'.name].addr
           /\ CardOnFile(me') => file'[me'.name].card = file[me'.name].card
<1>1. me'.name \in Users /\ file \in [Users -> UserFile]
  BY DEF TypeOK
<1>2. PICK a \in storeAddress(file[me'.name].addr, me'.addr) :
        file' = [file EXCEPT ![me'.name] =
                    [addr |-> a, card |-> storeCard(file[me'.name].card, me'.card)]]
  BY DEF StoreUser
<1>3. /\ file'[me'.name].addr = a
      /\ file'[me'.name].card = storeCard(file[me'.name].card, me'.card)
      /\ \A u \in Users \ {me'.name} : file'[u] = file[u]
  BY <1>1, <1>2
<1>4. a = IF me'.addr.parts = {} THEN file[me'.name].addr
          ELSE [keys |-> Fields, zip |-> Number(me'.addr.zip)]
  BY <1>2 DEF storeAddress, to_string, Fields
<1>5. me'.card.is_set =>
        file'[me'.name].card =
            [keys |-> TRUE, cc_num |-> Number(me'.card.cc_num),
             cc_exp |-> me'.card.cc_exp, cc_cv2 |-> Number(me'.card.cc_cv2)]
  BY <1>3 DEF storeCard, to_string
<1>6. ~ me'.card.is_set => file'[me'.name].card = file[me'.name].card
  BY <1>3 DEF storeCard
<1>7. Fields # {}
  BY DEF Fields
<1>. QED BY <1>3, <1>4, <1>5, <1>6, <1>7 DEF AddressOnFile, CardOnFile

\* A session has a user logged in except while a login is under way.
Session == pc \notin {"off", "login"}

\* What a step of a session may do with user and record: nothing, store the
\* user as it is, with a new address, or with a new card.
LeavesUser == UNCHANGED <<me, file>>
StoresUser == StoreUser(me') /\ me' = me
StoresAddress == StoreUser(me') /\ me' = [me EXCEPT !.addr = form] /\ form.parts = Fields
StoresCard == StoreUser(me') /\ me' = [me EXCEPT !.card = EnteredCard]

\* One of these is what every step inside a session does.
LEMMA Effects ==
    ASSUME IInv, Next
    PROVE  \/ pc' = "off" /\ UNCHANGED file
           \/ \E u \in Users : Login(u)
           \/ LoginCard
           \/ /\ Session /\ Session'
              /\ LeavesUser \/ StoresUser \/ StoresAddress \/ StoresCard
<1>1. CASE Crash \/ LoginFails \/ \E m \in Menus : Exit(m)
  BY <1>1 DEF Crash, LoginFails, Exit, Off
<1>2. CASE \/ \E m \in Menus : OtherCommand(m)
           \/ \E m \in {"cart", "account"} : OpenMenu(m) \/ Back(m)
           \/ \E c \in {"addr", "pay"} : ChangeAccount(c)
  <2>1. pc \in Menus /\ LeavesUser
    BY <1>2 DEF OtherCommand, OpenMenu, Back, ChangeAccount, Command, Menus, LeavesUser
  <2>2. pc' \in Menus \cup {"name", "num"}
    BY <1>2, <2>1 DEF OtherCommand, OpenMenu, Back, ChangeAccount, Menus
  <2>. QED BY <2>1, <2>2 DEF Session, Menus
<1>3. CASE AddToCart \/ RemoveItem \/ Clear
  <2>1. pc \in Menus /\ pc' \in Menus /\ StoresUser
    BY <1>3 DEF AddToCart, RemoveItem, Clear, Command, Menus, StoresUser
  <2>. QED BY <2>1 DEF Session, Menus
<1>4. CASE Checkout
  <2>1. pc = "cart" /\ pc' = orderaddr(me, order') /\ LeavesUser
    BY <1>4 DEF Checkout, Command, LeavesUser
  <2>. QED BY <2>1, LabelFacts DEF Session
<1>5. CASE TextField \/ ZipField \/ RefuseAddress
  <2>1. pc \in AddressPrompts \cup {"addr_ok"}
    BY <1>5 DEF TextField, ZipField, RefuseAddress, AddressPrompts
  <2>2. LeaveAddressForm \/ Off \/ (pc \in AddressPrompts /\ \E l : NextField(l))
    BY <1>5 DEF TextField, ZipField, RefuseAddress, AddressPrompts
  <2>3. CASE LeaveAddressForm
    BY <2>1, <2>3, LabelFacts DEF LeaveAddressForm, AddressPrompts, Session, LeavesUser
  <2>4. CASE pc \in AddressPrompts /\ \E l : NextField(l)
    BY <2>4 DEF NextField, NextPrompt, AddressPrompts, Session, LeavesUser
  <2>. QED BY <2>2, <2>3, <2>4 DEF Off
<1>6. CASE AcceptAddress \/ KeepAddress
  <2>1. pc \in {"addr_ok", "keep_addr"} /\ form.parts = Fields
    BY <1>6 DEF AcceptAddress, KeepAddress, IInv, FormParts, PartsAt
  <2>2. LeavesUser \/ StoresAddress
    BY <1>6, <2>1 DEF AcceptAddress, KeepAddress, changeShippingAddress, LeavesUser, StoresAddress
  <2>3. Session'
    BY <1>6, LabelFacts DEF AcceptAddress, KeepAddress, Session
  <2>. QED BY <2>1, <2>2, <2>3 DEF Session
<1>7. CASE UseAddress \/ UseCard
  BY <1>7, LabelFacts DEF UseAddress, UseCard, Session, LeavesUser
<1>8. CASE CardNumber \/ CardExpiry \/ CardCv2 \/ RefuseCard
  <2>1. pc \in {"num", "exp", "cv2", "card_ok"}
    BY <1>8 DEF CardNumber, CardExpiry, CardCv2, RefuseCard
  <2>2. \/ Off
        \/ LeaveCardForm(ordercc(me, order)) \/ LeaveCardForm(orderaddr(me, order))
        \/ pc' \in {"exp", "cv2", "card_ok"} /\ LeavesUser
    BY <1>8 DEF CardNumber, CardExpiry, CardCv2, RefuseCard, LeavesUser
  <2>. QED BY <2>1, <2>2, LabelFacts DEF Off, LeaveCardForm, Session, LeavesUser
<1>9. CASE AcceptCard \/ KeepCard
  BY <1>9 DEF AcceptCard, KeepCard, changeCreditCard, Session, LeavesUser, StoresCard
<1>10. CASE Decline \/ PlaceOrder
  BY <1>10 DEF Decline, PlaceOrder, Session, LeavesUser, StoresUser
<1>. QED BY <1>1, <1>2, <1>3, <1>4, <1>5, <1>6, <1>7, <1>8, <1>9, <1>10 DEF Next, Step

LEMMA InitOnFile == Init => OnFile
BY DEF Init, OnFile

LEMMA NextOnFile == IInv /\ OnFile /\ [Next]_vars => OnFile'
<1>. SUFFICES ASSUME IInv, OnFile, Next PROVE OnFile'
  BY DEF OnFile, AddressOnFile, CardOnFile, vars, formVars, inputVars
<1>1. IInv'
  BY NextIInv
<1>2. /\ TypeOK /\ me'.addr.parts \in {{}, Fields}
      /\ me' \in [name : Users, addr : ShippingAddress, card : PaymentInfo]
  BY <1>1 DEF IInv, TypeOK, AddressWhole
<1>3. CASE pc' = "off"
  BY <1>3 DEF OnFile
<1>4. ASSUME NEW u \in Users, Login(u) PROVE OnFile'
  <2>1. /\ me' = [name |-> u, addr |-> loadAddress(file[u].addr), card |-> NoCard]
        /\ StoreUser(me') /\ pc' = "login"
    BY <1>4 DEF Login, changeShippingAddress, Nobody
  <2>2. me'.addr.parts = Fields \/ (me'.addr.zip = 0 /\ file[me'.name].addr.keys = {})
    BY <1>2, <2>1 DEF loadAddress
  <2>. QED BY <1>2, <2>1, <2>2, StoreOnFile DEF OnFile, NoCard
<1>5. CASE LoginCard
  <2>1. AddressOnFile(me) /\ ~ me.card.is_set /\ pc' = "shell"
    BY <1>5 DEF LoginCard, OnFile
  <2>2. CASE file[me.name].card.keys
    <3>1. /\ me' = [me EXCEPT !.card = loadCard(file[me.name].card)] /\ StoreUser(me')
      BY <1>5, <2>2 DEF LoginCard, changeCreditCard
    <3>2. me'.name = me.name /\ me'.addr = me.addr /\ me'.card.is_set
      BY <2>2, <3>1 DEF IInv, TypeOK, loadCard, Card
    <3>3. me'.addr.parts = Fields \/ (me'.addr.zip = 0 /\ file[me'.name].addr.keys = {})
      BY <1>2, <2>1, <3>2 DEF AddressOnFile
    <3>. QED BY <1>2, <2>1, <3>1, <3>2, <3>3, StoreOnFile DEF OnFile
  <2>3. CASE ~ file[me.name].card.keys
    BY <1>5, <2>1, <2>3 DEF LoginCard, OnFile, AddressOnFile, CardOnFile
  <2>. QED BY <2>2, <2>3
<1>6. CASE Session /\ Session' /\ LeavesUser
  BY <1>6 DEF Session, LeavesUser, OnFile, AddressOnFile, CardOnFile
<1>7. CASE Session /\ Session' /\ (StoresUser \/ StoresAddress \/ StoresCard)
  <2>1. AddressOnFile(me) /\ CardOnFile(me)
    BY <1>7 DEF OnFile, Session
  <2>2. /\ StoreUser(me') /\ me'.name = me.name
        /\ me'.addr = me.addr \/ me'.addr.parts = Fields
        /\ me'.card = me.card \/ me'.card.is_set
    BY <1>7, EnteredCardType DEF StoresUser, StoresAddress, StoresCard, IInv, TypeOK
  <2>3. /\ me'.addr.parts = Fields \/ (me'.addr.zip = 0 /\ file[me'.name].addr.keys = {})
        /\ me'.card.is_set \/ ~ file[me'.name].card.keys
    BY <1>2, <2>1, <2>2 DEF AddressOnFile, CardOnFile
  <2>. QED BY <1>2, <1>7, <2>2, <2>3, StoreOnFile DEF OnFile, Session
<1>. QED BY <1>3, <1>4, <1>5, <1>6, <1>7, Effects

\* The record on disk in the form of the property.
LEMMA OnFileMatches == IInv /\ OnFile => FileMatchesMemory
<1>. SUFFICES ASSUME IInv, OnFile, Session PROVE
        LET d == file[me.name].card IN
        /\ loadAddress(file[me.name].addr) = me.addr
        /\ d.keys = me.card.is_set
        /\ d.keys => /\ d.cc_num = to_string(me.card.cc_num)
                     /\ d.cc_exp = me.card.cc_exp
                     /\ d.cc_cv2 = to_string(me.card.cc_cv2)
  BY DEF FileMatchesMemory, Session
<1>1. /\ me.addr \in ShippingAddress /\ me.card \in PaymentInfo
      /\ file[me.name] \in UserFile /\ me.addr.parts \in {{}, Fields}
  BY DEF IInv, TypeOK, AddressWhole
<1>2. AddressOnFile(me) /\ CardOnFile(me)
  BY DEF OnFile, Session
<1>3. loadAddress(file[me.name].addr) = me.addr
  <2>1. CASE me.addr.parts = {}
    BY <1>1, <1>2, <2>1 DEF AddressOnFile, loadAddress, ShippingAddress
  <2>2. CASE me.addr.parts = Fields
    <3>1. file[me.name].addr = [keys |-> Fields, zip |-> Number(me.addr.zip)]
      BY <1>2, <2>2 DEF AddressOnFile, Fields
    <3>2. Cast(me.addr.zip) = me.addr.zip
      BY <1>1, WidthAssumption DEF Cast, ShippingAddress, UInt
    <3>. QED BY <1>1, <2>2, <3>1, <3>2 DEF loadAddress, stoul, Number, ShippingAddress, Fields
  <2>. QED BY <1>1, <2>1, <2>2
<1>4. CASE me.card.is_set
  <2>1. file[me.name].card =
            [keys |-> TRUE, cc_num |-> Number(me.card.cc_num),
             cc_exp |-> me.card.cc_exp, cc_cv2 |-> Number(me.card.cc_cv2)]
    BY <1>2, <1>4 DEF CardOnFile
  <2>2. me.card.is_set = TRUE
    BY <1>1, <1>4 DEF PaymentInfo
  <2>3. /\ file[me.name].card.keys = TRUE
        /\ file[me.name].card.cc_num = to_string(me.card.cc_num)
        /\ file[me.name].card.cc_exp = me.card.cc_exp
        /\ file[me.name].card.cc_cv2 = to_string(me.card.cc_cv2)
    BY <2>1 DEF to_string
  <2>. QED BY <1>3, <2>2, <2>3
<1>5. CASE ~ me.card.is_set
  <2>1. file[me.name].card.keys = FALSE /\ me.card.is_set = FALSE
    BY <1>1, <1>2, <1>5 DEF CardOnFile, UserFile, StoredCard, PaymentInfo
  <2>. QED BY <1>3, <2>1
<1>. QED BY <1>4, <1>5

-----------------------------------------------------------------------------
(* The stages of an order.                                                 *)

\* The abstract variables addr and card.
addrs == [u \in Users |-> file[u].addr]
cards == [u \in Users |-> file[u].card]

\* They are of the types the instance gives to Addresses and Cards.
LEMMA FilesType ==
    ASSUME TypeOK
    PROVE  addrs \in [Users -> StoredAddress] /\ cards \in [Users -> StoredCard]
BY DEF TypeOK, UserFile, addrs, cards

\* Which part of the records a step changes.
LEMMA FilesEffect ==
    ASSUME IInv, IInv', OnFile, Session
    PROVE  /\ LeavesUser \/ StoresUser => addrs' = addrs /\ cards' = cards
           /\ StoresAddress => cards' = cards
           /\ StoresCard => addrs' = addrs
<1>1. /\ TypeOK /\ me'.addr.parts \in {{}, Fields} /\ Users = Users'
      /\ me' \in [name : Users, addr : ShippingAddress, card : PaymentInfo]
  BY DEF IInv, TypeOK, AddressWhole
<1>2. AddressOnFile(me) /\ CardOnFile(me)
  BY DEF OnFile, Session
<1>3. ASSUME StoreUser(me'), me'.name = me.name, me'.addr = me.addr PROVE addrs' = addrs
  <2>1. AddressOnFile(me')
    BY <1>2, <1>3 DEF AddressOnFile
  <2>2. \A u \in Users : file'[u].addr = file[u].addr
    BY <1>1, <1>3, <2>1, StoreOnFile
  <2>. QED BY <2>2 DEF addrs
<1>4. ASSUME StoreUser(me'), me'.name = me.name, me'.card = me.card PROVE cards' = cards
  <2>1. CardOnFile(me')
    BY <1>2, <1>4 DEF CardOnFile
  <2>2. \A u \in Users : file'[u].card = file[u].card
    BY <1>1, <1>4, <2>1, StoreOnFile
  <2>. QED BY <2>2 DEF cards
<1>5. LeavesUser => addrs' = addrs /\ cards' = cards
  BY DEF LeavesUser, addrs, cards
<1>6. StoresUser => addrs' = addrs /\ cards' = cards
  BY <1>3, <1>4 DEF StoresUser
<1>7. StoresAddress => cards' = cards
  BY <1>4 DEF StoresAddress, IInv, TypeOK
<1>8. StoresCard => addrs' = addrs
  BY <1>3 DEF StoresCard, IInv, TypeOK
<1>. QED BY <1>5, <1>6, <1>7, <1>8

\* The steps of OrderStages, written with addrs and cards.
LEMMA AbstractSteps ==
    ASSUME TypeOK, TypeOK',
           \/ stage = "menu" /\ stage' = "menu"
           \/ stage' = "menu" /\ addrs' = addrs /\ cards' = cards
           \/ stage = "menu" /\ stage' = "orderaddr" /\ addrs' = addrs /\ cards' = cards
           \/ stage = "orderaddr" /\ stage' = "ordercc" /\ cards' = cards
           \/ stage = "ordercc" /\ stage' = "confirm" /\ addrs' = addrs
           \/ stage' = stage /\ addrs' = addrs /\ cards' = cards
    PROVE  [Abstract!Next]_<<stage, addrs, cards>>
<1>1. addrs' \in [Users -> StoredAddress] /\ cards' \in [Users -> StoredCard]
  BY DEF TypeOK, UserFile, addrs, cards
<1>. QED BY <1>1 DEF Abstract!Next, Abstract!Edit, Abstract!Checkout, Abstract!SettleAddress,
                     Abstract!SettleCard, Abstract!Leave, addrs, cards

\* The stage an order is in, by the prompt.
StageByPrompt ==
    /\ pc \in Menus \cup {"off", "login"} \/ caller = "account" => stage = "menu"
    /\ pc \in AddressPrompts \cup {"addr_ok", "keep_addr"} /\ caller = "order"
        => stage = "orderaddr"
    /\ pc = "use_addr" => stage = IF AddressSet(order.addr) THEN "ordercc" ELSE "orderaddr"
    /\ \/ pc \in {"use_card", "keep_card"}
       \/ pc \in {"num", "exp", "cv2", "card_ok"} /\ caller = "order"
       => stage = "ordercc"
    /\ pc = "confirm" => stage = "confirm"

LEMMA StageFacts == IInv => StageByPrompt
<1>. SUFFICES ASSUME IInv PROVE StageByPrompt
  OBVIOUS
<1>1. /\ pc \in {"use_addr", "keep_addr", "use_card", "keep_card", "confirm"} => caller = "order"
      /\ caller = "order" => caller # "account"
  BY DEF IInv, OrderSoFar
<1>2. pc \in Menus \cup {"off", "login"} \/ caller = "account" => stage = "menu"
  BY DEF stage
<1>3. pc \in AddressPrompts \cup {"addr_ok", "keep_addr"} /\ caller = "order"
        => stage = "orderaddr"
  BY DEF IInv, OrderSoFar, stage, Menus, AddressPrompts
<1>4. pc = "use_addr" => stage = IF AddressSet(order.addr) THEN "ordercc" ELSE "orderaddr"
  BY <1>1 DEF stage, Menus
<1>5. pc \in {"use_card", "keep_card"} => stage = "ordercc"
  BY <1>1 DEF IInv, OrderSoFar, stage, Menus
<1>6. pc \in {"num", "exp", "cv2", "card_ok"} /\ caller = "order" => stage = "ordercc"
  BY DEF IInv, OrderSoFar, stage, Menus
<1>7. pc = "confirm" => stage = "confirm"
  BY <1>1 DEF stage, Menus
<1>. QED BY <1>2, <1>3, <1>4, <1>5, <1>6, <1>7 DEF StageByPrompt

\* A step is a step of OrderStages or leaves its variables alone.
LEMMA StageStep ==
    ASSUME IInv, IInv', StageByPrompt, StageByPrompt', OnFile, Next
    PROVE  [Abstract!Next]_<<stage, addrs, cards>>
<1>1. TypeOK /\ TypeOK'
  BY DEF IInv
<1>2. CASE pc' = "off" /\ UNCHANGED file
  <2>1. stage' = "menu" /\ addrs' = addrs /\ cards' = cards
    BY <1>2 DEF StageByPrompt, addrs, cards
  <2>. QED BY <1>1, <2>1, AbstractSteps
<1>3. CASE (\E u \in Users : Login(u)) \/ LoginCard
  <2>1. pc \in {"off", "login"} /\ pc' \in {"login", "shell"}
    BY <1>3 DEF Login, LoginCard
  <2>2. stage = "menu" /\ stage' = "menu"
    BY <2>1 DEF StageByPrompt, Menus
  <2>. QED BY <1>1, <2>2, AbstractSteps
<1>4. CASE Crash \/ LoginFails \/ \E m \in Menus : Exit(m)
  BY <1>2, <1>4 DEF Crash, LoginFails, Exit, Off
<1>5. CASE \/ \E m \in Menus : OtherCommand(m)
           \/ \E m \in {"cart", "account"} : OpenMenu(m) \/ Back(m)
           \/ \E c \in {"addr", "pay"} : ChangeAccount(c)
           \/ AddToCart \/ RemoveItem \/ Clear
  <2>1. pc \in Menus
    BY <1>5 DEF OtherCommand, OpenMenu, Back, ChangeAccount, AddToCart, RemoveItem, Clear,
                Command, Menus
  <2>2. pc' \in Menus \/ caller' = "account"
    BY <1>5, <2>1 DEF OtherCommand, OpenMenu, Back, ChangeAccount, AddToCart, RemoveItem,
                      Clear, Menus
  <2>3. stage = "menu" /\ stage' = "menu"
    BY <2>1, <2>2 DEF StageByPrompt
  <2>. QED BY <1>1, <2>3, AbstractSteps
<1>6. CASE Checkout
  <2>1. pc = "cart" /\ UNCHANGED file /\ order' = NoOrder /\ pc' = orderaddr(me, order')
        /\ caller' = "order"
    BY <1>6 DEF Checkout, Command
  <2>2. ~ AddressSet(order'.addr)
    BY <2>1 DEF NoOrder, NoAddress, AddressSet, Fields
  <2>3. pc' \in {"use_addr", "name"}
    BY <2>1, <2>2, LabelFacts
  <2>4. stage = "menu" /\ stage' = "orderaddr"
    BY <2>1, <2>2, <2>3 DEF StageByPrompt, Menus, AddressPrompts
  <2>5. addrs' = addrs /\ cards' = cards
    BY <2>1 DEF addrs, cards
  <2>. QED BY <1>1, <2>4, <2>5, AbstractSteps
<1>7. CASE /\ caller = "account" /\ UNCHANGED caller
           /\ pc' \in Menus \/ caller' = "account"
  <2>1. stage = "menu" /\ stage' = "menu"
    BY <1>7 DEF StageByPrompt
  <2>. QED BY <1>1, <2>1, AbstractSteps
<1>8. CASE TextField \/ ZipField \/ RefuseAddress
  <2>1. pc \in AddressPrompts \cup {"addr_ok"}
    BY <1>8 DEF TextField, ZipField, RefuseAddress, AddressPrompts
  <2>2. LeaveAddressForm \/ Off \/ (pc \in AddressPrompts /\ \E l : NextField(l))
    BY <1>8 DEF TextField, ZipField, RefuseAddress, AddressPrompts
  <2>3. CASE Off
    BY <1>2, <2>3 DEF Off
  <2>4. CASE ~ Off
    <3>1. UNCHANGED <<caller, order, file>>
      BY <2>2, <2>4 DEF LeaveAddressForm, NextField
    <3>2. CASE caller = "order"
      <4>1. ~ AddressSet(order.addr)
        BY <2>1, <3>2 DEF IInv, OrderSoFar
      <4>2. pc' \in AddressPrompts \cup {"addr_ok", "use_addr"}
        <5>1. CASE LeaveAddressForm
          BY <3>2, <4>1, <5>1, LabelFacts DEF LeaveAddressForm, AddressPrompts
        <5>2. CASE pc \in AddressPrompts /\ \E l : NextField(l)
          BY <5>2 DEF NextField, NextPrompt, AddressPrompts
        <5>. QED BY <2>2, <2>4, <5>1, <5>2
      <4>3. stage = "orderaddr" /\ stage' = "orderaddr"
        BY <2>1, <3>1, <3>2, <4>1, <4>2 DEF StageByPrompt
      <4>4. addrs' = addrs /\ cards' = cards
        BY <3>1 DEF addrs, cards
      <4>. QED BY <1>1, <4>3, <4>4, AbstractSteps
    <3>3. CASE caller = "account"
      BY <1>7, <3>1, <3>3
    <3>. QED BY <1>1, <3>2, <3>3 DEF TypeOK
  <2>. QED BY <2>3, <2>4
<1>9. CASE AcceptAddress
  <2>1. pc = "addr_ok" /\ UNCHANGED caller
    BY <1>9 DEF AcceptAddress
  <2>2. CASE caller = "order"
    <3>1. pc' = "keep_addr" /\ UNCHANGED file
      BY <1>9, <2>2 DEF AcceptAddress
    <3>2. stage = "orderaddr" /\ stage' = "orderaddr"
      BY <2>1, <2>2, <3>1 DEF StageByPrompt
    <3>3. addrs' = addrs /\ cards' = cards
      BY <3>1 DEF addrs, cards
    <3>. QED BY <1>1, <3>2, <3>3, AbstractSteps
  <2>3. CASE caller = "account"
    BY <1>7, <2>1, <2>3
  <2>. QED BY <1>1, <2>2, <2>3 DEF TypeOK
<1>10. CASE KeepAddress
  <2>1. /\ pc = "keep_addr" /\ caller = "order" /\ AddressSet(order.addr)
        /\ form.parts = Fields /\ ~ order.card.is_set
    BY <1>10 DEF KeepAddress, IInv, OrderSoFar, FormParts, PartsAt
  <2>2. pc' = ordercc(me', order) /\ UNCHANGED <<caller, order>>
    BY <1>10 DEF KeepAddress
  <2>3. pc' \in {"use_card", "num"}
    BY <2>1, <2>2, LabelFacts
  <2>4. stage = "orderaddr" /\ stage' = "ordercc"
    BY <2>1, <2>2, <2>3 DEF StageByPrompt
  <2>5. LeavesUser \/ StoresAddress
    BY <1>10, <2>1 DEF KeepAddress, changeShippingAddress, LeavesUser, StoresAddress
  <2>6. cards' = cards
    BY <2>1, <2>5, FilesEffect DEF Session
  <2>. QED BY <1>1, <2>4, <2>6, AbstractSteps
<1>11. CASE UseAddress
  <2>1. /\ pc = "use_addr" /\ caller = "order" /\ UNCHANGED <<caller, file>>
        /\ pc' = AskAddress(me, order') /\ AddressSet(me.addr) /\ ~ order.card.is_set
    BY <1>11 DEF UseAddress, formVars, IInv, OrderSoFar
  <2>2. order'.card = order.card /\ (AddressSet(order.addr) => AddressSet(order'.addr))
    <3>1. order' = order \/ order' = [order EXCEPT !.addr = me.addr]
      BY <1>11 DEF UseAddress
    <3>. QED BY <2>1, <3>1 DEF IInv, TypeOK
  <2>3. /\ pc' \in {"name", "use_card", "num"}
        /\ pc' # "name" <=> AddressSet(order'.addr)
    BY <2>1, <2>2, LabelFacts
  <2>4. /\ stage \in {"orderaddr", "ordercc"} /\ stage' \in {"orderaddr", "ordercc"}
        /\ stage = "ordercc" => stage' = "ordercc"
    BY <2>1, <2>2, <2>3 DEF StageByPrompt, AddressPrompts
  <2>5. addrs' = addrs /\ cards' = cards
    BY <2>1 DEF addrs, cards
  <2>. QED BY <1>1, <2>4, <2>5, AbstractSteps
<1>12. CASE UseCard
  <2>1. /\ pc = "use_card" /\ caller = "order" /\ UNCHANGED <<caller, file>>
        /\ pc' \in {"num", "confirm"}
    BY <1>12, LabelFacts DEF UseCard, formVars, IInv, OrderSoFar
  <2>2. stage = "ordercc" /\ stage' \in {"ordercc", "confirm"}
    BY <2>1 DEF StageByPrompt
  <2>3. addrs' = addrs /\ cards' = cards
    BY <2>1 DEF addrs, cards
  <2>. QED BY <1>1, <2>2, <2>3, AbstractSteps
<1>13. CASE CardNumber \/ CardExpiry \/ CardCv2 \/ RefuseCard
  <2>1. pc \in {"num", "exp", "cv2", "card_ok"}
    BY <1>13 DEF CardNumber, CardExpiry, CardCv2, RefuseCard
  <2>2. \/ Off
        \/ LeaveCardForm(ordercc(me, order)) \/ LeaveCardForm(orderaddr(me, order))
        \/ /\ pc' \in {"exp", "cv2", "card_ok"}
           /\ UNCHANGED <<caller, order, file>>
    BY <1>13 DEF CardNumber, CardExpiry, CardCv2, RefuseCard
  <2>3. CASE Off
    BY <1>2, <2>3 DEF Off
  <2>4. CASE ~ Off
    <3>1. UNCHANGED <<caller, order, file>>
      BY <2>2, <2>4 DEF LeaveCardForm
    <3>2. CASE caller = "order"
      <4>1. AddressSet(order.addr) /\ ~ order.card.is_set
        BY <2>1, <3>2 DEF IInv, OrderSoFar
      <4>2. pc' \in {"use_addr", "use_card", "num", "exp", "cv2", "card_ok"}
        BY <2>2, <2>4, <3>2, <4>1, LabelFacts DEF LeaveCardForm
      <4>3. stage = "ordercc" /\ stage' = "ordercc"
        BY <2>1, <3>1, <3>2, <4>1, <4>2 DEF StageByPrompt
      <4>4. addrs' = addrs /\ cards' = cards
        BY <3>1 DEF addrs, cards
      <4>. QED BY <1>1, <4>3, <4>4, AbstractSteps
    <3>3. CASE caller = "account"
      BY <1>7, <3>1, <3>3
    <3>. QED BY <1>1, <3>2, <3>3 DEF TypeOK
  <2>. QED BY <2>3, <2>4
<1>14. CASE AcceptCard
  <2>1. pc = "card_ok" /\ UNCHANGED caller
    BY <1>14 DEF AcceptCard
  <2>2. CASE caller = "order"
    <3>1. pc' = "keep_card" /\ UNCHANGED file
      BY <1>14, <2>2 DEF AcceptCard
    <3>2. stage = "ordercc" /\ stage' = "ordercc"
      BY <2>1, <2>2, <3>1 DEF StageByPrompt
    <3>3. addrs' = addrs /\ cards' = cards
      BY <3>1 DEF addrs, cards
    <3>. QED BY <1>1, <3>2, <3>3, AbstractSteps
  <2>3. CASE caller = "account"
    BY <1>7, <2>1, <2>3
  <2>. QED BY <1>1, <2>2, <2>3 DEF TypeOK
<1>15. CASE KeepCard
  <2>1. pc = "keep_card" /\ pc' = "confirm" /\ (LeavesUser \/ StoresCard)
    BY <1>15 DEF KeepCard, changeCreditCard, LeavesUser, StoresCard
  <2>2. stage = "ordercc" /\ stage' = "confirm"
    BY <2>1 DEF StageByPrompt
  <2>3. addrs' = addrs
    BY <2>1, FilesEffect DEF Session
  <2>. QED BY <1>1, <2>2, <2>3, AbstractSteps
<1>16. CASE Decline \/ PlaceOrder
  <2>1. pc = "confirm" /\ pc' \in {"cart", "shell"} /\ (LeavesUser \/ StoresUser)
    BY <1>16 DEF Decline, PlaceOrder, LeavesUser, StoresUser
  <2>2. stage' = "menu"
    BY <2>1 DEF StageByPrompt, Menus
  <2>3. addrs' = addrs /\ cards' = cards
    BY <2>1, FilesEffect DEF Session
  <2>. QED BY <1>1, <2>2, <2>3, AbstractSteps
<1>. QED BY <1>3, <1>4, <1>5, <1>6, <1>8, <1>9, <1>10, <1>11, <1>12, <1>13, <1>14, <1>15,
            <1>16 DEF Next, Step

-----------------------------------------------------------------------------
(* Theorems.                                                               *)

\* The inductive invariant holds in every state of every session.
LEMMA Invariant == Spec => []IInv
BY InitIInv, NextIInv, PTL DEF Spec

\* And so does what it says of the record on disk.
LEMMA RecordInvariant == Spec => []OnFile
BY Invariant, InitOnFile, NextOnFile, PTL DEF Spec

\* The variables of the dialogue keep their types: the postal code, the card
\* number and the CV2 fit their unsigned integers, in memory and in orders.
THEOREM DialogTypes == Spec => []TypeOK
<1>1. IInv => TypeOK
  BY DEF IInv
<1>. QED BY <1>1, Invariant, PTL

\* No address with some of its parts gets out of a form, so that storeUser,
\* which writes all six keys if one part is set, never writes a part that was
\* not entered.
THEOREM AddressesWhole == Spec => []AddressWhole
<1>1. IInv => AddressWhole
  BY DEF IInv
<1>. QED BY <1>1, Invariant, PTL

\* After every login, form and answer, the keys of the record on disk hold the
\* address, card number, expiration date and CV2 that are in memory.  It is a
\* theorem about what storeUser has written, not about a later login, which
\* takes the CV2 from cc_exp.
THEOREM FileMatches == Spec => []FileMatchesMemory
BY RecordInvariant, Invariant, OnFileMatches, PTL

\* "Place order [Y/n]?" is only asked of an order with address and card.
THEOREM OrdersComplete == Spec => []OrderComplete
<1>1. IInv => OrderComplete
  BY DEF IInv, OrderSoFar, OrderComplete
<1>. QED BY <1>1, Invariant, PTL

\* The dialogue implements OrderStages: however often a form is started over,
\* a card refused or an answer waits in the input, an order goes from the menu
\* to its address, its card and its confirmation, and only what is being
\* settled is written to the users database.
THEOREM DialogImplementsStages == Spec => ImplementsStages
<1>1. Init => Abstract!Init
  <2>. SUFFICES ASSUME Init PROVE Abstract!Init
    OBVIOUS
  <2>1. stage = "menu"
    BY DEF Init, stage
  <2>2. addrs \in [Users -> StoredAddress] /\ cards \in [Users -> StoredCard]
    BY InitIInv, FilesType DEF IInv
  <2>. QED BY <2>1, <2>2 DEF Abstract!Init, addrs, cards
<1>2. IInv /\ IInv' /\ StageByPrompt /\ StageByPrompt' /\ OnFile /\ [Next]_vars
        => [Abstract!Next]_<<stage, addrs, cards>>
  <2>. SUFFICES ASSUME IInv, IInv', StageByPrompt, StageByPrompt', OnFile, [Next]_vars
                PROVE  [Abstract!Next]_<<stage, addrs, cards>>
    OBVIOUS
  <2>1. CASE Next
    BY <2>1, StageStep
  <2>2. CASE UNCHANGED vars
    BY <2>2 DEF vars, formVars, stage, addrs, cards
  <2>. QED BY <2>1, <2>2
<1>3. Spec => []StageByPrompt
  BY Invariant, StageFacts, PTL
<1>4. Spec => [][Abstract!Next]_<<stage, addrs, cards>>
  BY <1>2, <1>3, Invariant, RecordInvariant, PTL DEF Spec
<1>5. Spec => Abstract!Init
  BY <1>1 DEF Spec
<1>. QED BY <1>4, <1>5, PTL DEF ImplementsStages, Abstract!Spec, addrs, cards

=============================================================================
