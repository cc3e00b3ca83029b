------------------------- MODULE TypedNumbersProofs -------------------------
(***************************************************************************)
(* Theorems about TypedNumbers, for integers of any width, histories of    *)
(* any length below the largest int, and any lines typed.                  *)
(***************************************************************************)
EXTENDS TypedNumbers, TLAPS

-----------------------------------------------------------------------------
(* The conversions.                                                        *)

\* The cast of a number stoul returned is an unsigned int.
LEMMA CastIsUInt ==
    ASSUME NEW n \in Nat
    PROVE  Cast(n) \in UInt
<1>1. UIntMax \in Nat /\ UIntMax + 1 > 0
  BY WidthAssumption
<1>2. n % (UIntMax + 1) \in 0 .. UIntMax
  BY <1>1
<1>. QED BY <1>2 DEF Cast, UInt

\* The remainder of a number that is at most one modulus away.
LEMMA Wraps ==
    ASSUME NEW m \in Nat, m > 0, NEW i \in Int, - m <= i, i < m
    PROVE  i % m = IF i >= 0 THEN i ELSE i + m
<1>1. CASE i >= 0
  BY <1>1
<1>2. CASE i < 0
  BY <1>2
<1>. QED BY <1>1, <1>2

\* The largest int is above every length of a history.
LEMMA HalfRange ==
    /\ IntMin \in Int
    /\ MaxOrders <= - IntMin - 1
    /\ 2 * (- IntMin) <= UIntMax + 1
    /\ UIntMax + 1 <= 2 * (- IntMin) + 1
<1>1. UIntMax \in Nat /\ MaxOrders \in Nat /\ 2 * MaxOrders < UIntMax
  BY WidthAssumption, TypedAssumption
<1>2. PICK h \in Int : h = (UIntMax + 1) \div 2
  BY <1>1
<1>3. 2 * h <= UIntMax + 1 /\ UIntMax + 1 <= 2 * h + 1
  BY <1>1, <1>2
<1>. QED BY <1>1, <1>2, <1>3 DEF IntMin

\* Each of the values t_idx-1 can have, as an index of vector::at: one less
\* than the number if that is a place in the history, else out of bounds.
LEMMA IndexOfOrder ==
    ASSUME NEW c \in UInt, NEW i \in MinusOne(ToInt(c)), NEW n \in 0 .. MaxOrders
    PROVE  /\ ToSize(i) \in Nat
           /\ ToSize(i) < n <=> c \in 1 .. n
           /\ c \in 1 .. n => ToSize(i) + 1 = c
<1>. DEFINE h == - IntMin
            m == ULongMax + 1
<1>1. /\ UIntMax \in Nat /\ ULongMax \in Nat /\ UIntMax <= ULongMax /\ MaxOrders \in Nat
      /\ c \in Nat /\ c <= UIntMax /\ n \in Nat /\ n <= MaxOrders
  BY WidthAssumption, TypedAssumption DEF UInt
<1>2. h \in Int /\ IntMin = - h /\ MaxOrders <= h - 1
      /\ 2 * h <= UIntMax + 1 /\ UIntMax + 1 <= 2 * h + 1
  BY HalfRange
<1>3. m \in Nat /\ m > 0 /\ m >= UIntMax + 1
  BY <1>1
<1>. HIDE DEF h, m
<1>4. CASE c < h /\ c > 0
  <2>1. ToInt(c) = c /\ c # IntMin
    BY <1>1, <1>2, <1>4 DEF ToInt
  <2>2. i = c - 1
    BY <2>1 DEF MinusOne
  <2>3. i % m = c - 1
    BY <1>1, <1>2, <1>3, <1>4, <2>2, Wraps
  <2>. QED BY <1>1, <1>4, <2>3 DEF ToSize, m
<1>5. CASE c = 0
  <2>1. ToInt(c) = 0 /\ 0 # IntMin
    BY <1>1, <1>2, <1>5 DEF ToInt
  <2>2. i = - 1
    BY <2>1 DEF MinusOne
  <2>3. i % m = m - 1
    BY <1>1, <1>3, <2>2, Wraps
  <2>. QED BY <1>1, <1>2, <1>3, <1>5, <2>3 DEF ToSize, m
<1>6. CASE c >= h
  <2>1. ToInt(c) = c - (UIntMax + 1)
    BY <1>1, <1>2, <1>6 DEF ToInt
  <2>2. i \in Int /\ - m <= i /\ i < m /\ (i >= h - 1 \/ (i < 0 /\ i + m >= h - 1))
    <3>1. CASE ToInt(c) = IntMin
      <4>1. i = h - 1 \/ i = - h - 1
        BY <1>2, <3>1 DEF MinusOne
      <4>. QED BY <1>1, <1>2, <1>3, <4>1
    <3>2. CASE ToInt(c) # IntMin
      <4>1. i = c - (UIntMax + 1) - 1
        BY <2>1, <3>2 DEF MinusOne
      <4>. QED BY <1>1, <1>2, <1>3, <1>6, <4>1
    <3>. QED BY <3>1, <3>2
  <2>3. i % m \in Nat /\ i % m >= h - 1
    <3>1. i % m = IF i >= 0 THEN i ELSE i + m
      BY <1>3, <2>2, Wraps
    <3>. QED BY <1>1, <1>2, <1>3, <2>2, <3>1
  <2>. QED BY <1>1, <1>2, <1>6, <2>3 DEF ToSize, m
<1>. QED BY <1>1, <1>2, <1>4, <1>5, <1>6

-----------------------------------------------------------------------------
(* The actions keep the invariant.                                         *)

\* The entry in the cart has an up-to-date copy of the product and the quantity
\* typed last, cut to an unsigned int; at the checkout there are enough.
CartAsTyped ==
    /\ cart # {} => cart = {[onHand |-> onHand, qty |-> Cast(asked)]}
    /\ pc = "checkout" => cart # {} /\ Cast(asked) <= onHand

IInv == TypeOK /\ CartAsTyped /\ ShowsListedOrder /\ StockAsTyped

LEMMA InitIInv == Init => IInv
<1>1. MaxOrders \in Nat /\ ULongMax \in Nat /\ Stock \in UInt /\ Stock \in Nat
  BY WidthAssumption, TypedAssumption DEF UInt
<1>. QED BY <1>1 DEF Init, IInv, TypeOK, CartAsTyped, ShowsListedOrder, StockAsTyped, ULong

\* A menu opens with no order shown.
LEMMA GotoIInv ==
    ASSUME IInv, NEW x \in {"shell", "cart", "orders"}, Goto(x)
    PROVE  IInv'
<1>1. MaxOrders \in Nat /\ ULongMax \in Nat /\ UIntMax \in Nat
  BY WidthAssumption, TypedAssumption
<1>2. Cast(0) = 0
  BY <1>1, Wraps DEF Cast
<1>3. TypeOK'
  BY <1>1 DEF IInv, TypeOK, Goto, ULong
<1>4. CartAsTyped'
  BY DEF IInv, CartAsTyped, Goto
<1>5. ShowsListedOrder'
  BY <1>1, <1>2 DEF IInv, TypeOK, Goto, ShowsListedOrder
<1>6. StockAsTyped'
  BY DEF IInv, Goto, StockAsTyped
<1>. QED BY <1>3, <1>4, <1>5, <1>6 DEF IInv

\* addtocart and changeqty.
LEMMA QuantityIInv ==
    ASSUME IInv, NEW l \in Typed, AddToCart(l) \/ ChangeQty(l)
    PROVE  IInv'
<1>1. stoul(l) \in ULong /\ stoul(l) \in Nat
  BY WidthAssumption, TypedAssumption
     DEF AddToCart, ChangeQty, Put, Fits, stoul, ULong, Line
<1>2. Cast(stoul(l)) \in UInt
  BY <1>1, CastIsUInt
<1>3. /\ cart' = {[onHand |-> onHand, qty |-> Cast(stoul(l))]} /\ asked' = stoul(l)
      /\ pc \in {"shell", "cart"}
      /\ UNCHANGED <<pc, onHand, size, shown, sold, index>>
  BY DEF AddToCart, ChangeQty, Put
<1>4. TypeOK'
  BY <1>1, <1>2, <1>3 DEF IInv, TypeOK, Item
<1>. QED BY <1>3, <1>4 DEF IInv, CartAsTyped, ShowsListedOrder, StockAsTyped

\* The subtraction does not wrap around, and is from what is on hand.
LEMMA PlaceOrderIInv ==
    ASSUME IInv, PlaceOrder
    PROVE  IInv'
<1>0. MaxOrders \in Nat /\ ULongMax \in Nat /\ UIntMax \in Nat
  BY WidthAssumption, TypedAssumption
<1>. DEFINE q == Cast(asked)
<1>1. q \in UInt /\ onHand \in UInt /\ sold \in Nat
  BY <1>0, CastIsUInt DEF IInv, TypeOK, ULong
<1>2. cart = {[onHand |-> onHand, qty |-> q]} /\ q <= onHand
  BY DEF IInv, CartAsTyped, PlaceOrder
<1>3. onHand' = Cast(onHand - q) /\ sold' = sold + q
  BY <1>2 DEF PlaceOrder, Charge
<1>. HIDE DEF q
<1>4. /\ UIntMax + 1 \in Nat /\ UIntMax + 1 > 0 /\ onHand - q \in Int
      /\ 0 <= onHand - q /\ onHand - q < UIntMax + 1 /\ - (UIntMax + 1) <= onHand - q
  BY <1>0, <1>1, <1>2 DEF UInt
<1>5. onHand' = onHand - q
  BY <1>3, <1>4, Wraps DEF Cast
<1>6. onHand' \in UInt /\ sold' \in Nat /\ onHand' + sold' = onHand + sold
  BY <1>0, <1>1, <1>2, <1>3, <1>5 DEF UInt
<1>7. /\ pc' = "shell" /\ cart' = {} /\ asked' = 0 /\ size' = size + 1
      /\ size < MaxOrders /\ UNCHANGED <<shown, index>>
  BY DEF PlaceOrder
<1>8. TypeOK'
  BY <1>0, <1>6, <1>7 DEF IInv, TypeOK, ULong
<1>. QED BY <1>6, <1>7, <1>8 DEF IInv, CartAsTyped, ShowsListedOrder, StockAsTyped

LEMMA ViewIInv ==
    ASSUME IInv, NEW l \in Typed, ViewOrder(l)
    PROVE  IInv'
<1>1. stoul(l) \in ULong /\ stoul(l) \in Nat
  BY WidthAssumption, TypedAssumption DEF ViewOrder, Fits, stoul, ULong, Line
<1>. DEFINE c == Cast(stoul(l))
<1>2. c \in UInt
  BY <1>1, CastIsUInt
<1>3. PICK i \in MinusOne(ToInt(c)) :
        shown' = IF InBounds(ToSize(i)) THEN ToSize(i) + 1 ELSE 0
  BY DEF ViewOrder
<1>4. size \in 0 .. MaxOrders /\ MaxOrders \in Nat
  BY TypedAssumption DEF IInv, TypeOK
<1>5. /\ ToSize(i) \in Nat
      /\ InBounds(ToSize(i)) <=> c \in 1 .. size
      /\ c \in 1 .. size => ToSize(i) + 1 = c
  BY <1>2, <1>4, IndexOfOrder DEF InBounds
<1>6. shown' = IF c \in 1 .. size THEN c ELSE 0
  BY <1>3, <1>5
<1>7. /\ index' = stoul(l) /\ pc = "orders"
      /\ UNCHANGED <<pc, onHand, cart, size, asked, sold>>
  BY DEF ViewOrder
<1>8. shown' \in 0 .. MaxOrders
  BY <1>4, <1>6
<1>9. TypeOK'
  BY <1>1, <1>7, <1>8 DEF IInv, TypeOK
<1>10. ShowsListedOrder'
  BY <1>6, <1>7 DEF ShowsListedOrder
<1>. QED BY <1>7, <1>9, <1>10 DEF IInv, CartAsTyped, StockAsTyped

LEMMA NextIInv == IInv /\ [Next]_vars => IInv'
<1>. SUFFICES ASSUME IInv, [Next]_vars PROVE IInv'
  OBVIOUS
<1>. USE DEF IInv
<1>0. MaxOrders \in Nat /\ ULongMax \in Nat
  BY WidthAssumption, TypedAssumption
<1>1. CASE \E x \in {"shell", "cart", "orders"} : Goto(x)
  BY <1>1, GotoIInv
<1>2. CASE \E l \in Typed : AddToCart(l) \/ ChangeQty(l) \/ ViewOrder(l)
  BY <1>2, QuantityIInv, ViewIInv
<1>3. CASE TooLong
  BY <1>3 DEF TooLong, TypeOK, CartAsTyped, ShowsListedOrder, StockAsTyped
<1>4. CASE RemoveItem
  BY <1>0, <1>4
     DEF RemoveItem, TakeOut, TypeOK, CartAsTyped, ShowsListedOrder, StockAsTyped, ULong
<1>5. CASE Clear
  BY <1>0, <1>5
     DEF Clear, TakeOut, TypeOK, CartAsTyped, ShowsListedOrder, StockAsTyped, ULong
<1>6. CASE Checkout
  <2>1. cart # {} /\ Cast(asked) <= onHand
    BY <1>6 DEF Checkout, CartAsTyped
  <2>. QED BY <1>6, <2>1
           DEF Checkout, TypeOK, CartAsTyped, ShowsListedOrder, StockAsTyped
<1>7. CASE PlaceOrder
  BY <1>7, PlaceOrderIInv
<1>8. CASE UNCHANGED vars
  BY <1>8 DEF vars, TypeOK, CartAsTyped, ShowsListedOrder, StockAsTyped
<1>. QED BY <1>1, <1>2, <1>3, <1>4, <1>5, <1>6, <1>7, <1>8 DEF Next

-----------------------------------------------------------------------------
(* The theorems.                                                           *)

LEMMA Invariant == Spec => []IInv
BY InitIInv, NextIInv, PTL DEF Spec

\* The quantities of main.cpp's carts are unsigned ints and the viewer never
\* displays an order beyond the end of transaction_list.
THEOREM NumberTypes == Spec => []TypeOK
<1>1. IInv => TypeOK
  BY DEF IInv
<1>. QED BY <1>1, Invariant, PTL

\* The index of the order viewer survives unsigned int, int, the subtraction
\* and size_t (main.cpp): for integers of every width and for every history
\* shorter than the largest int, the order shown is the one listed under the
\* number typed, cut to an unsigned int, and vector::at throws for all others.
THEOREM ViewerShowsListedOrder == Spec => []ShowsListedOrder
<1>1. IInv => ShowsListedOrder
  BY DEF IInv
<1>. QED BY <1>1, Invariant, PTL

\* For integers of every width and all lines typed, the orders of a session take
\* from the stock what was typed last for each, cut to an unsigned int, and
\* nothing else: chargeCreditCard subtracts from the copy of the product in the
\* cart, and that copy is never out of date, because an order empties the cart,
\* nor smaller than what is asked for.
THEOREM StockGoesAsTyped == Spec => []StockAsTyped
<1>1. IInv => StockAsTyped
  BY DEF IInv
<1>. QED BY <1>1, Invariant, PTL

=============================================================================
