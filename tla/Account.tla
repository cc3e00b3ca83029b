------------------------------ MODULE Account ------------------------------
(***************************************************************************)
(* Address and card of a user: what is typed, what is in memory, what      *)
(* storeUser writes and what getUser makes of it at the next login.        *)
(*                                                                         *)
(* A line of text is reduced to what the code can tell of it: whether it   *)
(* is blank, whether it begins with an n, and what stoul makes of it.      *)
(* Stored text and typed text are the same kind of thing.                  *)
(***************************************************************************)
EXTENDS Naturals, Sequences

CONSTANTS
    UIntMax,    \* largest unsigned int
    ULongMax    \* largest unsigned long

ASSUME WidthAssumption ==
    /\ UIntMax \in Nat \ {0}
    /\ ULongMax \in Nat
    /\ UIntMax <= ULongMax

UInt == 0 .. UIntMax
ULong == 0 .. ULongMax

\* Mutant of Cast: the number is kept.
CastNone(n) == n

\* The conversion of an unsigned long to unsigned int.
Cast(n) == n % (UIntMax + 1)

-----------------------------------------------------------------------------
(* Lines.                                                                  *)

Commands ==
    {"addtocart", "cart", "account", "exit", "back", "remove", "clear", "checkout",
     "addr", "pay"}

Line == [kind : {"blank", "no", "word", "number", "date"} \cup Commands,
         value : Nat]

Text(k)   == [kind |-> k, value |-> 0]
Blank     == Text("blank")      \* nothing but white space, or nothing at all
No        == Text("no")         \* begins with n or N
Word      == Text("word")       \* neither of these, and no number
Number(n) == [kind |-> "number", value |-> n]     \* digits, as of to_string
Date(n)   == [kind |-> "date", value |-> n]       \* "06/20": digits and more

\* stoul converts the digits a line begins with, throws invalid_argument if
\* there are none and out_of_range if they are too many.
Converts(l) == l.kind \in {"number", "date"}
Fits(l) == l.value <= ULongMax
stoul(l) == l.value
to_string(n) == Number(n)

-----------------------------------------------------------------------------
(* Addresses and cards.  Of the fields of an address only the postal code  *)
(* is more than text; the others are kept as being set or not.             *)

Fields == {"name", "street", "city", "state", "zip", "country"}

\* parts_set and zip; zip is uninitialized, here 0, until it is set.
ShippingAddress == [parts : SUBSET Fields, zip : UInt]

NoAddress == [parts |-> {}, zip |-> 0]

change(a, f, l) ==
    [parts |-> a.parts \cup {f},
     zip   |-> IF f = "zip" THEN Cast(stoul(l)) ELSE a.zip]

AddressSet(a) == a.parts = Fields

PaymentInfo == [is_set : BOOLEAN, cc_num : ULong, cc_exp : Line, cc_cv2 : UInt]

NoCard == [is_set |-> FALSE, cc_num |-> 0, cc_exp |-> Blank, cc_cv2 |-> 0]

Card(num, exp, cv2) ==
    [is_set |-> TRUE, cc_num |-> num, cc_exp |-> exp, cc_cv2 |-> cv2]

-----------------------------------------------------------------------------
(* The record of a user in the users database.                             *)

StoredAddress == [keys : SUBSET Fields, zip : Line]
StoredCard == [keys : BOOLEAN, cc_num : Line, cc_exp : Line, cc_cv2 : Line]
UserFile == [addr : StoredAddress, card : StoredCard]

NoStoredAddress == [keys |-> {}, zip |-> Blank]
NoStoredCard == [keys |-> FALSE, cc_num |-> Blank, cc_exp |-> Blank, cc_cv2 |-> Blank]

\* storeUser tests parts_set && S_NAME_SET and so on with a logical and: one
\* part that is set has all six written, a zip nobody set with any value.
\* A batch without the keys leaves what is there.
storeAddress(old, a) ==
    IF a.parts = {} THEN {old}
    ELSE {[keys |-> Fields, zip |-> to_string(z)] :
            z \in IF "zip" \in a.parts THEN {a.zip} ELSE UInt}

storeCard(old, c) ==
    IF ~ c.is_set THEN old
    ELSE [keys |-> TRUE, cc_num |-> to_string(c.cc_num), cc_exp |-> c.cc_exp,
          cc_cv2 |-> to_string(c.cc_cv2)]

\* Whether getUser comes through the stoul of the stored postal code, and of
\* the stored card, where it converts cc_exp a second time instead of cc_cv2.
LoadsAddress(d) == "zip" \in d.keys => Converts(d.zip) /\ Fits(d.zip)
LoadsCard(d) ==
    d.keys => /\ Converts(d.cc_num) /\ Fits(d.cc_num)
              /\ Converts(d.cc_exp) /\ Fits(d.cc_exp)

\* Whether a login comes through both.
Loads(f) == LoadsAddress(f.addr) /\ LoadsCard(f.card)

loadAddress(d) ==
    [parts |-> d.keys, zip |-> IF "zip" \in d.keys THEN Cast(stoul(d.zip)) ELSE 0]

loadCard(d) ==
    IF d.keys THEN Card(stoul(d.cc_num), d.cc_exp, Cast(stoul(d.cc_exp))) ELSE NoCard

=============================================================================
