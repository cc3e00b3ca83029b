-------------------------- MODULE MCCheckoutDialog --------------------------
(***************************************************************************)
(* Values of the constants of CheckoutDialog for TLC.                      *)
(***************************************************************************)
EXTENDS CheckoutDialog

\* The first three users as --init writes them, and one who has entered a card
\* with an expiration date like "June 2020".
Records ==
    [testuser001 |->
        [addr |-> [keys |-> Fields, zip |-> Number(1)],
         card |-> [keys |-> TRUE, cc_num |-> Number(2), cc_exp |-> Date(0),
                   cc_cv2 |-> Number(1)]],
     testuser002 |->
        [addr |-> [keys |-> Fields, zip |-> Word], card |-> NoStoredCard],
     testuser003 |->
        [addr |-> NoStoredAddress, card |-> NoStoredCard],
     testuser004 |->
        [addr |-> NoStoredAddress,
         card |-> [keys |-> TRUE, cc_num |-> Number(2), cc_exp |-> Word,
                   cc_cv2 |-> Number(1)]]]

Files == [u \in Users |-> Records[u]]

\* What is typed for text: a name, or also one that begins with an n.
Names == {Word}
Anything == {Word, No}

\* What is typed for numbers: numbers that fit, that the cast to unsigned int
\* cuts, and that are too long for unsigned long.
ShortNumbers == {Number(1), Word}
AnyNumbers == {Number(1), Number(ULongMax), Number(ULongMax + 1), Word}

\* What is typed for the expiration date, "06/20" or "June 2020".
Dates == {Date(1)}
Months == {Word}

=============================================================================
