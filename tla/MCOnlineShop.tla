---------------------------- MODULE MCOnlineShop ----------------------------
(***************************************************************************)
(* Values of the constants of OnlineShop for TLC.                          *)
(***************************************************************************)
EXTENDS OnlineShop

OneOfEach == [s \in SKU |-> 1]
TwoOfEach == [s \in SKU |-> 2]

\* Users such as testuser003, without orders and with an empty cart.
Newcomers == [u \in Users |-> BlankRecord]

NoOrders == [t \in {} |-> EmptyList]

\* Users of whom one, such as testuser001, has ordered before.
OldTID == CHOOSE t \in TIDs : TRUE

OneRegular ==
    [u \in Users |-> IF u = AnyUser THEN [cart |-> EmptyList, orders |-> <<OldTID>>]
                     ELSE BlankRecord]

OneOrder == [t \in {OldTID} |-> [s \in SKU |-> 1]]

\* Processes and the ids of new transactions are only ever compared.
Interchangeable == Permutations(Procs) \cup Permutations(TIDs \ DOMAIN SampleOrders)

=============================================================================
