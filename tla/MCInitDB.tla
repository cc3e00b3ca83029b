------------------------------ MODULE MCInitDB ------------------------------
(***************************************************************************)
(* Values of the constants of InitDB for TLC.                              *)
(***************************************************************************)
EXTENDS InitDB

\* Two users, of whom one has ordered before, two products and one order.
SmallSample ==
    [users |-> {"testuser001", "testuser003"}, products |-> {"upc1", "upc2"},
     orders |-> {"order1"}]

FirstHasOrdered ==
    [u \in Users |-> IF u = "testuser001" THEN {"order1"} ELSE {}]

OneNewOrder == {"order2"}

=============================================================================
