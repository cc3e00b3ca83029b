---------------------------- MODULE MCSessionCart ---------------------------
(***************************************************************************)
(* SessionCart with the values of MCOnlineShop for TLC.                    *)
(***************************************************************************)
EXTENDS SessionCart, MCOnlineShop

=============================================================================
