------------------------------- MODULE MCRows -------------------------------
(* RowDelivery for TLC. *)
EXTENDS RowDelivery
=============================================================================
