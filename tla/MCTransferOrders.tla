-------------------------- MODULE MCTransferOrders --------------------------
(* A small instance of TransferOrders for TLC. *)
EXTENDS TransferOrders
=============================================================================
