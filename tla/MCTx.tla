-------------------------------- MODULE MCTx --------------------------------
(* TxExecutor for TLC. *)
EXTENDS TxExecutor
=============================================================================
