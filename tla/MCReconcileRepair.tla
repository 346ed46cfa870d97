-------------------------- MODULE MCReconcileRepair --------------------------
(* Constants for model checking ReconcileRepair: those of the transaction. *)
EXTENDS MCReconcileTransaction, ReconcileRepair
=============================================================================
