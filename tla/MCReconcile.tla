---------------------------- MODULE MCReconcile ----------------------------
(***************************************************************************)
(* Reconcile by itself, with sets large enough to find what a frame hides. *)
(***************************************************************************)
EXTENDS Reconcile

=============================================================================
