---------------------------- MODULE MCDriverCache ----------------------------
(* DriverCache for TLC; its liveness property rules out symmetry. *)
EXTENDS DriverCache

=============================================================================
