----------------------------- MODULE MCCodegen -----------------------------
(* Model values for checking Codegen. *)
EXTENDS Codegen
=============================================================================
