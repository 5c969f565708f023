------------------------------ MODULE MCDriver ------------------------------
(* Model values for checking a whole run of the compiler. *)
EXTENDS Driver

CONSTANTS x, y
=============================================================================
