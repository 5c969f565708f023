------------------------------ MODULE MCIrPass ------------------------------
(* Model values for checking both passes. *)
EXTENDS IrPass, TLC

CONSTANTS x, y

\* The names are interchangeable where none of them is a library function.
NameSymmetry == Permutations({x, y})
=============================================================================
