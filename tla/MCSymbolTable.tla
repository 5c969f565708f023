--------------------------- MODULE MCSymbolTable ---------------------------
(* Model values for checking SymbolTable and its refinement of Scoping. *)
EXTENDS SymbolTableScoping

CONSTANTS x, y
=============================================================================
