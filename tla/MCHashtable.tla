---------------------------- MODULE MCHashtable ----------------------------
(* Model values for checking Hashtable. *)
EXTENDS Hashtable

CONSTANTS x, y, z
=============================================================================
