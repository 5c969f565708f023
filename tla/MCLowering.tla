----------------------------- MODULE MCLowering -----------------------------
(* Model values for checking LoweringRuns. *)
EXTENDS LoweringRuns
=============================================================================
