------------------------------ MODULE MCKoopa ------------------------------
(* What the programs for checking Koopa are made of. *)
EXTENDS Koopa, TLC

Code == "function" :> 1 @@ "block" :> 1

Variable   == Code @@ "alloc" :> 1 @@ "load" :> 4
Arithmetic == Code @@ "integer" :> 1 @@ "alloc" :> 1 @@ "store" :> 1 @@ "binary" :> 1
Branches   == "function" :> 1 @@ "block" :> 2 @@ "integer" :> 1 @@ "branch" :> 1
Jumps      == "function" :> 1 @@ "block" :> 2 @@ "jump" :> 2
Calls      == Code @@ "func_arg_ref" :> 1 @@ "integer" :> 1 @@ "call" :> 1
Globals    == Code @@ "zero_init" :> 1 @@ "global_alloc" :> 1 @@ "return" :> 1
Returns    == Code @@ "integer" :> 1 @@ "return" :> 1
Many       == "integer" :> 12      \* more than the area has room for

AllMenus == {Variable, Arithmetic, Branches, Jumps, Calls, Globals, Returns, Many}
=============================================================================
