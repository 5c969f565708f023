------------------------------- MODULE Frame -------------------------------
(***************************************************************************)
(* Where the code generator (src/src/codegen.c) puts things: the registers *)
(* of the values of a basic block and the slots of a function's stack      *)
(* frame, counted in words from sp upwards.                                *)
(*                                                                         *)
(* A function is the record of the counts that function_prologue takes:    *)
(*   params  its parameters                                                *)
(*   allocs  its variables, the parameters first                           *)
(*   vals    the most values of type int that one of its blocks computes   *)
(*   args    the most arguments that the calls of one of its blocks pass   *)
(*                                                                         *)
(* A value of a block has an index, 0, 1, ... in the order of computation, *)
(* and with it a register: t registers first, then the a registers that no *)
(* call of the function needs.  A value with a higher index has a slot.    *)
(***************************************************************************)
EXTENDS Integers

CONSTANTS T_MAX,    \* t registers for values: 5; the next two are for spilling
          A_MAX,    \* a registers: 8
          WRAP      \* slots are reckoned with unsigned integers, modulo WRAP

ASSUME FrameAssumption == T_MAX \in Nat /\ A_MAX \in Nat /\ WRAP \in Nat \ {0}

R_MAX == T_MAX + A_MAX

T(i) == <<"t", i>>
A(i) == <<"a", i>>
X0   == <<"x", 0>>      \* the constant 0

Function == [params : Nat, allocs : Nat, vals : Nat, args : Nat]

Least(i, j)   == IF i < j THEN i ELSE j
Excess(i, j)  == IF i > j THEN i - j ELSE 0

saved_regs(fn) == Least(fn.vals, R_MAX)
spill_vals(fn) == Excess(fn.vals, R_MAX)
regst_args(fn) == Least(fn.args, A_MAX)

\* slip: what a call passes on the stack has no room of its own
spill_args_None(fn) == 0

spill_args(fn) == Excess(fn.args, A_MAX)

\* Parameters that come on the stack stay where the caller put them.
par_spill(fn) == Excess(fn.params, A_MAX)
var_count(fn) == fn.allocs - par_spill(fn)
-----------------------------------------------------------------------------
\* The first index that has no register.
RegisterEnd(fn) == R_MAX - regst_args(fn)

\* slip: the a registers are handed out from a0 on
ValueRegister_FromA0(fn, i) == IF i < T_MAX THEN T(i) ELSE A(i - T_MAX)

ValueRegister(fn, i) == IF i < T_MAX THEN T(i) ELSE A(i - T_MAX + fn.args)

\* The register for the value of the k-th operand, k = 0 or 1, if it has none.
Scratch(k) == T(T_MAX + k)

\* A call saves the value with index i, if it saves it, from this register.
SavedRegister(i) == IF i < T_MAX THEN T(i) ELSE A(i - T_MAX)
-----------------------------------------------------------------------------
\* The slots, from low to high.
ArgumentSlot(j) == j - A_MAX                       \* of the outgoing argument j
SavedSlot(fn, i) == i + spill_args(fn)
VariableSlot(fn, n) == saved_regs(fn) + spill_args(fn) + n

OutSlot(fn, i) == (i - R_MAX + var_count(fn) + saved_regs(fn) + spill_args(fn)) % WRAP

\* slip: the spilled values are forgotten
Total_NoValues(fn) == 1 + var_count(fn) + saved_regs(fn) + spill_args(fn)

Total(fn) == 4 + spill_vals(fn) + var_count(fn) + saved_regs(fn) + spill_args(fn)

\* Four words, 16 bytes, is the alignment.
stack_size(fn) == 4 * ((Total(fn) + 3) \div 4)

RaSlot(fn) == stack_size(fn) - 1
ParamSlot(fn, n) == stack_size(fn) + n - A_MAX

\* The slot of the n-th variable.
AllocSlot(fn, n) ==
    IF n \in A_MAX .. fn.params - 1
    THEN ParamSlot(fn, n)
    ELSE VariableSlot(fn, IF n < fn.params THEN n ELSE n - par_spill(fn))
=============================================================================
