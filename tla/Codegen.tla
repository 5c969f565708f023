------------------------------ MODULE Codegen ------------------------------
(***************************************************************************)
(* The code generator of src/src/codegen.c, together with the machine that *)
(* runs the code.  Each action takes the next instruction of the IR on a   *)
(* path through a function, and does what the code emitted for it does to  *)
(* the registers and the stack.                                            *)
(*                                                                         *)
(* A cell holds the name of what the program should find in it: a value of *)
(* the block by its index, a variable by its number, the return address... *)
(* Nothing is computed: an instruction is right if it finds the operands   *)
(* its IR instruction names, which "took" records.                         *)
(*                                                                         *)
(* The values of an expression are used once each, last computed first, so *)
(* those still to be used form a stack, "live".  A block ends when it is   *)
(* empty, but a left operand, or an argument, may wait for another with    *)
(* "&&" or "||", which splits the block: then the code that computes it is *)
(* generated again where it is used.  Here such values are loads of local  *)
(* variables, "waiting", and below all of "live".  Others are not          *)
(* modelled: a call would be made twice, an operator or the load of a      *)
(* global variable uses registers of its own.                              *)
(*                                                                         *)
(* "Admit" names the kinds of functions for which the code is known to go  *)
(* wrong and which are to be looked at nevertheless:                       *)
(*   "call_past_t"  a call, while a value waits in an a register, in a     *)
(*                  function whose calls have arguments                    *)
(*   "spill_gap"    a value whose register a call needs for an argument    *)
(*   "waiting_arg"  an argument that has waited, after one that has waited *)
(*                  or a literal                                           *)
(***************************************************************************)
EXTENDS Frame, Sequences, FiniteSets, SequencesExt

CONSTANTS MaxParams, MaxLocals, MaxVals, MaxArgs,   \* bounds on the counts of a function
          MaxCallArgs,                              \* bound on the arguments of a call
          MaxIndex,                                 \* bound on reg_idx
          MaxWaiting,                               \* bound on the values that wait
          None,                                     \* no function
          Admit

ASSUME CodegenAssumption == /\ {MaxParams, MaxLocals, MaxVals, MaxArgs,
                                MaxCallArgs, MaxIndex, MaxWaiting} \subseteq Nat
                            /\ Admit \subseteq {"call_past_t", "spill_gap", "waiting_arg"}
                            /\ None \notin Function

MaxAllocs == MaxParams + MaxLocals

VARIABLES m_fn,     \* the counts of the function, or None
          m_bb,     \* reg_idx and out_idx of the block
          passed,   \* the arguments passed by the calls of the block so far
          live,     \* the values of the block still to be used
          waiting,  \* the variables whose loads wait for the next blocks
          split,    \* the block of the last of these has ended
          ready,    \* the variables that have been stored to
          reg,      \* the registers
          mem,      \* the slots from sp on, up to what belongs to the caller
          took      \* the operands of the last instruction, each with what was found

vars == <<m_fn, m_bb, passed, live, waiting, split, ready, reg, mem, took>>

\* What a cell holds.
Value(i)    == <<"value", i>>
Variable(n) == <<"variable", n>>
Param(n)    == <<"param", n>>       \* the parameter as it was passed
Literal(k)  == <<"literal", k>>     \* the literal or address that is the k-th operand
Zero        == <<"zero", 0>>
Ra          == <<"ra", 0>>
Caller      == <<"caller", 0>>      \* what belongs to the caller
Junk        == <<"junk", 0>>

Registers == {T(i) : i \in 0 .. T_MAX + 1} \cup {A(i) : i \in 0 .. A_MAX - 1} \cup {X0}

Slots(fn) == 0 .. stack_size(fn) + MaxParams

EmptyBlock == [reg_idx |-> 0, out_idx |-> 0]

Idle(r) == IF r = X0 THEN Zero ELSE Junk

Init == /\ m_fn = None
        /\ m_bb = EmptyBlock
        /\ passed = 0
        /\ live = <<>>
        /\ waiting = <<>>
        /\ split = FALSE
        /\ ready = {}
        /\ reg = [r \in Registers |-> Idle(r)]
        /\ mem = <<>>
        /\ took = {}
-----------------------------------------------------------------------------
(* The machine "m": registers, stack, reg_idx, and the registers that      *)
(* yield.h has queued for the next instruction.                            *)

Machine == [reg |-> reg, mem |-> mem, idx |-> m_bb.reg_idx, queue |-> <<>>]

lw(m, r, slot) == [m EXCEPT !.reg[r] = IF slot \in DOMAIN m.mem THEN m.mem[slot] ELSE Junk]
put(m, slot, what) == IF slot \in DOMAIN m.mem THEN [m EXCEPT !.mem[slot] = what] ELSE m
sw(m, r, slot) == put(m, slot, m.reg[r])
mv(m, r, q)    == [m EXCEPT !.reg[r] = m.reg[q]]
li(m, r, what) == [m EXCEPT !.reg[r] = what]

\* The callee may change every register, and the words it was passed on the stack.
callee(m) ==
    [m EXCEPT !.reg = [r \in Registers |-> Idle(r)],
              !.mem = [s \in DOMAIN m.mem |-> IF s < spill_args(m_fn) THEN Junk ELSE @[s]]]

\* The machine after an instruction.  What no later instruction asks for is dropped.
Settle(m, alive) ==
    LET needed == Range(alive)
        Kept(cell) == \/ cell[1] \in {"variable", "zero", "ra", "caller"}
                      \/ cell[1] = "value" /\ cell[2] \in needed
                      \/ cell[1] = "param" /\ cell[2] \notin ready
        Only(f) == [c \in DOMAIN f |-> IF Kept(f[c]) THEN f[c] ELSE Junk]
    IN  live' = alive /\ reg' = Only(m.reg) /\ mem' = Only(m.mem)
-----------------------------------------------------------------------------
\* slip: there is one register for spilled operands
ScratchFor_T5(m) == Scratch(0)

ScratchFor(m) == Scratch(Len(m.queue))

\* The next free register, for a literal or an address.
Free(m) == IF m.idx < RegisterEnd(m_fn) THEN ValueRegister(m_fn, m.idx) ELSE ScratchFor(m)

Yield(m, r) == [m EXCEPT !.queue = Append(@, r)]

opnd(m, what) ==
    CASE what[1] = "zero" -> Yield(m, X0)
      [] what[1] = "literal" -> Yield([li(m, Free(m), what) EXCEPT !.idx = @ + 1], Free(m))
      [] what[1] = "value" ->
             LET i == what[2]
             IN  IF i < RegisterEnd(m_fn)
                 THEN Yield(m, ValueRegister(m_fn, i))
                 ELSE Yield(lw(m, ScratchFor(m), OutSlot(m_fn, i)), ScratchFor(m))
      [] what[1] = "variable" ->
             LET n == [m EXCEPT !.idx = @ + 1]
             IN  IF m.idx < RegisterEnd(m_fn)
                 THEN Yield(n, ValueRegister(m_fn, m.idx))
                 ELSE Yield(lw(n, ScratchFor(m), OutSlot(m_fn, m.idx)), ScratchFor(m))

\* What is asked for, and what the queued registers hold.
Found(m, asked) == {<<asked[k], m.reg[m.queue[k]]>> : k \in DOMAIN asked}

\* The register of the value being computed, and the slot behind it if it is t5.
out(i) == IF i < RegisterEnd(m_fn) THEN ValueRegister(m_fn, i) ELSE Scratch(0)

\* What the instruction computes goes to the register, or through it to the slot.
Out(m, what) ==
    LET i == m_bb.out_idx
        n == li(m, out(i), what)
    IN  IF i < RegisterEnd(m_fn) THEN n ELSE sw(n, out(i), OutSlot(m_fn, i))

oper(m) == Out(m, Value(m_bb.out_idx))

\* slip: a value of another block is looked for where it should be by now
raw_value_Assumed(m, what) == m

\* m_ht_outs knows the values of this block only.  Another one is generated again, in
\* the register of the instruction that uses it, and opnd will look for it at reg_idx.
raw_value(m, what) ==
    IF what[1] = "variable" THEN Out(m, m.mem[AllocSlot(m_fn, what[2])]) ELSE m

opnds(asked) == FoldLeft(opnd, FoldLeft(raw_value, Machine, asked), asked)
-----------------------------------------------------------------------------
(* The operands of an instruction are literals, the values computed last   *)
(* and those that wait, in this order.                                     *)

Kinds == {"value", "literal", "zero", "waiting"}

Count(kinds, kind) == Cardinality({k \in DOMAIN kinds : kinds[k] = kind})

ValuesIn(kinds)  == Count(kinds, "value")
WaitingIn(kinds) == Count(kinds, "waiting")

Operands(kinds) ==
    [k \in DOMAIN kinds |->
        LET after == SubSeq(kinds, k + 1, Len(kinds))
        IN  CASE kinds[k] = "zero"    -> Zero
              [] kinds[k] = "literal" -> Literal(k)
              [] kinds[k] = "value"   -> Value(live[Len(live) - ValuesIn(after)])
              [] kinds[k] = "waiting" -> Variable(waiting[Len(waiting) - WaitingIn(after)])]

Rest(kinds) == SubSeq(live, 1, Len(live) - ValuesIn(kinds))

RestWaiting(kinds) == SubSeq(waiting, 1, Len(waiting) - WaitingIn(kinds))

\* These go on waiting.
Resume(rest) == waiting' = rest /\ split' = (split /\ rest # <<>>)

\* A value that has waited is used before those computed in this block, and after it
\* in the program comes the one it has waited for.
Waited(kinds) ==
    \A k \in DOMAIN kinds :
        kinds[k] = "waiting" =>
            /\ split /\ Rest(kinds) = <<>>
            /\ "value" \in Range(SubSeq(kinds, k + 1, Len(kinds)))
            /\ "value" \notin Range(SubSeq(kinds, 1, k - 1))

ParamsTaken == 0 .. m_fn.params - 1 \subseteq ready

\* The path goes on with an instruction that has these operands.
At(kinds) == /\ m_fn # None /\ ParamsTaken
             /\ ValuesIn(kinds) <= Len(live)
             /\ WaitingIn(kinds) <= Len(waiting) /\ Waited(kinds)
             /\ "literal" \in Range(kinds) => m_bb.reg_idx <= MaxIndex

\* The counts of the function leave room for what uses up the live values: operators,
\* or a call of a void function.
Finishable == \/ Len(live') <= 1 + m_fn.vals - m_bb'.out_idx
              \/ /\ Len(live') + Len(waiting') <= m_fn.args - passed'
                 /\ waiting' = <<>> \/ (split' /\ Len(waiting') = 1
                                           /\ m_bb'.out_idx < RegisterEnd(m_fn))

\* slip: reg_idx is not put behind the new value
Stepped_Stale(m) == [reg_idx |-> m.idx, out_idx |-> m_bb.out_idx + 1]

\* After a value of type int, raw_slice puts reg_idx behind it.
Stepped(m) == [reg_idx |-> m_bb.out_idx + 1, out_idx |-> m_bb.out_idx + 1]

\* The code of an instruction that computes a value.
Computes(m, rest) == /\ m_bb.out_idx < m_fn.vals
                     /\ m_bb' = Stepped(m)
                     /\ Settle(m, Append(rest, m_bb.out_idx))
                     /\ Finishable
-----------------------------------------------------------------------------
Supported(fn) == \/ fn.args = 0
                 \/ fn.vals <= RegisterEnd(fn)
                 \/ "spill_gap" \in Admit

\* function_prologue, called by a caller that has passed the parameters.
Enter(fn) ==
    /\ m_fn = None
    /\ fn.params <= fn.allocs /\ Supported(fn)
    /\ m_fn' = fn
    /\ reg' = [r \in Registers |->
                  IF \E n \in 0 .. Least(fn.params, A_MAX) - 1 : r = A(n)
                  THEN Param(r[2]) ELSE Idle(r)]
    /\ mem' = [s \in Slots(fn) |->
                  CASE s = RaSlot(fn) -> Ra
                    [] s < RaSlot(fn) -> Junk
                    [] OTHER -> IF \E n \in A_MAX .. fn.params - 1 : s = ParamSlot(fn, n)
                                THEN Variable(s - ParamSlot(fn, 0)) ELSE Caller]
    /\ took' = {}
    /\ UNCHANGED <<m_bb, passed, live, waiting, split, ready>>

\* Where raw_kind_store puts a parameter that came in a register.
HomeSlot(n) == VariableSlot(m_fn, n)

\* A parameter is stored to its variable; one that came on the stack is left there.
TakeParam(n) ==
    /\ m_fn # None
    /\ n \in 0 .. m_fn.params - 1 /\ ready = 0 .. n - 1
    /\ ready' = ready \cup {n}
    /\ IF n < A_MAX
       THEN /\ took' = {<<Param(n), reg[A(n)]>>}
            /\ Settle(put(Machine, HomeSlot(n), Variable(n)), live)
       ELSE took' = {} /\ UNCHANGED <<live, reg, mem>>
    /\ UNCHANGED <<m_fn, m_bb, passed, waiting, split>>

Load(n) ==
    /\ At(<<>>) /\ n \in ready
    /\ UNCHANGED <<m_fn, passed, waiting, split, ready>>
    /\ took' = {<<Variable(n), mem[AllocSlot(m_fn, n)]>>}
    /\ Computes(oper(Machine), live)

\* The load of a value that will be used in a later block.
LoadEarly(n) ==
    /\ At(<<>>) /\ n \in ready
    /\ live = <<>> /\ Len(waiting) < MaxWaiting
    /\ m_bb.out_idx < m_fn.vals
    /\ m_bb' = Stepped(Machine)
    /\ waiting' = Append(waiting, n)
    /\ split' = FALSE
    /\ took' = {<<Variable(n), mem[AllocSlot(m_fn, n)]>>}
    /\ Settle(oper(Machine), <<>>)
    /\ UNCHANGED <<m_fn, passed, ready>>

\* A binary operator, or a load from the address of a global variable.
Operate(kinds) ==
    /\ At(kinds) /\ (kinds = <<"literal">> \/ Len(kinds) = 2)
    /\ Resume(RestWaiting(kinds))
    /\ UNCHANGED <<m_fn, passed, ready>>
    /\ LET m == opnds(Operands(kinds))
       IN  took' = Found(m, Operands(kinds)) /\ Computes(oper(m), Rest(kinds))

\* A store to a variable.  The statement ends with it, unless it is the variable of
\* "&&" or "||".
Store(kinds, n) ==
    /\ At(kinds) /\ Len(kinds) = 1 /\ Rest(kinds) = <<>>
    /\ n \in 0 .. m_fn.allocs - 1 /\ n \notin Range(waiting)
    /\ ready' = ready \cup {n}
    /\ LET m == opnds(Operands(kinds))
       IN  /\ took' = Found(m, Operands(kinds))
           /\ m_bb' = [m_bb EXCEPT !.reg_idx = m.idx]
           /\ Settle(put(m, AllocSlot(m_fn, n), Variable(n)), <<>>)
    /\ UNCHANGED <<m_fn, passed, waiting, split>>

\* A store to a global variable, by its address.
StoreGlobal(kinds) ==
    /\ At(kinds) /\ Len(kinds) = 2 /\ kinds[2] = "literal" /\ Rest(kinds) = <<>>
    /\ waiting = <<>>
    /\ LET m == opnds(Operands(kinds))
       IN  /\ took' = Found(m, Operands(kinds))
           /\ m_bb' = [m_bb EXCEPT !.reg_idx = m.idx]
           /\ Settle(m, <<>>)
    /\ UNCHANGED <<m_fn, passed, waiting, split, ready>>
-----------------------------------------------------------------------------
\* slip: the register of the value computed last is not saved
Pushed_Less == 0 .. Least(m_bb.out_idx, R_MAX) - 2

\* The indices whose registers a call saves.
Pushed == 0 .. Least(m_bb.out_idx, R_MAX) - 1

push(m) == [m EXCEPT !.mem = [s \in DOMAIN @ |->
                IF s - spill_args(m_fn) \in Pushed
                THEN m.reg[SavedRegister(s - spill_args(m_fn))] ELSE @[s]]]

pop(m) == [m EXCEPT !.reg = [r \in Registers |->
                IF \E i \in Pushed : r = SavedRegister(i)
                THEN m.mem[SavedSlot(m_fn, CHOOSE i \in Pushed : r = SavedRegister(i))]
                ELSE @[r]]]

\* The j-th argument is fetched and moved to where the callee expects it.
pass(m, what, j) ==
    LET n == opnd(raw_value([m EXCEPT !.queue = <<>>], what), what)
        r == n.queue[1]
    IN  IF j < A_MAX THEN mv(n, A(j), r) ELSE sw(n, r, ArgumentSlot(j))

\* The arguments when the callee begins.
Received(m, asked) ==
    {<<asked[k], IF k <= A_MAX THEN m.reg[A(k - 1)] ELSE m.mem[ArgumentSlot(k - 1)]>> :
        k \in DOMAIN asked}

\* A call while a value that is still needed is in an a register.
PastT(rest) == \E i \in Range(rest) : T_MAX <= i /\ i < RegisterEnd(m_fn)

\* An argument that has waited, after one that has left reg_idx behind out_idx.
WaitingLate(kinds) ==
    \E k \in DOMAIN kinds : /\ kinds[k] = "waiting"
                            /\ Range(SubSeq(kinds, 1, k - 1)) \cap {"waiting", "literal"} # {}

\* The call of a void function is no value, so count_vals has not counted what is
\* generated again for it, and here there is no register left.
Uncounted(kinds, returns) ==
    ~returns /\ WaitingIn(kinds) > 0 /\ m_bb.out_idx >= RegisterEnd(m_fn)

Call(kinds, returns) ==
    /\ At(kinds) /\ passed + Len(kinds) <= m_fn.args
    /\ WaitingLate(kinds) => "waiting_arg" \in Admit
    /\ Uncounted(kinds, returns) => "spill_gap" \in Admit
    /\ m_fn.args > 0 /\ PastT(Rest(kinds)) => "call_past_t" \in Admit
    /\ passed' = passed + Len(kinds)
    /\ Resume(RestWaiting(kinds))
    /\ LET asked  == Operands(kinds)
           before == FoldLeftDomain(LAMBDA m, k : pass(m, asked[k], k - 1),
                                    push(Machine), asked)
           after  == callee(before)
       IN  /\ took' = Received(before, asked)
           /\ IF returns
              THEN Computes(pop(oper(after)), Rest(kinds))
              ELSE /\ Rest(kinds) = <<>> /\ RestWaiting(kinds) = <<>>
                   /\ m_bb' = [m_bb EXCEPT !.reg_idx = after.idx]
                   /\ Settle(after, <<>>)
    /\ UNCHANGED <<m_fn, ready>>

\* The value of an expression that is a statement is not used.
Discard ==
    /\ At(<<>>) /\ Len(live) = 1 /\ waiting = <<>>
    /\ took' = {}
    /\ Settle(Machine, <<>>)
    /\ UNCHANGED <<m_fn, m_bb, passed, waiting, split, ready>>

\* A jump, or a branch on an operand; the next block starts with its counters reset.
Branch(kinds) ==
    /\ At(kinds) /\ Len(kinds) <= 1 /\ Rest(kinds) = <<>>
    /\ m_bb' = EmptyBlock
    /\ passed' = 0
    /\ LET m == opnds(Operands(kinds))
       IN  took' = Found(m, Operands(kinds)) /\ Settle(m, <<>>)
    /\ split' = (waiting # <<>>)
    /\ UNCHANGED <<m_fn, waiting, ready>>

Return(kinds) ==
    /\ At(kinds) /\ Len(kinds) <= 1 /\ Rest(kinds) = <<>> /\ waiting = <<>>
    /\ LET m == opnds(Operands(kinds))
       IN  took' = Found(m, Operands(kinds)) \cup {<<Ra, m.mem[RaSlot(m_fn)]>>}
    /\ m_fn' = None
    /\ m_bb' = EmptyBlock
    /\ passed' = 0
    /\ live' = <<>>
    /\ waiting' = <<>>
    /\ split' = FALSE
    /\ ready' = {}
    /\ reg' = [r \in Registers |-> Idle(r)]
    /\ mem' = <<>>

Functions == {fn \in [params : 0 .. MaxParams, allocs : 0 .. MaxAllocs,
                      vals : 0 .. MaxVals, args : 0 .. MaxArgs] :
                 fn.allocs <= fn.params + MaxLocals}

PatternsUpTo(n) == {kinds \in BoundedSeq(Kinds, n) : WaitingIn(kinds) <= MaxWaiting}

Patterns == PatternsUpTo(2)

ArgumentPatterns == PatternsUpTo(MaxCallArgs)

Next == \/ \E fn \in Functions : Enter(fn)
        \/ \E n \in 0 .. MaxAllocs : TakeParam(n) \/ Load(n) \/ LoadEarly(n)
        \/ \E kinds \in Patterns :
               \/ Operate(kinds) \/ StoreGlobal(kinds) \/ Branch(kinds) \/ Return(kinds)
               \/ \E n \in 0 .. MaxAllocs : Store(kinds, n)
        \/ \E kinds \in ArgumentPatterns, returns \in BOOLEAN :
               Call(kinds, returns)
        \/ Discard

Spec == Init /\ [][Next]_vars
-----------------------------------------------------------------------------
\* Types.  Indices only grow, a literal's register is not one of a value.
TypeOK ==
    /\ m_fn \in Functions \cup {None}
    /\ m_bb \in [reg_idx : Nat, out_idx : Nat] /\ m_bb.out_idx <= m_bb.reg_idx
    /\ passed \in Nat
    /\ \A k \in DOMAIN live : live[k] < m_bb.out_idx /\ (k > 1 => live[k - 1] < live[k])
    /\ ready \subseteq 0 .. MaxAllocs /\ Range(waiting) \subseteq ready
    /\ DOMAIN reg = Registers
    /\ m_fn # None => DOMAIN mem = Slots(m_fn)

\* Every instruction, and every callee, finds the operands it should: literals, values
\* from registers and from spill slots through t5 and t6, arguments in a registers and
\* on the stack, parameters, variables, and the return address.
OperandsRight == \A pair \in took : pair[1] = pair[2]

\* Every value that is still needed is in its register or in its slot, whatever was
\* called, spilled and stored since it was computed.
LiveKept ==
    \A i \in Range(live) :
        Value(i) = IF i < RegisterEnd(m_fn) THEN reg[ValueRegister(m_fn, i)]
                                            ELSE mem[OutSlot(m_fn, i)]

\* No spilled value, saved register or outgoing argument is put over a variable.
VarsKept == \A n \in ready : mem[AllocSlot(m_fn, n)] = Variable(n)

\* The return address stays where raw_kind_return looks for it, and the words of the
\* caller above the frame are its own, except for the parameters in them.
FrameKept ==
    m_fn # None =>
        /\ mem[RaSlot(m_fn)] = Ra
        /\ \A s \in DOMAIN mem :
               s >= stack_size(m_fn) =>
                   mem[s] = Caller \/ \E n \in A_MAX .. m_fn.params - 1 : s = ParamSlot(m_fn, n)

\* The comments in raw_kind_call: the registers in use are pushed before the call and
\* popped after it.
RegistersRestored ==
    \A i \in Range(live) :
        i < RegisterEnd(m_fn) => reg[ValueRegister(m_fn, i)] = Value(i)
=============================================================================
