---------------------------- MODULE LoweringRuns ----------------------------
(***************************************************************************)
(* Runs a function twice at once: the source program that Lowering has     *)
(* logged, by the rules of the language, and the basic blocks it has made, *)
(* instruction by instruction.  The two meet at what can be observed: the  *)
(* evaluation of an operand, whose result is any truth value, and the      *)
(* return.                                                                 *)
(***************************************************************************)
EXTENDS Lowering, FiniteSets

VARIABLES src,     \* the source program: its position, and the last value
          ir,      \* the blocks: the block, the position in it
          env      \* the variables of "&&" and "||", and the values computed

vars == <<void, prog, stack, done, exp, nodes, blocks, bbs, m, src, ir, env>>

NoValues == [v \in {} |-> FALSE]

Start == /\ src' = [at |-> 1, last |-> FALSE]
         /\ ir' = [block |-> Entry, at |-> 1]
         /\ env' = [vars |-> NoValues, values |-> NoValues]

Init == /\ PassInit
        /\ src = [at |-> 1, last |-> FALSE]
        /\ ir = [block |-> Entry, at |-> 1]
        /\ env = [vars |-> NoValues, values |-> NoValues]

Running == stack = <<>>
-----------------------------------------------------------------------------
(* The source program. *)

Node == prog[src.at]

\* The next node in the log p of the same statement or operator that is one of these.
NextOf(p, i, toks) ==
    CHOOSE j \in i + 1 .. Len(p) :
        /\ p[j].tok \in toks /\ p[j].depth = p[i].depth
        /\ \A k \in i + 1 .. j - 1 : ~ (p[k].tok \in toks /\ p[k].depth = p[i].depth)

EndOfLoop(p, i) == NextOf(p, i, {"endwhile"})

\* The innermost loop around a node.
Loop(p, i) ==
    LET Around == {j \in 1 .. i : p[j].tok = "while" /\ i < EndOfLoop(p, j)}
    IN  CHOOSE j \in Around : \A k \in Around : k <= j

Begin(p, i) == CHOOSE j \in 1 .. i : p[j].tok = "while" /\ EndOfLoop(p, j) = i

\* The operator of a "mid".
OperatorOf(p, i) ==
    CHOOSE j \in 1 .. i : /\ p[j].tok \in {"and", "or"}
                          /\ NextOf(p, j, {"endop"}) = NextOf(p, i, {"endop"})

\* Where the program goes on after a node that cannot be observed.
Follow(p, i, last) ==
    CASE p[i].tok = "mid" ->
           IF last = (p[OperatorOf(p, i)].tok = "or") THEN NextOf(p, i, {"endop"}) ELSE i + 1
      [] p[i].tok = "then" ->
           IF last THEN i + 1 ELSE NextOf(p, i, {"else", "endif"}) + 1
      [] p[i].tok = "else" -> NextOf(p, i, {"endif"}) + 1
      [] p[i].tok = "do" -> IF last THEN i + 1 ELSE EndOfLoop(p, i) + 1
      [] p[i].tok = "endwhile" -> Begin(p, i)
      [] p[i].tok = "break" -> EndOfLoop(p, Loop(p, i)) + 1
      [] p[i].tok = "continue" -> Loop(p, i)
      [] OTHER -> i + 1

SrcMeets == Node.tok \in {"eval", "return", "endfunction"}

\* The end of a function that should have returned a value: anything may follow.
Undefined == ~ void /\ Node.tok = "endfunction"

SrcStep == /\ Running /\ ~ SrcMeets
           /\ src' = [src EXCEPT !.at = Follow(prog, src.at, src.last)]
           /\ UNCHANGED <<pass, ir, env>>
-----------------------------------------------------------------------------
(* The basic blocks. *)

Insts == blocks[ir.block]
AtEnd == ir.at > Len(Insts)
Inst  == Insts[ir.at]

\* A block without a jump at its end goes on in the next one.
Position == CHOOSE k \in DOMAIN bbs : bbs[k] = ir.block
FallsOut == AtEnd /\ Position = Len(bbs)

\* The kind of the instruction that is next, "end" if there is none.
NextOp == IF AtEnd THEN "end" ELSE Inst.op

IrMeets == FallsOut \/ NextOp \in {"call", "return"}

\* What the instruction reads has been computed.
Computed == "value" \in DOMAIN Inst /\ Inst.op \in {"store", "branch", "return"}
                => Inst.value \in DOMAIN env.values \cup {None}

Allocated == Inst.op \in {"set", "store", "load"} => Inst.var \in DOMAIN env.vars

Put(f, v, b) == [w \in DOMAIN f \cup {v} |-> IF w = v THEN b ELSE f[w]]

Goto(b) == ir' = [block |-> b, at |-> 1]
GoOn    == ir' = [ir EXCEPT !.at = @ + 1]

IrStep ==
    /\ Running /\ SrcMeets /\ ~ IrMeets /\ ~ Undefined
    /\ UNCHANGED <<pass, src>>
    /\ IF AtEnd THEN Goto(bbs[Position + 1]) /\ UNCHANGED env
       ELSE
       /\ Computed /\ (Inst.op # "alloc" => Allocated)
       /\ CASE Inst.op = "alloc" ->
                 GoOn /\ env' = [env EXCEPT !.vars = Put(@, Inst.var, FALSE)]
            [] Inst.op = "set" ->
                 GoOn /\ env' = [env EXCEPT !.vars = Put(@, Inst.var, Inst.to)]
            [] Inst.op = "store" ->
                 GoOn /\ env' = [env EXCEPT !.vars = Put(@, Inst.var, env.values[Inst.value])]
            [] Inst.op = "load" ->
                 GoOn /\ env' = [env EXCEPT !.values = Put(@, Inst.value, env.vars[Inst.var])]
            [] Inst.op = "branch" ->
                 Goto(IF env.values[Inst.value] THEN Inst.yes ELSE Inst.no) /\ UNCHANGED env
            [] Inst.op = "jump" -> Goto(Inst.to) /\ UNCHANGED env
-----------------------------------------------------------------------------
(* Both. *)

Meeting == Running /\ SrcMeets /\ (IrMeets \/ Undefined)

\* An operand is evaluated.
Evaluate(b) ==
    /\ Meeting /\ Node.tok = "eval" /\ NextOp = "call"
    /\ src' = [at |-> src.at + 1, last |-> b]
    /\ env' = [env EXCEPT !.values = Put(@, Inst.value, b)]
    /\ GoOn
    /\ UNCHANGED pass

\* The function returns, and may be called again.
Finish == /\ Meeting /\ Node.tok # "eval"
          /\ Start
          /\ UNCHANGED pass

Next == \/ Lower /\ UNCHANGED <<src, ir, env>>
        \/ SrcStep
        \/ IrStep
        \/ \E b \in BOOLEAN : Evaluate(b)
        \/ Finish

Spec == Init /\ [][Next]_vars /\ WF_vars(Next)
-----------------------------------------------------------------------------
Targets(inst) == CASE inst.op = "branch" -> {inst.yes, inst.no}
                   [] inst.op = "jump" -> {inst.to}
                   [] OTHER -> {}

\* Types of the pass's own state: frames name blocks that exist, and the loop targets
\* are those of the innermost loop whose body is being visited, or none.
TypeOK ==
    LET Blocks == DOMAIN blocks
        loops  == {i \in DOMAIN stack : stack[i].kind = "while" /\ stack[i].stage = "body"}
    IN  /\ nodes \in 0 .. MaxNodes
        /\ m.curr \in Blocks
        /\ <<m.cond, m.end>> = IF loops = {} THEN <<None, None>>
                               ELSE <<stack[Max(loops)].cond, stack[Max(loops)].end>>
        /\ Range(bbs) \subseteq Blocks
        /\ done \in {"nothing", "exp", "stmt"}

\* In a finished function every block is emitted, once; it is left at its end only; and
\* what it jumps to exists.
WellFormed ==
    Running =>
        /\ Range(bbs) = DOMAIN blocks /\ Len(bbs) = Len(blocks)
        /\ \A b \in DOMAIN blocks : \A k \in DOMAIN blocks[b] :
               /\ IsTerminator(blocks[b][k]) => k = Len(blocks[b])
               /\ Targets(blocks[b][k]) \subseteq Range(bbs)

\* Whatever the operands turn out to be, the blocks evaluate the operands that the
\* source program evaluates, in its order, and return when it returns, with its value.
\* Only the end of a function that should have returned a value is undefined.
SameRun ==
    Meeting =>
        CASE Node.tok = "eval" -> NextOp = "call" /\ Inst = Call(src.at)
          [] Node.tok = "return" ->
                 /\ NextOp = "return"
                 /\ ~ void => env.values[Inst.value] = src.last
          [] Node.tok = "endfunction" -> Undefined \/ NextOp = "return"

\* No instruction that is reached reads a value that was not computed on the way, or
\* a variable that was not allocated, because it is in a block that was truncated.
OperandsReady == Running /\ ~ AtEnd /\ ~ Undefined => Computed /\ Allocated

\* The blocks always get to the next operand or return: no block is entered from which
\* they go round without one, as long as the program does not.
Meets == []<>(Running => Meeting)

\* The comment in try_append: "truncate all instructions after branching".  Then no
\* instruction is kept that uses a variable whose allocation was dropped.
TruncatesAll ==
    LET Kept == UNION {Range(blocks[b]) : b \in DOMAIN blocks}
    IN  Running => \A inst \in Kept : inst.op \in {"set", "store", "load"}
                                      => Alloc(inst.var) \in Kept
=============================================================================
