------------------------------ MODULE Lowering ------------------------------
(***************************************************************************)
(* The control flow of the IR pass (src/src/ir.c): how the statements of a *)
(* function and the operators "&&" and "||" become basic blocks.           *)
(*                                                                         *)
(* The recursion of the pass over the syntax tree is a stack of frames,    *)
(* one for each call of Stmt, Block or Exp that has not returned.  The     *)
(* tree is not given: each action starts or goes on with any node that may *)
(* come next.  The nodes met are logged in "prog", the source program.     *)
(*                                                                         *)
(* An operand of "&&", "||", a condition or a return is a call, of which   *)
(* nothing is known but that it returns true or false.  A value is named   *)
(* by the position in prog of the node it belongs to.  Code after a return *)
(* in the same block is not visited and not logged.                        *)
(***************************************************************************)
EXTENDS Integers, Sequences, SequencesExt

CONSTANT MaxNodes      \* bound on the nodes of the program

ASSUME LoweringAssumption == MaxNodes \in Nat

VARIABLES void,        \* whether the function returns nothing
          prog,        \* the nodes met so far
          stack,       \* the frames
          done,        \* what the frame on top has just got from below: "exp", "stmt"
          exp,         \* the value of that expression
          nodes,       \* how many nodes were started
          blocks,      \* the instructions of the basic blocks made so far
          bbs,         \* the blocks of the function, in the order they are emitted
          m            \* m_curr_basic_block, m_curr_cond, m_curr_end, m_returned

pass == <<void, prog, stack, done, exp, nodes, blocks, bbs, m>>

None == 0       \* no block, no value

Top == Last(stack)

Entry == 1

PassInit ==
    /\ void \in BOOLEAN
    /\ prog = <<>>
    /\ stack = <<[kind |-> "block", stage |-> "items"]>>
    /\ done = "nothing" /\ exp = None
    /\ nodes = 0
    /\ blocks = <<<<>>>> /\ bbs = <<Entry>>
    /\ m = [curr |-> Entry, cond |-> None, end |-> None, returned |-> FALSE]
-----------------------------------------------------------------------------
(* Instructions and blocks. *)

Call(v)             == [op |-> "call", value |-> v]
Alloc(v)            == [op |-> "alloc", var |-> v]
Set(v, b)           == [op |-> "set", var |-> v, to |-> b]       \* store of 0 or 1
Store(w, v)         == [op |-> "store", value |-> w, var |-> v]  \* store of "value # 0"
LoadFrom(v)         == [op |-> "load", var |-> v, value |-> v]
Branch(w, yes, no)  == [op |-> "branch", value |-> w, yes |-> yes, no |-> no]
Jump(to)            == [op |-> "jump", to |-> to]
Return(w)           == [op |-> "return", value |-> w]

IsTerminator(inst) == inst.op \in {"return", "branch", "jump"}

\* slip: instructions after a jump are kept
try_append_All(insts, inst) == Append(insts, inst)

\* Nothing is appended to a block that has been left.
try_append(insts, inst) ==
    IF insts # <<>> /\ IsTerminator(Last(insts)) THEN insts ELSE Append(insts, inst)

\* The blocks with the instruction appended to block b.
Emit(bb, b, inst) == [bb EXCEPT ![b] = try_append(@, inst)]

\* The blocks with n new ones.
Fresh(bb, n) == bb \o [i \in 1 .. n |-> <<>>]

\* The i-th new block.
New(i) == Len(blocks) + i
-----------------------------------------------------------------------------
(* The traversal. *)

Log(tok)  == prog' = Append(prog, [tok |-> tok, depth |-> Len(stack)])
LogIn(tok) == prog' = Append(prog, [tok |-> tok, depth |-> Len(stack) + 1])
Here == Len(prog) + 1

Push(frame) == stack' = Append(stack, frame) /\ done' = "nothing"
Pop(what)   == stack' = Front(stack) /\ done' = what
Stay(frame) == stack' = Append(Front(stack), frame) /\ done' = "nothing"
Yields(v)   == done' = "exp" /\ exp' = v

\* A node of this size may still be started.
Room == nodes < MaxNodes
Starts == nodes' = nodes + 1

WantsStmt == \/ Top.kind = "block" /\ ~ m.returned /\ done # "exp"
             \/ Top.stage \in {"then", "else", "body"} /\ done = "nothing"

WantsExp == Top.stage \in {"cond", "lhs", "rhs", "exp"} /\ done = "nothing"

Resumes(kind, stage, what) == Top.kind = kind /\ Top.stage = stage /\ done = what
-----------------------------------------------------------------------------
(* Exp. *)

\* An operand: a call, with nothing below it.
Operand ==
    /\ WantsExp
    /\ Log("eval")
    /\ blocks' = Emit(blocks, m.curr, Call(Here))
    /\ Yields(Here)
    /\ UNCHANGED <<void, stack, nodes, bbs, m>>

\* "&&" and "||": a variable for the result, set to what it is if the right operand is
\* not evaluated, and two blocks, for the right operand and for what follows.
Logical(kind) ==
    /\ WantsExp /\ Room /\ Starts
    /\ LogIn(kind)
    /\ blocks' = Emit(Emit(Fresh(blocks, 2), m.curr, Alloc(Here)),
                      m.curr, Set(Here, kind = "or"))
    /\ bbs' = bbs \o <<New(1), New(2)>>
    /\ Push([kind |-> kind, stage |-> "lhs", rhs |-> New(1), end |-> New(2), var |-> Here])
    /\ UNCHANGED <<void, exp, m>>

\* slip: "||" leaves to the same side as "&&"
LogicalBranch_Same(frame) == Branch(exp, frame.rhs, frame.end)

LogicalBranch(frame) == IF frame.kind = "and" THEN Branch(exp, frame.rhs, frame.end)
                                              ELSE Branch(exp, frame.end, frame.rhs)

LogicalLeft ==
    /\ Top.kind \in {"and", "or"} /\ Resumes(Top.kind, "lhs", "exp")
    /\ Log("mid")
    /\ blocks' = Emit(blocks, m.curr, LogicalBranch(Top))
    /\ m' = [m EXCEPT !.curr = Top.rhs]
    /\ Stay([Top EXCEPT !.stage = "rhs"])
    /\ UNCHANGED <<void, exp, nodes, bbs>>

\* slip: the result is read where the right operand was evaluated
ResultBlock_Rhs(frame) == frame.rhs

ResultBlock(frame) == frame.end

LogicalRight ==
    /\ Top.kind \in {"and", "or"} /\ Resumes(Top.kind, "rhs", "exp")
    /\ Log("endop")
    /\ blocks' = Emit(Emit(Emit(blocks, m.curr, Store(exp, Top.var)),
                           m.curr, Jump(Top.end)),
                      ResultBlock(Top), LoadFrom(Top.var))
    /\ m' = [m EXCEPT !.curr = Top.end]
    /\ stack' = Front(stack)
    /\ Yields(Top.var)
    /\ UNCHANGED <<void, nodes, bbs>>
-----------------------------------------------------------------------------
(* Stmt. *)

\* The empty statement, as a branch or a body; in a block it would change nothing.
Semi ==
    /\ WantsStmt /\ Top.kind # "block"
    /\ done' = "stmt"
    /\ UNCHANGED <<void, prog, stack, exp, nodes, blocks, bbs, m>>

ExpStmt ==
    /\ WantsStmt /\ Room /\ Starts
    /\ Push([kind |-> "exp", stage |-> "exp"])
    /\ UNCHANGED <<void, prog, exp, blocks, bbs, m>>

EndExpStmt ==
    /\ Resumes("exp", "exp", "exp")
    /\ Pop("stmt")
    /\ UNCHANGED <<void, prog, exp, nodes, blocks, bbs, m>>

Open ==
    /\ WantsStmt /\ Room /\ Starts
    /\ Push([kind |-> "block", stage |-> "items"])
    /\ UNCHANGED <<void, prog, exp, blocks, bbs, m>>

\* BlockItemList ends with the last item, or after a return.
Close ==
    /\ Len(stack) > 1 /\ Top.kind = "block" /\ done # "exp"
    /\ Pop("stmt")
    /\ m' = [m EXCEPT !.returned = FALSE]
    /\ UNCHANGED <<void, prog, exp, nodes, blocks, bbs>>

Returns(v) ==
    /\ Log("return")
    /\ blocks' = Emit(blocks, m.curr, Return(v))
    /\ m' = [m EXCEPT !.returned = TRUE]

ReturnNothing ==
    /\ WantsStmt /\ void /\ Room /\ Starts
    /\ Returns(None)
    /\ done' = "stmt"
    /\ UNCHANGED <<void, stack, exp, bbs>>

ReturnExp ==
    /\ WantsStmt /\ ~ void /\ Room /\ Starts
    /\ Push([kind |-> "return", stage |-> "exp"])
    /\ UNCHANGED <<void, prog, exp, blocks, bbs, m>>

EndReturn ==
    /\ Resumes("return", "exp", "exp")
    /\ Returns(exp)
    /\ Pop("stmt")
    /\ UNCHANGED <<void, exp, nodes, bbs>>

If ==
    /\ WantsStmt /\ Room /\ Starts
    /\ Push([kind |-> "if", stage |-> "cond"])
    /\ UNCHANGED <<void, prog, exp, blocks, bbs, m>>

IfThen ==
    /\ Resumes("if", "cond", "exp")
    /\ Log("then")
    /\ blocks' = Emit(Fresh(blocks, 3), m.curr, Branch(exp, New(1), New(2)))
    /\ bbs' = Append(bbs, New(1))
    /\ m' = [m EXCEPT !.curr = New(1)]
    /\ Stay([kind |-> "if", stage |-> "then",
             yes |-> New(1), no |-> New(2), end |-> New(3)])
    /\ UNCHANGED <<void, exp, nodes>>

\* The end of the "then" branch: the block it ended in, and the one it began with.
ThenLeft(frame) == Emit(Emit(blocks, m.curr, Jump(frame.end)),
                        frame.yes, Jump(frame.end))

IfElse ==
    /\ Resumes("if", "then", "stmt") /\ Room /\ Starts
    /\ Log("else")
    /\ blocks' = ThenLeft(Top)
    /\ bbs' = Append(bbs, Top.no)
    /\ m' = [m EXCEPT !.curr = Top.no, !.returned = FALSE]
    /\ Stay([Top EXCEPT !.stage = "else"])
    /\ UNCHANGED <<void, exp>>

\* The end of an "if" without "else".
IfEnd ==
    /\ Resumes("if", "then", "stmt")
    /\ Log("endif")
    /\ blocks' = Emit(ThenLeft(Top), Top.no, Jump(Top.end))
    /\ bbs' = bbs \o <<Top.no, Top.end>>
    /\ m' = [m EXCEPT !.curr = Top.end, !.returned = FALSE]
    /\ Pop("stmt")
    /\ UNCHANGED <<void, exp, nodes>>

IfElseEnd ==
    /\ Resumes("if", "else", "stmt")
    /\ Log("endif")
    /\ blocks' = Emit(Emit(blocks, m.curr, Jump(Top.end)), Top.no, Jump(Top.end))
    /\ bbs' = Append(bbs, Top.end)
    /\ m' = [m EXCEPT !.curr = Top.end, !.returned = FALSE]
    /\ Pop("stmt")
    /\ UNCHANGED <<void, exp, nodes>>

While ==
    /\ WantsStmt /\ Room /\ Starts
    /\ LogIn("while")
    /\ blocks' = Emit(Fresh(blocks, 3), m.curr, Jump(New(1)))
    /\ bbs' = Append(bbs, New(1))
    /\ m' = [m EXCEPT !.curr = New(1)]
    /\ Push([kind |-> "while", stage |-> "cond",
             cond |-> New(1), body |-> New(2), end |-> New(3),
             this_cond |-> m.cond, this_end |-> m.end])
    /\ UNCHANGED <<void, exp>>

WhileBody ==
    /\ Resumes("while", "cond", "exp")
    /\ Log("do")
    /\ blocks' = Emit(blocks, m.curr, Branch(exp, Top.body, Top.end))
    /\ bbs' = Append(bbs, Top.body)
    /\ m' = [m EXCEPT !.curr = Top.body, !.cond = Top.cond, !.end = Top.end]
    /\ Stay([Top EXCEPT !.stage = "body"])
    /\ UNCHANGED <<void, exp, nodes>>

\* slips: the jump back goes past the condition; the outer loop's targets are lost
LoopBack_Body(frame) == frame.body
OuterLoop_Lost(frame) == <<frame.cond, frame.end>>

LoopBack(frame)  == frame.cond
OuterLoop(frame) == <<frame.this_cond, frame.this_end>>

WhileEnd ==
    /\ Resumes("while", "body", "stmt")
    /\ Log("endwhile")
    /\ blocks' = Emit(blocks, m.curr, Jump(LoopBack(Top)))
    /\ bbs' = Append(bbs, Top.end)
    /\ m' = [curr |-> Top.end, returned |-> FALSE,
             cond |-> OuterLoop(Top)[1], end |-> OuterLoop(Top)[2]]
    /\ Pop("stmt")
    /\ UNCHANGED <<void, exp, nodes>>

\* break and continue; what follows in the same block gets a block of its own.
Leave(tok, target) ==
    /\ WantsStmt /\ target # None /\ Room /\ Starts
    /\ Log(tok)
    /\ blocks' = Emit(Fresh(blocks, 1), m.curr, Jump(target))
    /\ bbs' = Append(bbs, New(1))
    /\ m' = [m EXCEPT !.curr = New(1)]
    /\ done' = "stmt"
    /\ UNCHANGED <<void, stack, exp>>

Break    == Leave("break", m.end)
Continue == Leave("continue", m.cond)

Returned(insts) == insts # <<>> /\ Last(insts).op = "return"

\* FuncDef, after the function's block: a void function returns at its end.
EndFunction ==
    /\ Len(stack) = 1 /\ done # "exp"
    /\ Log("endfunction")
    /\ blocks' = IF void /\ ~ Returned(blocks[m.curr])
                 THEN [blocks EXCEPT ![m.curr] = Append(@, Return(None))] ELSE blocks
    /\ stack' = <<>> /\ done' = "nothing"
    /\ UNCHANGED <<void, exp, nodes, bbs, m>>

Lower == stack # <<>> /\
    (\/ Operand \/ \E kind \in {"and", "or"} : Logical(kind)
     \/ LogicalLeft \/ LogicalRight
     \/ Semi \/ ExpStmt \/ EndExpStmt \/ Open \/ Close
     \/ ReturnNothing \/ ReturnExp \/ EndReturn
     \/ If \/ IfThen \/ IfElse \/ IfEnd \/ IfElseEnd
     \/ While \/ WhileBody \/ WhileEnd
     \/ Break \/ Continue
     \/ EndFunction)
=============================================================================
